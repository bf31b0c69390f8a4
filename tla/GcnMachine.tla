------------------------------ MODULE GcnMachine ------------------------------
(***************************************************************************)
(* What a block computes, twice: Machine runs its guest instructions one   *)
(* after another, Execute runs the IR they were translated to.  Values are *)
(* terms, [op, n, args], over what the registers and the memory held       *)
(* before; a context has the registers, attributes and SCC written so far  *)
(* and the writes to shared memory in order.                               *)
(***************************************************************************)
EXTENDS Translator

Term(op, n, args) == [op |-> op, n |-> n, args |-> args]
Number(n) == Term("Number", n, <<>>)
Apply(op, args) == Term(op, 0, args)

NoContext == [reg |-> <<>>, attribute |-> <<>>, scc |-> Apply("GetScc", <<>>), shared |-> <<>>]

Register(ctx, file, n) ==
    IF <<file, n>> \in DOMAIN ctx.reg THEN ctx.reg[<<file, n>>] ELSE Term(file[1], n, <<>>)
Write(ctx, file, n, term) == [ctx EXCEPT !.reg = (<<file, n>> :> term) @@ @]
Export(ctx, target, comp, term) == [ctx EXCEPT !.attribute = (<<target, comp>> :> term) @@ @]
WriteMemory(ctx, op, address, term) ==
    [ctx EXCEPT !.shared = Append(@, Apply(op, <<address, term>>))]
\* What a read of shared memory returns depends on the writes before it.
ReadMemory(ctx, op, address) == Term(op, Len(ctx.shared), <<address>>)

\* Sums with numbers, and the dword of a constant buffer or of memory at a
\* number of bytes from a base.
Plus(a, n) ==
    CASE a.op = "Number" -> Number(a.n + n)
      [] a.op = "Plus" -> Term("Plus", a.n + n, a.args)
      [] OTHER -> Term("Plus", n, <<a>>)
Dword(handle, address, n) ==
    LET at == Plus(address, n)
    IN  Term("Dword", at.n, <<handle, IF at.op = "Number" THEN Number(0) ELSE at.args[1]>>)
Extract(a, i) ==
    IF a.op = "ReadConstBufferU128" THEN Dword(a.args[1], a.args[2], 4 * i)
    ELSE Term("CompositeExtract", i, <<a>>)
Sum(a, b) == IF b.op = "Number" THEN Plus(a, b.n) ELSE Apply("IAdd", <<a, b>>)

-----------------------------------------------------------------------------
(* The IR.                                                                 *)

Operand(results, arg) == IF arg.kind = "inst" THEN results[arg.val] ELSE Number(arg.val)

Value(ctx, op, a) ==
    CASE op = "GetScalarRegister" -> Register(ctx, ScalarReg, a[1].n)
      [] op = "GetVectorRegister" -> Register(ctx, VectorReg, a[1].n)
      [] op = "CompositeExtract" -> Extract(a[1], a[2].n)
      [] op = "IAdd" -> Sum(a[1], a[2])
      [] op = "ReadConstBufferU32" -> Dword(a[1], a[2], 0)
      [] op \in {"ReadSharedU8", "ReadSharedS8", "ReadSharedU16", "ReadSharedS16",
                 "ReadSharedU32", "ReadSharedU64"} -> ReadMemory(ctx, op, a[1])
      [] OTHER -> Apply(op, a)

Effect(ctx, op, a) ==
    CASE op = "SetScalarRegister" -> Write(ctx, ScalarReg, a[1].n, a[2])
      [] op = "SetVectorRegister" -> Write(ctx, VectorReg, a[1].n, a[2])
      [] op = "SetAttribute" -> Export(ctx, a[1].n, a[3].n, a[2])
      [] op = "SetScc" -> [ctx EXCEPT !.scc = a[1]]
      [] op \in {"WriteSharedU8", "WriteSharedU16", "WriteSharedU32", "WriteSharedU64"} ->
            WriteMemory(ctx, op, a[1], a[2])
      [] OTHER -> ctx

ExecuteOne(e, inst) ==
    LET a == [i \in DOMAIN inst.args |-> Operand(e.results, inst.args[i])]
    IN  [ctx |-> Effect(e.ctx, inst.op[1], a),
         results |-> Append(e.results, Value(e.ctx, inst.op[1], a))]

\* The context after the instructions of code from position first on, which
\* name no result of an earlier one.
Execute(ctx, code, first) ==
    LET after[n \in first - 1 .. Len(code)] ==
            IF n < first THEN [ctx |-> ctx, results |-> [k \in 1 .. n |-> Number(0)]]
            ELSE ExecuteOne(after[n - 1], code[n])
    IN  after[Len(code)].ctx

-----------------------------------------------------------------------------
(* The instructions, as the names of the opcodes and of the handlers say.  *)

Source(ctx, operand) ==
    CASE operand.field = "ScalarGPR" -> Register(ctx, ScalarReg, operand.code)
      [] operand.field = "VectorGPR" -> Register(ctx, VectorReg, operand.code)
      [] operand.field = "ConstZero" -> Number(0)
      [] operand.field = "SignedConstIntPos" -> Number(operand.code - 128)
      [] operand.field = "SignedConstIntNeg" -> Number(192 - operand.code)
      [] operand.field = "LiteralConst" -> Number(operand.code)

\* Half of VCC can be a destination; no source reads it back.
Destination(ctx, operand, term) ==
    CASE operand.field = "ScalarGPR" -> Write(ctx, ScalarReg, operand.code, term)
      [] operand.field = "VectorGPR" -> Write(ctx, VectorReg, operand.code, term)
      [] operand.field = "VccHi" -> ctx

Quad(ctx, n) ==
    Apply("CompositeConstruct", [i \in 1 .. 4 |-> Register(ctx, ScalarReg, n + i - 1)])

\* The opcode a comparison asks for, by its condition and its sign.
CompareOp(cond, sign) ==
    LET signed == (IF sign = 1 THEN "S" ELSE "U")
        names == [EQ |-> "IEqual", LG |-> "INotEqual", GT |-> signed \o "GreaterThan",
                  GE |-> signed \o "GreaterThanEqual", LT |-> signed \o "LessThan",
                  LE |-> signed \o "LessThanEqual"]
    IN  names[cond]

\* n dwords of a buffer go to n registers; all is read before any is written.
BufferLoad(ctx, n, inst) ==
    LET offset == IF inst.smrd.imm THEN Number(inst.smrd.offset)
                  ELSE Register(ctx, ScalarReg, inst.smrd.offset)
        handle == Quad(ctx, inst.src[1].code * 2)
    IN  FoldLeft(LAMBDA c, k : Write(c, ScalarReg, inst.dst[1].code + k,
                                     Dword(handle, offset, 4 * k)),
                 ctx, [k \in 1 .. n |-> k - 1])

\* One float, or half i of a register, to each component that is enabled.
Exported(ctx, inst, i) ==
    IF inst.exp.compr
    THEN Apply("ConvertF32F16",
               <<Extract(Apply("UnpackFloat2x16",
                               <<Register(ctx, VectorReg, inst.src[(i \div 2) + 1].code)>>),
                         i % 2)>>)
    ELSE Register(ctx, VectorReg, inst.src[i + 1].code)
Enabled(inst, i) == (IF inst.exp.compr THEN 2 * (i \div 2) ELSE i) \in inst.exp.en

\* A word, or two at one address, of shared memory.  The offsets of a pair are
\* left alone: whether they count bytes or words no source of the repository says.
SharedLoad(ctx, inst) ==
    LET address == Register(ctx, VectorReg, inst.src[1].code)
        dst == inst.dst[1].code
        words == Apply("UnpackUint2x32", <<ReadMemory(ctx, "ReadSharedU64", address)>>)
    IN  IF inst.size = 64
        THEN Write(Write(ctx, VectorReg, dst, Extract(words, 0)),
                   VectorReg, dst + 1, Extract(words, 1))
        ELSE Write(ctx, VectorReg, dst, ReadMemory(ctx, "ReadSharedU32", address))
SharedStore(ctx, inst) ==
    LET address == Register(ctx, VectorReg, inst.src[1].code)
        word(i) == Register(ctx, VectorReg, inst.src[2].code + i)
    IN  IF inst.size = 64
        THEN WriteMemory(ctx, "WriteSharedU64", address,
                 Apply("PackUint2x32", <<Apply("CompositeConstruct", <<word(0), word(1)>>)>>))
        ELSE WriteMemory(ctx, "WriteSharedU32", address, word(0))

\* The components asked for go to consecutive registers.
ImageSize(ctx, inst) ==
    LET tsharp == Quad(ctx, inst.src[3].code)
        lod == Register(ctx, VectorReg, inst.src[1].code)
        size == Apply("ImageQueryDimensions", <<tsharp, lod, Number(0)>>)
        asked == SetToSortSeq(inst.dmask, <)
    IN  FoldLeft(LAMBDA c, k : Write(c, VectorReg, inst.src[2].code + k - 1,
                                     Term("CompositeExtract", asked[k], <<size>>)),
                 ctx, [k \in DOMAIN asked |-> k])

Step(ctx, inst) ==
    LET s(i) == Source(ctx, inst.src[i])
        To(term) == Destination(ctx, inst.dst[1], term)
    IN  CASE inst.opcode \in {"S_MOV_B32", "V_MOV_B32"} -> To(s(1))
          [] inst.opcode = "S_MUL_I32" -> To(Apply("IMul32", <<s(1), s(2)>>))
          [] inst.opcode = "V_MAC_F32" ->
                To(Apply("FPFma", <<s(1), s(2), Source(ctx, inst.dst[1])>>))
          [] inst.opcode = "S_BUFFER_LOAD_DWORDX16" -> BufferLoad(ctx, 16, inst)
          [] inst.opcode = "S_BUFFER_LOAD_DWORD" -> BufferLoad(ctx, inst.size, inst)
          [] inst.opcode = "EXP" ->
                FoldLeft(LAMBDA c, i : IF Enabled(inst, i)
                                       THEN Export(c, inst.exp.target, i, Exported(ctx, inst, i))
                                       ELSE c,
                         ctx, <<0, 1, 2, 3>>)
          [] inst.opcode = "S_CMP" ->
                [ctx EXCEPT !.scc = Apply(CompareOp(inst.cond, inst.sign), <<s(1), s(2)>>)]
          [] inst.opcode = "DS_READ" -> SharedLoad(ctx, inst)
          [] inst.opcode = "DS_WRITE" -> SharedStore(ctx, inst)
          [] inst.opcode = "IMAGE_GET_RESINFO" -> ImageSize(ctx, inst)
          [] OTHER -> ctx

\* The consecutive registers an instruction reads or writes as one operand: the
\* file, the first and how many.  The destinations of IMAGE_GET_RESINFO are one
\* more than it writes, the register dst_reg++ computes after the last.
\* S_LOAD_DWORD stops before its destinations: IAdd refuses its base of 64 bits
\* and its offset of 32.  Loads are made in fours.
Groups(inst) ==
    CASE inst.opcode \in {"S_BUFFER_LOAD_DWORD", "S_BUFFER_LOAD_DWORDX16"} ->
            {<<ScalarReg, 2 * inst.src[1].code, 4>>,
             <<ScalarReg, inst.dst[1].code, 4 * (inst.size \div 4)>>}
      [] inst.opcode = "S_LOAD_DWORD" -> {<<ScalarReg, 2 * inst.src[1].code, 2>>}
      [] inst.opcode = "DS_READ" /\ (inst.pair \/ inst.size = 64) ->
            {<<VectorReg, inst.dst[1].code, 2>>}
      [] inst.opcode = "DS_WRITE" /\ ~inst.pair /\ inst.size = 64 ->
            {<<VectorReg, inst.src[2].code, 2>>}
      [] inst.opcode = "IMAGE_GET_RESINFO" ->
            {<<ScalarReg, inst.src[3].code, 4>>,
             <<VectorReg, inst.src[2].code, Cardinality(inst.dmask) + 1>>}
      [] OTHER -> {}

\* A register alone is one the instruction names, whatever its number.
NeedsBeyondTheFile(inst) ==
    \E group \in Groups(inst) : group[3] > 1 /\ group[2] + group[3] > MaxReg(group[1])

\* A block that Translate makes begins with its first registers at zero.
FirstRegisters == 0 .. 15
Cleared ==
    [NoContext EXCEPT !.reg = [r \in {ScalarReg, VectorReg} \X FirstRegisters |-> Number(0)]]

Machine(start, instructions) == FoldLeft(Step, start, instructions)
=============================================================================
