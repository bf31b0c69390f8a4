------------------------------- MODULE Translator -------------------------------
(***************************************************************************)
(* Translate: the instructions of a block, one after another, each turned  *)
(* into calls of the emitter by its handler.  An instruction is decoded:   *)
(* its operands are [field, type, code] and its control bits a record.     *)
(* A register is its number in the file; arithmetic on registers throws    *)
(* beyond the file, naming one does not.                                   *)
(***************************************************************************)
EXTENDS IREmitter

\* The list of vector registers leaves out V2, so Max is 255.
NumScalarRegs == 104
NumVectorRegs == 255
MaxReg(file) == IF file = ScalarReg THEN NumScalarRegs ELSE NumVectorRegs

UNREACHABLE == <<Call("r", "UNREACHABLE", <<>>, <<>>)>>
LogicError(out) == Call(out, "LogicError", <<>>, <<>>)

\* Calls with a register; Plus is operator+, which checks its result.
GetterOf(file) == IF file = ScalarReg THEN "GetScalarReg" ELSE "GetVectorReg"
SetterOf(file) == IF file = ScalarReg THEN "SetScalarReg" ELSE "SetVectorReg"
GetReg(out, file, code) == Call(out, GetterOf(file), <<U32>>, <<Imm(file, code)>>)
SetReg(file, code, value) == Call("_", SetterOf(file), <<>>, <<Imm(file, code), value>>)

\* Mutant: the check lets the register Max through.
InFileOrMax(file, code, n) == code + n <= MaxReg(file)
InFile(file, code, n) == code + n < MaxReg(file)
GetRegPlus(out, file, code, n) ==
    IF InFile(file, code, n) THEN GetReg(out, file, code + n) ELSE LogicError(out)
SetRegPlus(file, code, n, value) ==
    IF InFile(file, code, n) THEN SetReg(file, code + n, value) ELSE LogicError("_")

Element32(out, vector, i) ==
    << Call(out, "CompositeExtract", <<i>>, <<Var(vector)>>),
       Call(out, "TypedValue", <<U32>>, <<Var(out)>>) >>

\* Several scripts, one after another.
Join(scripts) == FoldLeft(LAMBDA all, s : all \o s, <<>>, scripts)

-----------------------------------------------------------------------------
SignedConstIntPosMin == 129
SignedConstIntNegMin == 193

\* The type of a register operand is Float32 or not; a constant is U32 always.
GetSrc(out, operand) ==
    LET t == IF operand.type = "Float32" THEN F32 ELSE U32
        code == operand.code
    IN  CASE operand.field = "ScalarGPR" ->
                <<Call(out, "GetScalarReg", <<t>>, <<Imm(ScalarReg, code)>>)>>
          [] operand.field = "VectorGPR" ->
                <<Call(out, "GetVectorReg", <<t>>, <<Imm(VectorReg, code)>>)>>
          [] operand.field = "ConstZero" -> <<Constant(out, Imm32(0))>>
          [] operand.field = "SignedConstIntPos" ->
                <<Constant(out, Imm32(code - SignedConstIntPosMin + 1))>>
          [] operand.field = "SignedConstIntNeg" ->
                <<Constant(out, Imm32(-code + SignedConstIntNegMin - 1))>>
          [] operand.field = "LiteralConst" -> <<Constant(out, Imm32(code))>>
          [] OTHER -> UNREACHABLE

SetDst(operand, value) ==
    CASE operand.field = "ScalarGPR" -> <<SetReg(ScalarReg, operand.code, value)>>
      [] operand.field = "VectorGPR" -> <<SetReg(VectorReg, operand.code, value)>>
      [] operand.field = "VccHi" -> <<>>
      [] OTHER -> UNREACHABLE

\* S_MOV and V_MOV.
S_MOV(inst) == GetSrc("v", inst.src[1]) \o SetDst(inst.dst[1], Var("v"))
V_MOV(inst) == S_MOV(inst)

S_MUL_I32(inst) ==
    GetSrc("a", inst.src[1]) \o GetSrc("b", inst.src[2])
    \o <<Call("v", "IMul", <<>>, <<Var("a"), Var("b")>>)>>
    \o SetDst(inst.dst[1], Var("v"))

\* The comparison is called with the sign where it has one.
Comparison(cond, is_signed) ==
    CASE cond = "EQ" -> <<"IEqual", <<>>>>
      [] cond = "LG" -> <<"INotEqual", <<>>>>
      [] cond = "GT" -> <<"IGreaterThan", <<is_signed>>>>
      [] cond = "GE" -> <<"IGreaterThanEqual", <<is_signed>>>>
      [] cond = "LT" -> <<"ILessThan", <<is_signed>>>>
      [] cond = "LE" -> <<"ILessThanEqual", <<is_signed>>>>

S_CMP(cond, is_signed, inst) ==
    LET c == Comparison(cond, is_signed)
    IN  GetSrc("a", inst.src[1]) \o GetSrc("b", inst.src[2])
        \o <<Call("v", c[1], c[2], <<Var("a"), Var("b")>>), Call("_", "SetScc", <<>>, <<Var("v")>>)>>

V_SAD(inst) ==
    GetSrc("a", inst.src[1]) \o GetSrc("b", inst.src[2])
    \o << Call("d", "ISub", <<>>, <<Var("a"), Var("b")>>),
          Call("d", "IAbs", <<>>, <<Var("d")>>) >>
    \o GetSrc("c", inst.src[3])
    \o <<Call("v", "IAdd", <<>>, <<Var("d"), Var("c")>>)>>
    \o SetDst(inst.dst[1], Var("v"))

\* Mutant: the second source is read twice.
V_MAC_F32Twice(inst) ==
    GetSrc("a", inst.src[1]) \o GetSrc("b", inst.src[2]) \o GetSrc("c", inst.src[2])
    \o <<Call("v", "FPFma", <<>>, <<Var("a"), Var("b"), Var("c")>>)>>
    \o SetDst(inst.dst[1], Var("v"))
V_MAC_F32(inst) ==
    GetSrc("a", inst.src[1]) \o GetSrc("b", inst.src[2]) \o GetSrc("c", inst.dst[1])
    \o <<Call("v", "FPFma", <<>>, <<Var("a"), Var("b"), Var("c")>>)>>
    \o SetDst(inst.dst[1], Var("v"))

-----------------------------------------------------------------------------
\* One read of n dwords, from memory or, with a handle, from a buffer.
DoLoad(n, handle, offset) ==
    IF handle.kind = "imm" THEN Call("value", "ReadConst", <<n>>, <<offset>>)
    ELSE Call("value", "ReadConstBuffer", <<n>>, <<handle, offset>>)

\* The i-th read of four dwords, 16 * i bytes further, and its four registers.
LoadFour(i, handle, dst_reg, address) ==
    (IF i = 0 THEN <<Call("new", "TypedValue", <<U32, U64>>, <<address>>)>>
     ELSE <<Call("new", "IAdd", <<>>, <<address, Imm32(16 * i)>>)>>)
    \o <<DoLoad(4, handle, Var("new"))>>
    \o Join([j \in 1 .. 4 |->
             Element32("v", "value", j - 1)
             \o <<SetRegPlus(ScalarReg, dst_reg, 4 * i + j - 1, Var("v"))>>])

Load(num_dwords, handle, dst_reg, address) ==
    IF num_dwords = 1
    THEN << DoLoad(1, handle, address), Call("value", "TypedValue", <<U32>>, <<Var("value")>>),
            SetReg(ScalarReg, dst_reg, Var("value")) >>
    ELSE Join([i \in 1 .. num_dwords \div 4 |-> LoadFour(i - 1, handle, dst_reg, address)])

\* The offset of a scalar load; the scale is that of an immediate.
SmrdOffset(smrd, scale) ==
    IF smrd.imm THEN Constant("offset", Imm32(smrd.offset * scale))
    ELSE GetReg("offset", ScalarReg, smrd.offset)

S_LOAD_DWORD(num_dwords, inst) ==
    LET sbase == inst.src[1].code * 2
    IN  << SmrdOffset(inst.smrd, 4), GetReg("lo", ScalarReg, sbase),
           GetRegPlus("hi", ScalarReg, sbase, 1),
           Call("base", "CompositeConstruct", <<2>>, <<Var("lo"), Var("hi")>>),
           Call("base", "PackUint2x32", <<>>, <<Var("base")>>),
           Call("address", "IAdd", <<>>, <<Var("base"), Var("offset")>>) >>
        \o Load(num_dwords, NoValue, inst.dst[1].code, Var("address"))

S_BUFFER_LOAD_DWORD(num_dwords, inst) ==
    LET sbase == inst.src[1].code * 2
    IN  << SmrdOffset(inst.smrd, 1), GetReg("e0", ScalarReg, sbase),
           GetRegPlus("e1", ScalarReg, sbase, 1), GetRegPlus("e2", ScalarReg, sbase, 2),
           GetRegPlus("e3", ScalarReg, sbase, 3),
           Call("vsharp", "CompositeConstruct", <<4>>,
                <<Var("e0"), Var("e1"), Var("e2"), Var("e3")>>) >>
        \o Load(num_dwords, Var("vsharp"), inst.dst[1].code, Var("offset"))

-----------------------------------------------------------------------------
\* One word of a pair is at the address and an offset in bytes.
PairAddress(offset) ==
    Call("addr_i", "IAdd", <<>>, <<Var("addr"), Imm32(offset)>>)

DS_READ(bit_size, is_signed, is_pair, inst) ==
    LET dst_reg == inst.dst[1].code
        Read(size, address) == Call("v", "ReadShared", <<size, is_signed>>, <<Var(address)>>)
    IN  <<GetReg("addr", VectorReg, inst.src[1].code)>>
        \o CASE is_pair ->
                  << PairAddress(inst.ds.offset0), Read(32, "addr_i"),
                     SetReg(VectorReg, dst_reg, Var("v")),
                     PairAddress(inst.ds.offset1), Read(32, "addr_i"),
                     SetRegPlus(VectorReg, dst_reg, 1, Var("v")) >>
             [] ~is_pair /\ bit_size = 64 ->
                  <<Read(64, "addr"), Call("data", "UnpackUint2x32", <<>>, <<Var("v")>>)>>
                  \o Element32("w", "data", 0) \o <<SetReg(VectorReg, dst_reg, Var("w"))>>
                  \o Element32("w", "data", 1) \o <<SetRegPlus(VectorReg, dst_reg, 1, Var("w"))>>
             [] OTHER -> <<Read(bit_size, "addr"), SetReg(VectorReg, dst_reg, Var("v"))>>

DS_WRITE(bit_size, is_signed, is_pair, inst) ==
    LET data0 == inst.src[2].code
        Write(size, address) == Call("_", "WriteShared", <<size>>, <<Var(address), Var("v")>>)
    IN  <<GetReg("addr", VectorReg, inst.src[1].code)>>
        \o CASE is_pair ->
                  << PairAddress(inst.ds.offset0), GetReg("v", VectorReg, data0),
                     Write(32, "addr_i"),
                     PairAddress(inst.ds.offset1), GetReg("v", VectorReg, inst.src[3].code),
                     Write(32, "addr_i") >>
             [] ~is_pair /\ bit_size = 64 ->
                  << GetReg("lo", VectorReg, data0), GetRegPlus("hi", VectorReg, data0, 1),
                     Call("v", "CompositeConstruct", <<2>>, <<Var("lo"), Var("hi")>>),
                     Call("v", "PackUint2x32", <<>>, <<Var("v")>>), Write(64, "addr") >>
             [] OTHER -> <<GetReg("v", VectorReg, data0), Write(bit_size, "addr")>>

\* The components dmask asks for go to consecutive registers; dst_reg++ throws
\* when there is no register after the one it returns.
IMAGE_GET_RESINFO(inst) ==
    LET dst_reg == inst.src[2].code
        tsharp == inst.src[3].code
        Before(i) == Cardinality(inst.dmask \cap 0 .. i - 1)
        Component(i) ==
            IF i \notin inst.dmask THEN <<>>
            ELSE Element32("v", "size", i)
                 \o IF InFile(VectorReg, dst_reg + Before(i), 1)
                    THEN <<SetReg(VectorReg, dst_reg + Before(i), Var("v"))>>
                    ELSE <<LogicError("_")>>
    IN  << GetReg("lod", VectorReg, inst.src[1].code), GetReg("e0", ScalarReg, tsharp),
           GetRegPlus("e1", ScalarReg, tsharp, 1), GetRegPlus("e2", ScalarReg, tsharp, 2),
           GetRegPlus("e3", ScalarReg, tsharp, 3),
           Call("tsharp", "CompositeConstruct", <<4>>,
                <<Var("e0"), Var("e1"), Var("e2"), Var("e3")>>),
           Call("size", "ImageQueryDimension", <<>>, <<Var("tsharp"), Var("lod"), Imm(U1, 0)>>) >>
        \o Join([i \in 1 .. 4 |-> Component(i - 1)])

-----------------------------------------------------------------------------
\* Two halves of a register, each converted, to two components of the target.
Unpack(inst, idx) ==
    LET Half(out, j) == << Call(out, "CompositeExtract", <<j>>, <<Var("value")>>),
                           Call(out, "TypedValue", <<F16>>, <<Var(out)>>),
                           Call(out, "FPConvert", <<32>>, <<Var(out)>>) >>
        Set(half, j) == Call("_", "SetAttribute", <<>>,
                             <<Imm(Attribute, inst.exp.target), Var(half), Imm32(idx * 2 + j)>>)
    IN  << GetReg("packed", VectorReg, inst.src[idx + 1].code),
           Call("value", "UnpackFloat2x16", <<>>, <<Var("packed")>>) >>
        \o Half("r", 0) \o Half("g", 1) \o <<Set("r", 0), Set("g", 1)>>

\* inst.exp.en is the set of the bits that are set.
EXP(inst) ==
    LET en == inst.exp.en
        Component(i) ==
            << Call("comp", "GetVectorReg", <<F32>>, <<Imm(VectorReg, inst.src[i + 1].code)>>),
               Call("_", "SetAttribute", <<>>,
                    <<Imm(Attribute, inst.exp.target), Var("comp"), Imm32(i)>>) >>
    IN  IF inst.exp.compr
        THEN (IF 0 \in en THEN Unpack(inst, 0) ELSE <<>>)
             \o (IF 2 \in en THEN Unpack(inst, 1) ELSE <<>>)
        ELSE Join([i \in 1 .. 4 |-> IF i - 1 \in en THEN Component(i - 1) ELSE <<>>])

-----------------------------------------------------------------------------
\* The switch of Translate.
HandlerOf(inst) ==
    CASE inst.opcode = "S_MOV_B32" -> S_MOV(inst)
      [] inst.opcode = "S_MUL_I32" -> S_MUL_I32(inst)
      [] inst.opcode = "V_MOV_B32" -> V_MOV(inst)
      [] inst.opcode = "V_MAC_F32" -> V_MAC_F32(inst)
      [] inst.opcode \in {"S_SWAPPC_B64", "S_WAITCNT", "S_ENDPGM"} -> <<>>
      [] inst.opcode = "S_BUFFER_LOAD_DWORDX16" -> S_BUFFER_LOAD_DWORD(16, inst)
      [] inst.opcode = "EXP" -> EXP(inst)
      [] OTHER -> UNREACHABLE

\* The handlers of the Translator that Translate does not call.
OtherHandlerOf(inst) ==
    CASE inst.opcode = "S_CMP" -> S_CMP(inst.cond, inst.sign, inst)
      [] inst.opcode = "V_SAD" -> V_SAD(inst)
      [] inst.opcode = "S_LOAD_DWORD" -> S_LOAD_DWORD(inst.size, inst)
      [] inst.opcode = "S_BUFFER_LOAD_DWORD" -> S_BUFFER_LOAD_DWORD(inst.size, inst)
      [] inst.opcode = "DS_READ" -> DS_READ(inst.size, inst.sign, inst.pair, inst)
      [] inst.opcode = "DS_WRITE" -> DS_WRITE(inst.size, inst.sign, inst.pair, inst)
      [] inst.opcode = "IMAGE_GET_RESINFO" -> IMAGE_GET_RESINFO(inst)

\* What Translate emits before the first instruction.
Head16 ==
    Join([i \in 1 .. 16 |-> << SetReg(ScalarReg, i - 1, Imm32(0)),
                               SetReg(VectorReg, i - 1, Imm32(0)) >>])
=============================================================================
