-------------------------------- MODULE Decoder --------------------------------
(***************************************************************************)
(* decode.cpp and the loop of recompile_shader that calls it: each step    *)
(* decodes one instruction from the code slice and appends it to insList.  *)
(* Of the control words only the source modifiers of VOP3 and the bits of  *)
(* SMRD that decide about an operand are kept, and of the operand types    *)
(* only whether the format table has them.                                 *)
(***************************************************************************)
EXTENDS Assembler, TLC

CONSTANT
    Programs    \* the programs decoded: instructions, and the code words

ASSUME ProgramsAssumption ==
    \A p \in Programs : p.code \in Seq((0 .. Half - 1) \X (0 .. Half - 1))

VARIABLES
    program,    \* code: the words; instructions: what they were assembled from
    m_ptr,      \* the words the slice has moved over
    insList,    \* the instructions decoded
    status      \* "running", "done", "aborted", or "undefined": the decoder has
                \* read outside the code or outside a table

vars == <<program, m_ptr, insList, status>>

-----------------------------------------------------------------------------
\* bit::extract, of the halves of one or two words.
Extract(w, lst, fst) ==
    LET q == fst \div 16 + 1
        window == w[q] + (IF q < Len(w) THEN Half * (w[q + 1] % (Half \div 2)) ELSE 0)
    IN  (window \div 2 ^ (fst % 16)) % 2 ^ (lst - fst + 1)

\* GetInstructionEncoding: the longest mask first.
GetInstructionEncoding(token) ==
    LET matches == {e \in Encodings : Extract(token, 31, 32 - InstEncoding[e][1]) =
                                      InstEncoding[e][2]}
    IN  IF matches = {} THEN "ILLEGAL"
        ELSE CHOOSE e \in matches :
                \A f \in matches : InstEncoding[f][1] <= InstEncoding[e][1]

\* Mutant: S_SETREG_IMM32_B32 is forgotten.
HasAdditionalLiteralOfVop2(encoding, opcode) ==
    encoding = "VOP2" /\ opcode \in MadLiteralOpcodes

HasAdditionalLiteral(encoding, opcode) ==
    \/ encoding = "SOPK" /\ opcode = S_SETREG_IMM32_B32
    \/ encoding = "VOP2" /\ opcode \in MadLiteralOpcodes

IsVop3BEncoding(opcode) == opcode \in CarryOpcodes \cup DivScaleOpcodes \cup Mad64Opcodes

\* Mutant: the last VOP2 op of VOP3 is not mapped.
Vop3OpcodeExclusive(op) ==
    CASE op \in 0 .. 247   -> op - Vop3ToVopc + OpMapOffset.VOPC
      [] op \in 256 .. 304 -> op - Vop3ToVop2 + OpMapOffset.VOP2
      [] op \in 384 .. 452 -> op - Vop3ToVop1 + OpMapOffset.VOP1
      [] OTHER             -> op + OpMapOffset.VOP3

\* The opcode a VOP3 op stands for.
Vop3Opcode(op) ==
    CASE op \in 0 .. 247   -> op - Vop3ToVopc + OpMapOffset.VOPC
      [] op \in 256 .. 305 -> op - Vop3ToVop2 + OpMapOffset.VOP2
      [] op \in 384 .. 452 -> op - Vop3ToVop1 + OpMapOffset.VOP1
      [] OTHER             -> op + OpMapOffset.VOP3

\* From the one enumeration of opcodes back to the op of the encoding.
MapEncodingOp(encoding, opcode) ==
    CASE encoding = "VOP3" /\ opcode \in VopcOpcodes ->
            opcode - OpMapOffset.VOPC + Vop3ToVopc
      [] encoding = "VOP3" /\ opcode \in Vop2Opcodes ->
            opcode - OpMapOffset.VOP2 + Vop3ToVop2
      [] encoding = "VOP3" /\ opcode \in Vop1Opcodes ->
            opcode - OpMapOffset.VOP1 + Vop3ToVop1
      [] OTHER -> opcode - OpMapOffset[encoding]

-----------------------------------------------------------------------------
(* Operands                                                                *)

Undefined == [field |-> "Undefined", code |-> -1]
Operand(field, code) == [field |-> field, code |-> code]

\* getOperandField; the registers and constants without a range are "Special".
GetOperandField(code) ==
    CASE code \in 0 .. 103   -> "ScalarGPR"
      [] code \in 129 .. 192 -> "SignedConstIntPos"
      [] code \in 193 .. 208 -> "SignedConstIntNeg"
      [] code \in 256 .. 511 -> "VectorGPR"
      [] code = 255          -> "LiteralConst"
      [] OTHER               -> "Special"

\* Mutant: a vector register keeps its operand code.
AnyOperandUnbased(code) == Operand(GetOperandField(code), code)

\* An operand of any kind: vector registers count from 0.
AnyOperand(code) ==
    Operand(GetOperandField(code), IF code \in 256 .. 511 THEN code - 256 ELSE code)
Vector(code) == Operand("VectorGPR", code)
Scalar(code) == Operand("ScalarGPR", code)
VccLo == Operand("Special", 106)

Op(encoding, w) ==
    CASE encoding = "SOP1" -> Extract(w, 15, 8)
      [] encoding \in {"SOPP", "SOPC"} -> Extract(w, 22, 16)
      [] encoding = "SOPK" -> Extract(w, 27, 23)
      [] encoding = "SOP2" -> Extract(w, 29, 23)
      [] encoding = "VOP1" -> Extract(w, 16, 9)
      [] encoding = "VOPC" -> Extract(w, 24, 17)
      [] encoding = "VOP2" -> Extract(w, 30, 25)
      [] encoding = "SMRD" -> Extract(w, 26, 22)
      [] encoding = "VINTRP" -> Extract(w, 17, 16)
      [] encoding = "VOP3" -> Extract(w, 25, 17)
      [] encoding \in {"MUBUF", "MIMG"} -> Extract(w, 24, 18)
      [] encoding = "MTBUF" -> Extract(w, 18, 16)
      [] encoding = "DS" -> Extract(w, 25, 18)
      [] encoding = "EXP" -> 0

DecodeOpcode(encoding, w) ==
    IF encoding = "VOP3" THEN Vop3Opcode(Op(encoding, w))
    ELSE Op(encoding, w) + OpMapOffset[encoding]

Bytes(w) == <<Extract(w, 39, 32), Extract(w, 47, 40), Extract(w, 55, 48), Extract(w, 63, 56)>>

Sources(encoding, w, opcode) ==
    CASE encoding \in {"SOPK", "SOPP"} -> <<>>
      [] encoding = "SOP1" -> <<AnyOperand(Extract(w, 7, 0))>>
      [] encoding \in {"SOP2", "SOPC"} ->
            <<AnyOperand(Extract(w, 7, 0)), AnyOperand(Extract(w, 15, 8))>>
      [] encoding = "VOP1" -> <<AnyOperand(Extract(w, 8, 0))>>
      [] encoding \in {"VOP2", "VOPC"} ->
            <<AnyOperand(Extract(w, 8, 0)),
              IF encoding = "VOP2" /\ opcode \in LaneOpcodes
              THEN AnyOperand(Extract(w, 16, 9)) ELSE Vector(Extract(w, 16, 9))>>
      [] encoding = "SMRD" ->
            IF Extract(w, 8, 8) = 0
            THEN <<Scalar(Extract(w, 14, 9)), AnyOperand(Extract(w, 7, 0))>>
            ELSE <<Scalar(Extract(w, 14, 9))>>
      [] encoding = "VINTRP" -> <<Vector(Extract(w, 7, 0))>>
      [] encoding = "VOP3" ->
            <<AnyOperand(Extract(w, 40, 32)), AnyOperand(Extract(w, 49, 41)),
              AnyOperand(Extract(w, 58, 50))>>
      [] encoding \in {"MUBUF", "MTBUF"} ->
            <<Vector(Bytes(w)[1]), Vector(Bytes(w)[2]), Scalar(Extract(w, 52, 48)),
              AnyOperand(Bytes(w)[4])>>
      [] encoding = "MIMG" ->
            <<Vector(Bytes(w)[1]), Undefined, Scalar(Extract(w, 52, 48)),
              Scalar(Extract(w, 57, 53))>>
      [] encoding = "DS" -> <<Vector(Bytes(w)[1]), Vector(Bytes(w)[2]), Vector(Bytes(w)[3])>>
      [] encoding = "EXP" -> [k \in 1 .. 4 |-> Vector(Bytes(w)[k])]

\* The first destination, and the second where there is one.
Dst0(encoding, w) ==
    CASE encoding \in {"SOP1", "SOPK", "SOP2"} -> AnyOperand(Extract(w, 22, 16))
      [] encoding \in {"VOP1", "VOP2"} -> Vector(Extract(w, 24, 17))
      [] encoding = "SMRD" -> Scalar(Extract(w, 21, 15))
      [] encoding = "VINTRP" -> Vector(Extract(w, 25, 18))
      [] encoding = "VOP3" -> Vector(Extract(w, 7, 0))
      [] encoding = "MIMG" -> Vector(Bytes(w)[2])
      [] encoding = "DS" -> Vector(Bytes(w)[4])
      [] OTHER -> Undefined

\* V_READFIRSTLANE_B32 and the lane instructions write a scalar register, VOPC
\* the condition mask, VOP3B a mask they name.
Dst1(encoding, w, opcode) ==
    CASE encoding = "VOP1" /\ Op(encoding, w) = 2 -> AnyOperand(Extract(w, 24, 17))
      [] encoding = "VOPC" -> VccLo
      [] encoding = "VOP2" /\ opcode \in LaneOpcodes -> Scalar(Extract(w, 24, 17))
      [] encoding = "VOP2" /\ IsVop3BEncoding(opcode) -> VccLo
      [] encoding = "VOP3" /\ IsVop3BEncoding(opcode) -> Scalar(Extract(w, 14, 8))
      [] encoding = "VOP3" /\ opcode \in VopcOpcodes -> AnyOperand(Extract(w, 7, 0))
      [] encoding = "VOP3" /\ opcode \in LaneOpcodes -> Scalar(Extract(w, 7, 0))
      [] OTHER -> Undefined

\* VOP3 counts two destinations from V_ADD_I32 to V_DIV_SCALE_F64.
DstCount(encoding, w) ==
    CASE encoding = "VOP3" -> IF Op(encoding, w) \in 293 .. 366 THEN 2 ELSE 1
      [] encoding \in {"SOPP", "SOPC", "VOPC", "MUBUF", "MTBUF", "MIMG", "EXP"} -> 0
      [] OTHER -> 1

\* The bits of control.vop3.abs.
Abs(encoding, w) == IF encoding = "VOP3" THEN Extract(w, 10, 8) ELSE 0

-----------------------------------------------------------------------------
(* Instructions                                                            *)

\* Instruction w of an encoding, before a literal is read.
DecodeInstruction(encoding, w) ==
    LET opcode == DecodeOpcode(encoding, w)
        src == Sources(encoding, w, opcode)
    IN  [encoding |-> encoding,
         opcode |-> opcode,
         src |-> [k \in 1 .. 4 |-> IF k \in DOMAIN src THEN src[k] ELSE Undefined],
         abs |-> Abs(encoding, w),
         dst |-> <<Dst0(encoding, w), Dst1(encoding, w, opcode)>>,
         dst_count |-> DstCount(encoding, w),
         src_count |-> SrcCount(encoding, MapEncodingOp(encoding, opcode)),
         length |-> EncodingLength(encoding)]

LiteralOperands(inst) == {k \in DOMAIN inst.src : inst.src[k].field = "LiteralConst"}

\* decodeLiteralConstant: the operand the literal is, 0 if there is none.
LiteralOperand(inst) ==
    CASE inst.encoding \in Encodings64 -> 0
      [] HasAdditionalLiteral(inst.encoding, inst.opcode) -> inst.src_count + 1
      [] OTHER -> IF LiteralOperands(inst) = {} THEN 0 ELSE Min(LiteralOperands(inst))

\* Mutant: the length stays that of the encoding.
ReadLiteralUncounted(inst, word) ==
    [inst EXCEPT !.src[LiteralOperand(inst)] = Operand("LiteralConst", word[1] + Half * word[2]),
                 !.src_count = IF HasAdditionalLiteral(inst.encoding, inst.opcode)
                               THEN @ + 1 ELSE @]

ReadLiteral(inst, word) ==
    [inst EXCEPT !.src[LiteralOperand(inst)] = Operand("LiteralConst", word[1] + Half * word[2]),
                 !.src_count = IF HasAdditionalLiteral(inst.encoding, inst.opcode)
                               THEN @ + 1 ELSE @,
                 !.length = @ + 4]

-----------------------------------------------------------------------------
Init ==
    /\ program \in Programs
    /\ m_ptr = 0
    /\ insList = <<>>
    /\ status = "running"

Left == Len(program.code) - m_ptr
Token == program.code[m_ptr + 1]
Encoding == GetInstructionEncoding(Token)

\* The token at the end of the slice is what the next instruction begins with.
NotAtEnd == status = "running" /\ Left > 0

Stop(how) ==
    /\ status' = how
    /\ UNCHANGED <<program, m_ptr, insList>>

\* "illegal encoding": the assertion aborts.
IllegalEncoding ==
    /\ NotAtEnd
    /\ Encoding = "ILLEGAL"
    /\ Stop("aborted")

\* readu64 of a last word goes past m_end, which atEnd then never meets.
TruncatedInstruction ==
    /\ NotAtEnd
    /\ Encoding # "ILLEGAL"
    /\ EncodingLength(Encoding) > 4 * Left
    /\ Stop("undefined")

\* The instruction at m_ptr, before its literal.
Inst == DecodeInstruction(Encoding, IF Encoding \in Encodings64
                                    THEN Token \o program.code[m_ptr + 2] ELSE Token)
EncodingOp == MapEncodingOp(Encoding, Inst.opcode)

WholeInstruction ==
    /\ NotAtEnd
    /\ Encoding # "ILLEGAL"
    /\ EncodingLength(Encoding) <= 4 * Left

\* InstructionFormat reads outside the table of the encoding.
ReservedOpcode ==
    /\ WholeInstruction
    /\ EncodingOp >= InstructionFormat[Encoding].size
    /\ Stop("undefined")

\* "Instruction format table not complete, please fix it manually."
IncompleteFormat ==
    /\ WholeInstruction
    /\ EncodingOp < InstructionFormat[Encoding].size
    /\ EncodingOp \in InstructionFormat[Encoding].incomplete
    /\ Stop("aborted")

KnownInstruction ==
    /\ WholeInstruction
    /\ EncodingOp < InstructionFormat[Encoding].size
    /\ EncodingOp \notin InstructionFormat[Encoding].incomplete

Decode ==
    /\ KnownInstruction
    /\ LiteralOperand(Inst) = 0
    /\ insList' = Append(insList, Inst)
    /\ m_ptr' = m_ptr + EncodingLength(Encoding) \div 4
    /\ UNCHANGED <<program, status>>

DecodeWithLiteral ==
    /\ KnownInstruction
    /\ LiteralOperand(Inst) # 0
    /\ Left > 1
    /\ insList' = Append(insList, ReadLiteral(Inst, program.code[m_ptr + 2]))
    /\ m_ptr' = m_ptr + 2
    /\ UNCHANGED <<program, status>>

TruncatedLiteral ==
    /\ KnownInstruction
    /\ LiteralOperand(Inst) # 0
    /\ Left = 1
    /\ Stop("undefined")

AtEnd ==
    /\ status = "running"
    /\ Left = 0
    /\ Stop("done")

Terminated == status # "running" /\ UNCHANGED vars

Next ==
    \/ IllegalEncoding \/ TruncatedInstruction \/ ReservedOpcode \/ IncompleteFormat
    \/ Decode \/ DecodeWithLiteral \/ TruncatedLiteral \/ AtEnd \/ Terminated

Spec == Init /\ [][Next]_vars /\ WF_vars(Next)

-----------------------------------------------------------------------------
(* Properties                                                              *)

\* What the assembler was given, as far as it has been decoded.
DecodedPairs == {n \in DOMAIN insList : n <= Len(program.instructions)}

\* Opcodes the format tables know.
Known(i) == i.op \in (0 .. InstructionFormat[i.encoding].size - 1)
                        \ InstructionFormat[i.encoding].incomplete
Complete ==
    /\ Len(program.code) = StartOf(program.instructions, Len(program.instructions) + 1)
    /\ \A n \in DOMAIN program.instructions : Known(program.instructions[n])

\* Between two calls of decodeInstruction the slice is where an instruction
\* begins, whatever literals the ones before it had; so complete code whose
\* opcodes are known is decoded to its end and nothing outside it is read.
BoundariesAreRecovered ==
    Complete =>
        /\ status \in {"running", "done"}
        /\ m_ptr = StartOf(program.instructions, Len(insList) + 1)

\* The lengths of the instructions of a list, added up.
TotalLength(list) ==
    LET sum[n \in 0 .. Len(list)] == IF n = 0 THEN 0 ELSE sum[n - 1] + list[n].length
    IN  sum[Len(list)]

\* The lengths of the instructions add up to what the slice has moved over, which
\* is never more than the code: the CFG constructor (EmitLabels) computes every
\* address as such a sum.
LengthsAreAddresses ==
    /\ TotalLength(insList) = 4 * m_ptr
    /\ m_ptr <= Len(program.code)

\* The operands of instruction i as the rest of the program is to see them:
\* vector registers from 0, the literal in the place of its marker.
ExpectedSource(i, k) ==
    IF k \in VectorSources(i) THEN Vector(i.src[k] % 256)
    ELSE LET literal == i.encoding \notin Encodings64 /\ i.src[k] = LiteralMarker
         IN  Operand(GetOperandField(i.src[k]), IF literal THEN i.literal[1] ELSE i.src[k])

\* A decoded instruction is the one that was assembled: its encoding and op,
\* through the one enumeration of opcodes all encodings share; every source, a
\* literal of its own after the others (a second operand that names the same
\* literal is not looked for: line 402 stops at the first); the destination, and the scalar register
\* the instruction writes where it has one.
InstructionsAreRecovered ==
    \A n \in DecodedPairs :
        LET i == program.instructions[n]
            inst == insList[n]
        IN  /\ inst.encoding = i.encoding
            /\ MapEncodingOp(inst.encoding, inst.opcode) = i.op
            /\ \A k \in DOMAIN i.src \ (IgnoredSources(i) \cup SharedLiterals(i)) :
                    inst.src[SourceSlot(i, k)] = ExpectedSource(i, k)
            /\ TakesLiteral(i) =>
                    inst.src[Len(i.src) + 1] = Operand("LiteralConst", i.literal[1])
            /\ i.encoding \in DOMAIN DstAt => i.dst \in {inst.dst[1].code, inst.dst[2].code}
            /\ WritesSdst(i) => inst.dst[2] = Scalar(i.sdst)
            /\ inst.abs # 0 => i.encoding = "VOP3"

\* Two instructions have the same opcode exactly when they are the same operation,
\* in whatever encoding: Translate dispatches on the opcode alone, for the short
\* form of an instruction and for its VOP3 form.
OneOpcodePerOperation ==
    \A m, n \in DecodedPairs :
        Operation(program.instructions[m]) = Operation(program.instructions[n]) <=>
        insList[m].opcode = insList[n].opcode

\* The sdst of VOP3B, bits 14 to 8, is no modifier of the sources: "For VOP3B"
\* says the line that extracts it.
ModifiersAreEncoded ==
    \A n \in DecodedPairs : insList[n].abs = program.instructions[n].abs
=============================================================================
