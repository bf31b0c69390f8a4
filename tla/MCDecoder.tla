------------------------------- MODULE MCDecoder -------------------------------
(***************************************************************************)
(* The programs the decoder is checked on: every op of every encoding with *)
(* three patterns of operands, sequences of instructions whose lengths     *)
(* differ, the short and the VOP3 form of an operation together, code that *)
(* is cut short, and every 9-bit prefix.                                   *)
(***************************************************************************)
EXTENDS Decoder, SequencesExt

Literal == 1234567890

\* An instruction whose sources and destination follow from a pattern.
Instruction(encoding, op, src, dst, more) ==
    LET i == [encoding |-> encoding, op |-> op, src |-> src, dst |-> dst,
              sdst |-> more.sdst, abs |-> more.abs, imm |-> more.imm, literal |-> <<>>]
        written == [i EXCEPT !.sdst = IF WritesSdst(i) THEN @ ELSE 0,
                             !.abs = IF encoding # "VOP3" \/ WritesSdst(i) THEN 0 ELSE @]
    IN  [written EXCEPT !.literal = IF HasLiteral(i) THEN <<Literal>> ELSE <<>>]

Plain == [sdst |-> 0, abs |-> 0, imm |-> 1]
Wide == [sdst |-> 103, abs |-> 7, imm |-> 0]

\* The bits source k of an encoding has.
SourceBits(encoding, k) ==
    CASE encoding \in {"VOP3", "VOP1"} -> 9
      [] encoding \in {"VOP2", "VOPC"} -> IF k = 1 THEN 9 ELSE 8
      [] encoding = "SMRD" -> IF k = 1 THEN 6 ELSE 8
      [] encoding \in {"MUBUF", "MTBUF"} -> IF k = 3 THEN 5 ELSE 8
      [] encoding = "MIMG" -> IF k = 1 THEN 8 ELSE 5
      [] OTHER -> 8
DstBits(encoding) ==
    IF encoding \in {"SOP1", "SOP2", "SOPK", "SMRD"} THEN 7 ELSE 8

\* Distinct small codes; codes with the high bits set, a VGPR where one can be;
\* and the literal wherever there can be one.
SmallSource(encoding, k) == 2 * k + 1
LargeSource(encoding, k) == 2 ^ SourceBits(encoding, k) - 1 - k
LiteralSource(encoding, k) ==
    IF SourceBits(encoding, k) >= 8 THEN LiteralMarker ELSE SmallSource(encoding, k)

Sourced(encoding, Code(_, _)) ==
    [k \in DOMAIN SrcAt[encoding] |-> Code(encoding, k)]

InstructionsOf(encoding, op) ==
    {Instruction(encoding, op, Sourced(encoding, SmallSource), 9, Plain),
     Instruction(encoding, op, Sourced(encoding, LargeSource), 2 ^ DstBits(encoding) - 2, Wide),
     Instruction(encoding, op, Sourced(encoding, LiteralSource), 37, Wide)}

\* Ops of an encoding: those of its table, and the first reserved one if any.
OpBits ==
    [SOP2 |-> 6, SOPK |-> 5, SOP1 |-> 8, SOPC |-> 7, SOPP |-> 7, SMRD |-> 5, VOP2 |-> 6,
     VOP1 |-> 8, VOPC |-> 8, VINTRP |-> 2, VOP3 |-> 9, MUBUF |-> 7, MTBUF |-> 3, MIMG |-> 7,
     DS |-> 8, EXP |-> 0]
Ops(encoding) ==
    {op \in 0 .. InstructionFormat[encoding].size : op < 2 ^ OpBits[encoding]}

Singles == UNION {UNION {InstructionsOf(e, op) : op \in Ops(e)} : e \in Encodings}

EndProgram == Instruction("SOPP", 1, <<>>, 0, Plain)
Assembled(instructions) == [code |-> Assemble(instructions), instructions |-> instructions]

\* Instructions of every length, for sequences of three.
Mixed ==
    {Instruction("SOP2", 0, <<LiteralMarker, 3>>, 1, Plain),
     Instruction("SOP2", 0, <<3, 4>>, 1, Plain),
     Instruction("SOPK", 21, <<>>, 5, Plain),
     Instruction("VOP2", 32, <<259, 4>>, 6, Plain),
     Instruction("VOP2", 33, <<LiteralMarker, 4>>, 6, Plain),
     Instruction("SMRD", 0, <<4, LiteralMarker>>, 7, Wide),
     Instruction("SMRD", 0, <<4, LiteralMarker>>, 7, Plain),
     Instruction("VOP3", 257, <<LiteralMarker, 300, 9>>, 7, Plain),
     Instruction("EXP", 0, <<0, 1, 2, 3>>, 0, Plain)}
Sequences == {<<a, b, c>> : a, b, c \in Mixed}

\* An instruction, its VOP3 form, and the instruction of the op before.
Small(encoding, op) == Instruction(encoding, op, Sourced(encoding, SmallSource), 9, Plain)
Forms ==
    {<<Small(form[1], form[2]), Small("VOP3", form[2] + form[3]), Small(form[1], form[2] - 1)>> :
        form \in ({"VOPC"} \X (1 .. 247) \X {0}) \cup ({"VOP2"} \X (1 .. 49) \X {256})
                 \cup ({"VOP1"} \X (2 .. 68) \X {384})}

\* Code that ends inside its last instruction.
Cut(p) == [p EXCEPT !.code = Front(p.code)]

\* Only the first 9 bits of a token decide about its encoding.
TokenPrefixes == {[code |-> <<<<0, 128 * prefix>>, <<0, 0>>>>, instructions |-> <<>>] :
                prefix \in 0 .. 511}

MCPrograms ==
    {Assembled(<<i, EndProgram>>) : i \in Singles}
    \cup {Assembled(s) : s \in Sequences \cup Forms}
    \cup {Cut(Assembled(<<a, b>>)) : a, b \in Mixed}
    \cup TokenPrefixes
=============================================================================
