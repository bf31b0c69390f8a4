------------------------------- MODULE Assembler -------------------------------
(***************************************************************************)
(* Machine code as an assembler for these GPUs lays it out: where each     *)
(* field of an instruction is, and when a literal follows.  The decoder is *)
(* compared with it.  A word is its two halves of 16 bits, the low one     *)
(* first, so that no number exceeds 31 bits.                               *)
(*                                                                         *)
(* An instruction is its encoding, op, operands as they are encoded (src,  *)
(* dst), the second destination of VOP3B (sdst), the abs bits of the other *)
(* VOP3 (abs), the immediate bit of SMRD (imm) and the literal, if any.    *)
(***************************************************************************)
EXTENDS GcnFormats, FiniteSetsExt

Half == 65536

\* Where op, dst and each source begin; 64-bit instructions go on at bit 32.
OpAt ==
    [SOP2 |-> 23, SOPK |-> 23, SOP1 |-> 8, SOPC |-> 16, SOPP |-> 16, SMRD |-> 22, VOP2 |-> 25,
     VOP1 |-> 9, VOPC |-> 17, VINTRP |-> 16, VOP3 |-> 17, MUBUF |-> 18, MTBUF |-> 16,
     MIMG |-> 18, DS |-> 18, EXP |-> 0]
DstAt ==
    [SOP2 |-> 16, SOPK |-> 16, SOP1 |-> 16, SMRD |-> 15, VOP2 |-> 17, VOP1 |-> 17,
     VINTRP |-> 18, VOP3 |-> 0, MIMG |-> 40, DS |-> 56]
SrcAt ==
    [SOP2 |-> <<0, 8>>, SOPK |-> <<>>, SOP1 |-> <<0>>, SOPC |-> <<0, 8>>, SOPP |-> <<>>,
     SMRD |-> <<9, 0>>, VOP2 |-> <<0, 9>>, VOP1 |-> <<0>>, VOPC |-> <<0, 9>>, VINTRP |-> <<0>>,
     VOP3 |-> <<32, 41, 50>>, MUBUF |-> <<32, 40, 48, 56>>, MTBUF |-> <<32, 40, 48, 56>>,
     MIMG |-> <<32, 48, 53>>, DS |-> <<32, 40, 48>>, EXP |-> <<32, 40, 48, 56>>]

\* Sources that can only be vector registers; others are by their code.
VectorBytes ==
    [VOP2 |-> {2}, VOPC |-> {2}, VINTRP |-> {1}, MUBUF |-> {1, 2}, MTBUF |-> {1, 2},
     MIMG |-> {1}, DS |-> {1, 2, 3}, EXP |-> {1, 2, 3, 4}]
IsLane(i) == i.encoding = "VOP2" /\ i.op \in {1, 2}
VectorSources(i) ==
    {k \in DOMAIN i.src : i.src[k] > 255} \cup
    (IF IsLane(i) THEN {} ELSE UNION {VectorBytes[e] : e \in {i.encoding} \cap DOMAIN VectorBytes})

\* The second source of SMRD is an operand only without the immediate bit.
IgnoredSources(i) == IF i.encoding = "SMRD" /\ i.imm = 1 THEN {2} ELSE {}

\* Image instructions keep the place of their second source free.
SourceSlot(i, k) == IF i.encoding = "MIMG" /\ k > 1 THEN k + 1 ELSE k

\* The operand code of a literal, and the instructions that always have one.
LiteralMarker == 255
TakesLiteral(i) ==
    \/ i.encoding = "SOPK" /\ i.op = 21
    \/ i.encoding = "VOP2" /\ i.op \in {32, 33}
LiteralMarkers(i) ==
    {k \in DOMAIN i.src \ (IgnoredSources(i) \cup VectorSources(i)) : i.src[k] = LiteralMarker}
HasLiteral(i) == TakesLiteral(i) \/ (i.encoding \notin Encodings64 /\ LiteralMarkers(i) # {})

\* Markers that mean the one literal once more.
SharedLiterals(i) ==
    IF TakesLiteral(i) THEN LiteralMarkers(i)
    ELSE {k \in LiteralMarkers(i) : \E j \in LiteralMarkers(i) : j < k}

\* VOP3B: the VOP3 instructions that name a scalar register they write.
WritesSdst(i) ==
    i.encoding = "VOP3" /\ i.op \in (293 .. 298) \cup {365, 366, 374, 375}

\* VOP3 begins with the operations of VOPC and holds those of VOP2 and VOP1.
Operation(i) ==
    CASE i.encoding = "VOP3" /\ i.op \in 0 .. 255   -> <<"VOPC", i.op>>
      [] i.encoding = "VOP3" /\ i.op \in 256 .. 319 -> <<"VOP2", i.op - 256>>
      [] i.encoding = "VOP3" /\ i.op \in 384 .. 511 -> <<"VOP1", i.op - 384>>
      [] OTHER -> <<i.encoding, i.op>>

\* The fields of an instruction, <<first bit, value>>.
Fields(i) ==
    LET bits == InstEncoding[i.encoding][1]
    IN  {<<32 - bits, InstEncoding[i.encoding][2]>>}
        \cup (IF i.encoding = "EXP" THEN {} ELSE {<<OpAt[i.encoding], i.op>>})
        \cup {<<DstAt[e], i.dst>> : e \in {i.encoding} \cap DOMAIN DstAt}
        \cup {<<SrcAt[i.encoding][k], i.src[k]>> : k \in DOMAIN i.src}
        \cup (IF i.encoding = "SMRD" THEN {<<8, i.imm>>} ELSE {})
        \cup (IF i.encoding = "VOP3" THEN {<<8, IF WritesSdst(i) THEN i.sdst ELSE i.abs>>} ELSE {})

\* Half q (from 0) of the fields: a field may begin in it or in the one before.
HalfOf(fields, q) ==
    LET shifted(f) == f[2] * 2 ^ (f[1] % 16)
        here == {f \in fields : f[1] \div 16 = q}
        before == {f \in fields : f[1] \div 16 = q - 1}
    IN  MapThenSumSet(LAMBDA f : shifted(f) % Half, here) +
        MapThenSumSet(LAMBDA f : shifted(f) \div Half, before)

Word(fields, n) == <<HalfOf(fields, 2 * n), HalfOf(fields, 2 * n + 1)>>

\* The words of an instruction: one or two, then the literal.
Words(i) ==
    [n \in 1 .. EncodingLength(i.encoding) \div 4 |-> Word(Fields(i), n - 1)]
    \o [n \in DOMAIN i.literal |-> <<i.literal[n] % Half, i.literal[n] \div Half>>]

\* The words in front of instruction n.
StartOf(instructions, n) ==
    MapThenSumSet(LAMBDA m : Len(Words(instructions[m])), 1 .. n - 1)

Assemble(instructions) ==
    LET size == StartOf(instructions, Len(instructions) + 1)
        at(p) == CHOOSE n \in DOMAIN instructions :
                    /\ StartOf(instructions, n) < p
                    /\ p <= StartOf(instructions, n + 1)
    IN  [p \in 1 .. size |-> Words(instructions[at(p)])[p - StartOf(instructions, at(p))]]
=============================================================================
