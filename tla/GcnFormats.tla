------------------------------ MODULE GcnFormats ------------------------------
(***************************************************************************)
(* The tables of opcodes.h and format.cpp: encodings, their prefixes, where*)
(* their opcodes begin in the one Opcode enumeration, and of each format   *)
(* table its size, the entries that are not complete and the number of     *)
(* sources.  An opcode is its number.                                      *)
(***************************************************************************)
EXTENDS Integers, Sequences, FiniteSets

\* InstEncoding: how many of the top bits of a token, and their value.
InstEncoding ==
    [SOP1   |-> <<9, 381>>, SOPP  |-> <<9, 383>>, SOPC  |-> <<9, 382>>,
     VOP1   |-> <<7, 63>>,  VOPC  |-> <<7, 62>>,
     VOP3   |-> <<6, 52>>,  EXP   |-> <<6, 62>>,  VINTRP |-> <<6, 50>>, DS |-> <<6, 54>>,
     MUBUF  |-> <<6, 56>>,  MTBUF |-> <<6, 58>>,  MIMG  |-> <<6, 60>>,
     SMRD   |-> <<5, 24>>,  SOPK  |-> <<4, 11>>,  SOP2  |-> <<2, 2>>,   VOP2 |-> <<1, 0>>]

Encodings == DOMAIN InstEncoding
Encodings64 == {"VOP3", "MUBUF", "MTBUF", "MIMG", "DS", "EXP"}

\* getEncodingLength, in bytes.
EncodingLength(encoding) == IF encoding \in Encodings64 THEN 8 ELSE 4

\* OpcodeMap
OpMapOffset ==
    [SOP2 |-> 0, SOPK |-> 45, SOP1 |-> 67, SOPC |-> 121, SOPP |-> 138, VOPC |-> 165,
     VOP2 |-> 413, VOP1 |-> 463, VOP3 |-> 534, VINTRP |-> 989, SMRD |-> 992, DS |-> 1024,
     MUBUF |-> 1280, MTBUF |-> 1394, MIMG |-> 1402, EXP |-> 1514]

\* The opcodes the decoder asks for by name: of VOPC, VOP2 and VOP1 those that
\* have a VOP3 form, and the ones that take a literal or a second destination.
VopcOpcodes == OpMapOffset.VOPC .. OpMapOffset.VOPC + 247
Vop2Opcodes == OpMapOffset.VOP2 .. OpMapOffset.VOP2 + 49
Vop1Opcodes == OpMapOffset.VOP1 .. OpMapOffset.VOP1 + 68
S_SETREG_IMM32_B32 == OpMapOffset.SOPK + 21
LaneOpcodes == {OpMapOffset.VOP2 + 1, OpMapOffset.VOP2 + 2}
MadLiteralOpcodes == {OpMapOffset.VOP2 + 32, OpMapOffset.VOP2 + 33}
CarryOpcodes == OpMapOffset.VOP2 + 37 .. OpMapOffset.VOP2 + 42
DivScaleOpcodes == {OpMapOffset.VOP3 + 365, OpMapOffset.VOP3 + 366}
Mad64Opcodes == {OpMapOffset.VOP3 + 374, OpMapOffset.VOP3 + 375}

\* VOP3_TO_VOPX: where the opcodes of the short encodings begin in VOP3.
Vop3ToVopc == 0
Vop3ToVop2 == 256
Vop3ToVop1 == 384

-----------------------------------------------------------------------------
\* The entries of each table whose types are Undefined.
IncompleteSOP2 == {12, 13, 43}
IncompleteSOPK == {1, 17, 20}
IncompleteSOP1 == (0 .. 2) \cup {35, 50, 51}
IncompleteSOPC == {16}
IncompleteSOPP == {3, 11}
IncompleteSMRD == (5 .. 7) \cup (13 .. 31)
IncompleteVOP2 == {}
IncompleteVOPC ==
    (137 .. 143) \cup (153 .. 159) \cup (169 .. 175) \cup (185 .. 191) \cup (200 .. 207) \cup
    (216 .. 223) \cup (232 .. 239)
IncompleteVOP3 ==
    IncompleteVOPC \cup (248 .. 255) \cup (306 .. 319) \cup (376 .. 384) \cup (401 .. 404) \cup
    (407 .. 415) \cup {449, 453, 454}
IncompleteVOP1 == {0, 65, 69, 70} \cup (17 .. 20) \cup (23 .. 31)
IncompleteVINTRP == {}
IncompleteDS ==
    (20 .. 29) \cup (61 .. 63) \cup (84 .. 95) \cup {116, 117, 127, 140, 204} \cup
    (121 .. 125) \cup (142 .. 145) \cup (148 .. 191) \cup (206 .. 209) \cup (212 .. 255)
IncompleteMUBUF ==
    (16 .. 23) \cup {25, 27, 52, 84} \cup (32 .. 47) \cup (65 .. 79) \cup (97 .. 113)
IncompleteMTBUF == {}
IncompleteMIMG ==
    {6, 7, 12, 13} \cup (15 .. 31) \cup (64 .. 70) \cup (73 .. 86) \cup (88 .. 95) \cup
    (97 .. 111)
IncompleteEXP == {}

\* InstructionFormat: the table of each encoding.
InstructionFormat ==
    [SOP2   |-> [size |-> 45,  incomplete |-> IncompleteSOP2],
     SOPK   |-> [size |-> 22,  incomplete |-> IncompleteSOPK],
     SOP1   |-> [size |-> 54,  incomplete |-> IncompleteSOP1],
     SOPC   |-> [size |-> 17,  incomplete |-> IncompleteSOPC],
     SOPP   |-> [size |-> 27,  incomplete |-> IncompleteSOPP],
     SMRD   |-> [size |-> 32,  incomplete |-> IncompleteSMRD],
     VOP2   |-> [size |-> 50,  incomplete |-> IncompleteVOP2],
     VOP3   |-> [size |-> 455, incomplete |-> IncompleteVOP3],
     VOP1   |-> [size |-> 71,  incomplete |-> IncompleteVOP1],
     VOPC   |-> [size |-> 248, incomplete |-> IncompleteVOPC],
     VINTRP |-> [size |-> 3,   incomplete |-> IncompleteVINTRP],
     DS     |-> [size |-> 256, incomplete |-> IncompleteDS],
     MUBUF  |-> [size |-> 114, incomplete |-> IncompleteMUBUF],
     MTBUF  |-> [size |-> 8,   incomplete |-> IncompleteMTBUF],
     MIMG   |-> [size |-> 112, incomplete |-> IncompleteMIMG],
     EXP    |-> [size |-> 1,   incomplete |-> IncompleteEXP]]

\* The src_count of a complete entry.
SrcCount(encoding, op) ==
    CASE encoding \in {"SOPK", "SOPP"} -> 0
      [] encoding = "SOP1" -> IF op = 31 THEN 0 ELSE 1
      [] encoding \in {"VOP1", "SMRD", "VINTRP"} -> 1
      [] encoding \in {"SOP2", "SOPC", "VOP2", "VOPC"} -> 2
      [] encoding = "DS" -> 3
      [] encoding \in {"MUBUF", "MTBUF", "MIMG", "EXP"} -> 4
      [] encoding = "VOP3" ->
            IF op > 384 THEN 1
            ELSE IF op \in {256, 288, 289, 373, 374, 375} \cup (293 .. 298) \cup (320 .. 352) \cup
                           (365 .. 371)
                 THEN 3 ELSE 2
=============================================================================
