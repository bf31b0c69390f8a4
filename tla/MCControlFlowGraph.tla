------------------------- MODULE MCControlFlowGraph -------------------------
(***************************************************************************)
(* Instances of ControlFlowGraph: the programs of Size instructions that   *)
(* end with s_endpgm and those of TailSize that end with s_branch, made of *)
(* short and long straight-line instructions, branches to any instruction, *)
(* branches on a debug flag and program ends.                              *)
(***************************************************************************)
EXTENDS ControlFlowGraph, FiniteSets

CONSTANTS
    Size,           \* number of instructions
    TailSize,       \* the same for programs that end with a branch, 0: none
    DeadCode,       \* whether code may follow s_branch without being a target
    Run             \* bytes of the long straight-line run, 8 for a literal

Alu(bytes) == [op |-> "alu", length |-> bytes, simm |-> 0, to |-> 0]
Branch(op, t) == [op |-> op, length |-> 4, simm |-> 0, to |-> t]
End == [op |-> "s_endpgm", length |-> 4, simm |-> 0, to |-> 0]

Insts(n) == {Alu(4), Alu(Run), Branch("s_cbranch_cdbg", 0), End}
                \cup {Branch(op, t) : op \in {"s_branch", "s_cbranch"}, t \in 1 .. n}

\* The assembler: simm is the distance in dwords, in 16 bits.
Assemble(p) ==
    [k \in DOMAIN p |->
        [op |-> p[k].op, length |-> p[k].length,
         simm |-> IF ~IsBranch(p[k]) THEN 0
                  ELSE ((Address(p, p[k].to) - Address(p, k) - 4) \div 4) % 2^16]]

\* Code after s_branch is reached from elsewhere, as compilers lay it out.
NoDeadCode(p) ==
    \A k \in 1 .. Len(p) - 1 : p[k].op = "s_branch" =>
        \E j \in DOMAIN p : IsBranch(p[j]) /\ p[j].to = k + 1

\* A program that does not end with s_endpgm has one somewhere.
Ends(p) == \E k \in DOMAIN p : p[k].op = "s_endpgm"

Layouts(n, last) ==
    {p \in [1 .. n -> Insts(n)] : p[n].op = last /\ Ends(p) /\ (DeadCode \/ NoDeadCode(p))}

MCPrograms ==
    {Assemble(p) : p \in Layouts(Size, "s_endpgm")}
        \cup (IF TailSize = 0 THEN {} ELSE {Assemble(p) : p \in Layouts(TailSize, "s_branch")})

\* What the proofs assume of a program holds of the ones that are checked.
\* (A program with a branch on a debug flag ends in Unimplemented.)
ASSUME ProgramsAreCompiled ==
    Run = 8 /\ ~DeadCode =>
        \A p \in MCPrograms :
            Compiled(p) \/ \E k \in DOMAIN p : p[k].op = "s_cbranch_cdbg"
=============================================================================
