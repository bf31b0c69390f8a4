------------------------------ MODULE BlockGraph ------------------------------
(***************************************************************************)
(* The edges between the basic blocks of the IR.  Block::AddBranch records *)
(* an edge twice, among the successors of its source and the predecessors  *)
(* of its target; the passes that follow read either side: PostOrder walks *)
(* the successors, the SSA pass pulls values through the predecessors.     *)
(***************************************************************************)
EXTENDS Naturals, Sequences

CONSTANTS
    Block,          \* the blocks created so far
    MaxBranches     \* bound on the calls of AddBranch of one source block

ASSUME MaxBranchesAssumption == MaxBranches \in Nat

VARIABLES
    imm_successors,     \* of each block, in order of insertion
    imm_predecessors,
    thrown              \* "none", or the LogicError that ended the program

vars == <<imm_successors, imm_predecessors, thrown>>

Elems(s) == {s[i] : i \in DOMAIN s}
NoDuplicates(s) == \A i, j \in DOMAIN s : s[i] = s[j] => i = j

Init ==
    /\ imm_successors = [b \in Block |-> <<>>]
    /\ imm_predecessors = [b \in Block |-> <<>>]
    /\ thrown = "none"

SuccessorAlreadyInserted(b, c) ==
    /\ c \in Elems(imm_successors[b])
    /\ thrown' = "Successor already inserted"
    /\ UNCHANGED <<imm_successors, imm_predecessors>>

\* Mutant: only the successor is recorded.
InsertOneSide(b, c) ==
    /\ c \notin Elems(imm_successors[b])
    /\ imm_successors' = [imm_successors EXCEPT ![b] = Append(@, c)]
    /\ UNCHANGED <<imm_predecessors, thrown>>

\* The second check; the first has passed.
InsertOrThrow(b, c) ==
    /\ c \notin Elems(imm_successors[b])
    /\ IF b \in Elems(imm_predecessors[c])
       THEN /\ thrown' = "Predecessor already inserted"
            /\ UNCHANGED <<imm_successors, imm_predecessors>>
       ELSE /\ imm_successors' = [imm_successors EXCEPT ![b] = Append(@, c)]
            /\ imm_predecessors' = [imm_predecessors EXCEPT ![c] = Append(@, b)]
            /\ UNCHANGED thrown

\* Mutant: neither check.
AddBranchUnchecked(b, c) ==
    /\ thrown = "none"
    /\ Len(imm_successors[b]) < MaxBranches
    /\ imm_successors' = [imm_successors EXCEPT ![b] = Append(@, c)]
    /\ imm_predecessors' = [imm_predecessors EXCEPT ![c] = Append(@, b)]
    /\ UNCHANGED thrown

\* b->AddBranch(c)
AddBranch(b, c) ==
    /\ thrown = "none"
    /\ Len(imm_successors[b]) < MaxBranches
    /\ SuccessorAlreadyInserted(b, c) \/ InsertOrThrow(b, c)

\* Nothing catches the exception.
Terminated == thrown # "none" /\ UNCHANGED vars
Full == (\A b \in Block : Len(imm_successors[b]) = MaxBranches) /\ UNCHANGED vars

Next == (\E b, c \in Block : AddBranch(b, c)) \/ Terminated \/ Full

Spec == Init /\ [][Next]_vars

-----------------------------------------------------------------------------
\* Only blocks are recorded, and the only exceptions are the two of AddBranch.
TypeOK ==
    /\ imm_successors \in [Block -> Seq(Block)]
    /\ imm_predecessors \in [Block -> Seq(Block)]
    /\ thrown \in {"none", "Successor already inserted", "Predecessor already inserted"}

\* The two sides of the graph agree at every step, even one that throws: the
\* checks come before both push_backs, so no edge is ever recorded on one side.
EdgesSymmetric ==
    \A b, c \in Block : c \in Elems(imm_successors[b]) <=> b \in Elems(imm_predecessors[c])

\* A block is at most once among the predecessors of another: the SSA pass
\* gives a phi one operand per entry of imm_predecessors.
EdgesSimple ==
    \A b \in Block : NoDuplicates(imm_successors[b]) /\ NoDuplicates(imm_predecessors[b])

\* The second LogicError of AddBranch cannot be the one that is thrown.
PredecessorCheckRedundant == thrown # "Predecessor already inserted"
=============================================================================
