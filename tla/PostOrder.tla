------------------------------- MODULE PostOrder -------------------------------
(***************************************************************************)
(* PostOrder of post_order.cpp: a depth-first walk from the first block    *)
(* with an explicit stack.  One step is one turn of its while loop.        *)
(***************************************************************************)
EXTENDS Naturals, Sequences

CONSTANTS
    Block,          \* the basic blocks
    First,          \* the block of the first node of the syntax list
    Graphs          \* the successor lists the pass is run on

\* PostOrder throws when the list begins with no block.  TranslatePass makes no
\* such list (FirstBlockIsEntry), so there is a first block here.
ASSUME FirstAssumption == First \in Block
ASSUME GraphsAssumption == Graphs \subseteq [Block -> Seq(Block)]

VARIABLES
    imm_successors,     \* of each block; the pass does not change them
    block_stack,
    visited,
    post_order_blocks

vars == <<imm_successors, block_stack, visited, post_order_blocks>>

Elems(s) == {s[i] : i \in DOMAIN s}
NoDuplicates(s) == \A i, j \in DOMAIN s : s[i] = s[j] => i = j
Top == block_stack[Len(block_stack)]
Popped == SubSeq(block_stack, 1, Len(block_stack) - 1)

\* Mutant: the first block is not marked.
InitUnmarked ==
    /\ imm_successors \in Graphs
    /\ block_stack = <<First>>
    /\ visited = {}
    /\ post_order_blocks = <<>>

Init ==
    /\ imm_successors \in Graphs
    /\ block_stack = <<First>>
    /\ visited = {First}
    /\ post_order_blocks = <<>>

\* none_of stops at the first successor that was not yet visited: the block
\* goes back on the stack, with that successor on top of it.
Descend ==
    /\ block_stack # <<>>
    /\ \E i \in DOMAIN imm_successors[Top] :
          LET branch == imm_successors[Top][i]
          IN  /\ branch \notin visited
              /\ \A j \in 1 .. i - 1 : imm_successors[Top][j] \in visited
              /\ visited' = visited \cup {branch}
              /\ block_stack' = Append(block_stack, branch)
    /\ UNCHANGED <<imm_successors, post_order_blocks>>

\* Mutants: a block is listed as soon as it is on top; it stays on top.
EmitEarly ==
    /\ block_stack # <<>>
    /\ block_stack' = Popped
    /\ post_order_blocks' = Append(post_order_blocks, Top)
    /\ UNCHANGED <<imm_successors, visited>>
EmitAgain ==
    /\ block_stack # <<>>
    /\ Elems(imm_successors[Top]) \subseteq visited
    /\ UNCHANGED vars

\* Every successor was visited: the block is done.
Emit ==
    /\ block_stack # <<>>
    /\ Elems(imm_successors[Top]) \subseteq visited
    /\ block_stack' = Popped
    /\ post_order_blocks' = Append(post_order_blocks, Top)
    /\ UNCHANGED <<imm_successors, visited>>

Done == block_stack = <<>>
Terminated == Done /\ UNCHANGED vars

Next == Descend \/ Emit \/ Terminated

Spec == Init /\ [][Next]_vars /\ WF_vars(Next)

-----------------------------------------------------------------------------
Closed(R) == \A b \in R : Elems(imm_successors[b]) \subseteq R

\* b can be reached from a: it is in every set that control cannot leave.
Reaches(a, b) == \A R \in SUBSET Block : Closed(R) /\ a \in R => b \in R

\* The stack, the visited set and the list hold blocks only.
TypeOK ==
    /\ imm_successors \in [Block -> Seq(Block)]
    /\ block_stack \in Seq(Block)
    /\ visited \in SUBSET Block
    /\ post_order_blocks \in Seq(Block)

\* When the walk ends it has listed exactly the blocks that can be reached
\* from the first, each once.  The SSA pass renames in a listed block only and
\* seals it once; a reachable block left out would keep its register reads.
ListsTheReachable ==
    Done =>
        /\ NoDuplicates(post_order_blocks)
        /\ \A b \in Block : b \in Elems(post_order_blocks) <=> Reaches(First, b)

\* A block is listed after its successors, but for those that are entered
\* again from it: read backwards, the list visits the predecessors of a block
\* before the block unless the edge closes a loop.
SuccessorsFirst ==
    \A i, j \in DOMAIN post_order_blocks :
        /\ i < j
        /\ post_order_blocks[j] \in Elems(imm_successors[post_order_blocks[i]])
        => Reaches(post_order_blocks[j], post_order_blocks[i])

-----------------------------------------------------------------------------
(* The inductive invariant behind the two properties above.                *)

\* The visited blocks are those on the stack and those listed, each once.
VisitedIsStackOrListed ==
    /\ visited = Elems(block_stack) \cup Elems(post_order_blocks)
    /\ Elems(block_stack) \cap Elems(post_order_blocks) = {}
    /\ NoDuplicates(block_stack)
    /\ NoDuplicates(post_order_blocks)

\* The stack is a path of the graph.
StackIsAPath ==
    \A k, l \in DOMAIN block_stack : k <= l => Reaches(block_stack[k], block_stack[l])

VisitedFromFirst ==
    /\ First \in visited
    /\ \A b \in visited : Reaches(First, b)

\* The successors of a listed block were all visited, and those still on the
\* stack lead back to it.
ListedIsComplete ==
    \A i \in DOMAIN post_order_blocks :
        /\ Elems(imm_successors[post_order_blocks[i]]) \subseteq visited
        /\ \A c \in Elems(imm_successors[post_order_blocks[i]]) :
              c \in Elems(block_stack) => Reaches(c, post_order_blocks[i])

\* Together these are inductive; the two properties above follow from them.
IInv ==
    /\ TypeOK
    /\ VisitedIsStackOrListed
    /\ StackIsAPath
    /\ VisitedFromFirst
    /\ ListedIsComplete
    /\ SuccessorsFirst

-----------------------------------------------------------------------------
\* The walk ends.
Terminates == <>Done
=============================================================================
