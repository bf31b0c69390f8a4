------------------------------- MODULE BlockPool --------------------------------
(***************************************************************************)
(* The blocks of the IR in their pool: TranslatePass creates blocks        *)
(* (structured_control_flow.cpp) while it connects those that exist, and   *)
(* the edges are plain pointers.  The composition shows that no edge ever  *)
(* names memory in which no block lives, although the pool's vector of     *)
(* chunks moves between the calls.                                         *)
(***************************************************************************)
EXTENDS ObjectPool, BlockGraph

blockVars == <<poolVars, vars>>

BlockInit == PoolInit /\ Init

\* The constructor of Block leaves both lists of edges empty; the destructor
\* of a block ends them, so those of an address without a block are empty.
CreateBlock(a) ==
    /\ thrown = "none"
    /\ PoolCreate(a)
    /\ UNCHANGED vars

\* A pass connects two blocks it holds pointers to.
Connect(b, c) ==
    /\ {b, c} \subseteq alive
    /\ AddBranch(b, c)
    /\ UNCHANGED poolVars

\* Every block ends, with the vectors in it.
ReleaseBlocks ==
    /\ thrown = "none"
    /\ PoolReleaseContents
    /\ imm_successors' = [b \in Block |-> IF b \in alive' THEN imm_successors[b] ELSE <<>>]
    /\ imm_predecessors' = [b \in Block |-> IF b \in alive' THEN imm_predecessors[b] ELSE <<>>]
    /\ UNCHANGED thrown

\* The program has ended with an exception nothing catches.
Ended == Terminated /\ UNCHANGED poolVars

BlockNext ==
    \/ \E a \in Block \cap Address : CreateBlock(a)
    \/ \E b, c \in Block : Connect(b, c)
    \/ ReleaseBlocks
    \/ Ended

BlockSpec == BlockInit /\ [][BlockNext]_blockVars

-----------------------------------------------------------------------------
\* Only living blocks have edges, and both ends of every edge are living, also
\* when a new chunk has made the pool's vector move the chunks that hold the
\* blocks of a graph that is being built: what moves is the chunks' counters and
\* their pointers to storage, and the chunks moved from end no block.
PointersStayValid ==
    \A b \in Block :
        /\ imm_successors[b] # <<>> \/ imm_predecessors[b] # <<>> => b \in alive
        /\ Elems(imm_successors[b]) \cup Elems(imm_predecessors[b]) \subseteq alive
=============================================================================
