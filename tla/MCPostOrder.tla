------------------------------ MODULE MCPostOrder ------------------------------
(***************************************************************************)
(* Every graph on Size blocks in which a block has at most two successors, *)
(* without repetition, in either order.                                    *)
(***************************************************************************)
EXTENDS PostOrder

CONSTANT Size

MCBlock == 1 .. Size
SuccessorLists ==
    {<<>>} \cup {<<b>> : b \in MCBlock}
           \cup {s \in MCBlock \X MCBlock : s[1] # s[2]}
MCGraphs == [MCBlock -> SuccessorLists]
=============================================================================
