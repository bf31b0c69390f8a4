------------------------------ MODULE MCBlockPool -------------------------------
(***************************************************************************)
(* Three arrays the allocator hands out and takes back, chunks of one      *)
(* block and at most three slots: a fourth block never fits, a second or   *)
(* third makes the vector grow, a release squashes two or three chunks     *)
(* into one of two or three slots.  Two branches leave a block at most.    *)
(***************************************************************************)
EXTENDS BlockPool, TLC

MCBlock == Storage \X (0 .. MaxSlots - 1)

Symmetry == Permutations(Storage)
=============================================================================
