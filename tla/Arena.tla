--------------------------------- MODULE Arena ---------------------------------
(***************************************************************************)
(* What an ObjectPool promises: an object is created at an address where   *)
(* no object lives, it stays there, and all objects end together.          *)
(***************************************************************************)
VARIABLE objects        \* the addresses of the living objects

Init == objects = {}

Create == \E a \in objects' : a \notin objects /\ objects' = objects \cup {a}

ReleaseContents == objects' = {}

Next == Create \/ ReleaseContents

Spec == Init /\ [][Next]_objects
=============================================================================
