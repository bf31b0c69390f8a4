---------------------------- MODULE BlockPoolProofs -----------------------------
(***************************************************************************)
(* Both sides of the edges agree after any sequence of AddBranch calls on  *)
(* any set of blocks, so the SSA pass and PostOrder walk the same graph.   *)
(* The pool the blocks live in implements the arena for every chunk size,  *)
(* whatever arrays the allocator hands out and whenever the vector of      *)
(* chunks moves, and a release leaves a chunk for as many objects as       *)
(* lived; the edges of the blocks that live in a pool name living blocks   *)
(* only.                                                                   *)
(***************************************************************************)
EXTENDS BlockPool, SequenceTheorems, FiniteSetTheorems, TLAPS

-----------------------------------------------------------------------------
(* The edges.                                                              *)

\* An element that is new to a sequence keeps it free of duplicates.
LEMMA AppendNew ==
    ASSUME NEW S, NEW s \in Seq(S), NEW x \in S
    PROVE  /\ Append(s, x) \in Seq(S)
           /\ Elems(Append(s, x)) = Elems(s) \cup {x}
           /\ NoDuplicates(s) /\ x \notin Elems(s) => NoDuplicates(Append(s, x))
<1>1. /\ Append(s, x) \in Seq(S)
      /\ Len(s) \in Nat
      /\ DOMAIN s = 1 .. Len(s)
      /\ DOMAIN Append(s, x) = 1 .. Len(s) + 1
      /\ \A i \in 1 .. Len(s) : Append(s, x)[i] = s[i]
      /\ Append(s, x)[Len(s) + 1] = x
  BY AppendProperties, LenProperties
<1>2. Elems(Append(s, x)) = Elems(s) \cup {x}
  BY <1>1 DEF Elems
<1>3. ASSUME NoDuplicates(s), x \notin Elems(s)
      PROVE  NoDuplicates(Append(s, x))
  BY <1>1, <1>3 DEF NoDuplicates, Elems
<1>4. QED  BY <1>1, <1>2, <1>3

\* The three properties, with the types, are inductive.
IInv == TypeOK /\ EdgesSymmetric /\ EdgesSimple /\ PredecessorCheckRedundant

\* Without edges the two sides agree.
LEMMA InitIInv == Init => IInv
  BY EmptySeq DEF Init, IInv, TypeOK, EdgesSymmetric, EdgesSimple, NoDuplicates,
                  Elems, PredecessorCheckRedundant

\* The invariant is a predicate of the variables.
LEMMA StutterIInv == IInv /\ UNCHANGED vars => IInv'
  BY DEF IInv, vars, TypeOK, EdgesSymmetric, EdgesSimple, PredecessorCheckRedundant

\* The edge is new on both sides, or on neither.
LEMMA AddBranchIInv ==
    ASSUME IInv, NEW b \in Block, NEW c \in Block, AddBranch(b, c)
    PROVE  IInv'
<1>1. CASE SuccessorAlreadyInserted(b, c)
  BY <1>1 DEF SuccessorAlreadyInserted, IInv, TypeOK, EdgesSymmetric, EdgesSimple,
              PredecessorCheckRedundant
<1>2. CASE InsertOrThrow(b, c)
  <2>1. c \notin Elems(imm_successors[b]) /\ b \notin Elems(imm_predecessors[c])
    BY <1>2 DEF InsertOrThrow, IInv, EdgesSymmetric
  <2>2. /\ imm_successors' = [imm_successors EXCEPT ![b] = Append(@, c)]
        /\ imm_predecessors' = [imm_predecessors EXCEPT ![c] = Append(@, b)]
        /\ thrown' = thrown
    BY <1>2, <2>1 DEF InsertOrThrow
  <2>3. /\ Append(imm_successors[b], c) \in Seq(Block)
        /\ Append(imm_predecessors[c], b) \in Seq(Block)
        /\ Elems(Append(imm_successors[b], c)) = Elems(imm_successors[b]) \cup {c}
        /\ Elems(Append(imm_predecessors[c], b)) = Elems(imm_predecessors[c]) \cup {b}
        /\ NoDuplicates(Append(imm_successors[b], c))
        /\ NoDuplicates(Append(imm_predecessors[c], b))
    <3>1. /\ imm_successors[b] \in Seq(Block) /\ NoDuplicates(imm_successors[b])
          /\ imm_predecessors[c] \in Seq(Block) /\ NoDuplicates(imm_predecessors[c])
      BY DEF IInv, TypeOK, EdgesSimple
    <3>2. QED  BY <2>1, <3>1, AppendNew
  <2>4. TypeOK'
    BY <2>2, <2>3 DEF IInv, TypeOK
  <2>5. EdgesSymmetric'
    <3> SUFFICES ASSUME NEW x \in Block, NEW y \in Block
                 PROVE  y \in Elems(imm_successors'[x]) <=> x \in Elems(imm_predecessors'[y])
      BY DEF EdgesSymmetric
    <3>1. y \in Elems(imm_successors'[x])
             <=> y \in Elems(imm_successors[x]) \/ (x = b /\ y = c)
      BY <2>2, <2>3 DEF IInv, TypeOK
    <3>2. x \in Elems(imm_predecessors'[y])
             <=> x \in Elems(imm_predecessors[y]) \/ (x = b /\ y = c)
      BY <2>2, <2>3 DEF IInv, TypeOK
    <3>3. QED  BY <3>1, <3>2 DEF IInv, EdgesSymmetric
  <2>6. EdgesSimple'
    BY <2>2, <2>3 DEF IInv, TypeOK, EdgesSimple
  <2>7. QED  BY <2>2, <2>4, <2>5, <2>6 DEF IInv, PredecessorCheckRedundant
<1>3. QED  BY <1>1, <1>2 DEF AddBranch

\* The edges stay symmetric, simple and typed, and the second check of
\* AddBranch never fires.
THEOREM Inductive == Spec => []IInv
<1>1. IInv /\ [Next]_vars => IInv'
  BY StutterIInv, AddBranchIInv DEF Next, Terminated, Full
<1>2. QED  BY InitIInv, <1>1, PTL DEF Spec

\* A successor edge is recorded exactly when the predecessor edge is.
THEOREM GraphSymmetric == Spec => []EdgesSymmetric
<1>1. IInv => EdgesSymmetric
  BY DEF IInv
<1>2. QED  BY Inductive, <1>1, PTL

\* No block is twice among the predecessors or the successors of another.
THEOREM GraphSimple == Spec => []EdgesSimple
<1>1. IInv => EdgesSimple
  BY DEF IInv
<1>2. QED  BY Inductive, <1>1, PTL

\* The check of the predecessors repeats the check of the successors.
THEOREM SecondCheckRedundant == Spec => []PredecessorCheckRedundant
<1>1. IInv => PredecessorCheckRedundant
  BY DEF IInv
<1>2. QED  BY Inductive, <1>1, PTL

-----------------------------------------------------------------------------
(* The pool.                                                               *)

\* What the move constructor leaves counts no object, so the old buffer of the
\* vector is destroyed without ending any.
LEMMA NothingDestroyedByMove == DestroyedByMove = {}
  BY DEF DestroyedByMove, CountedIn, Counted, MovedFrom

\* Counting one more object of a chunk adds the next slot of its storage.
LEMMA CountOneMore ==
    ASSUME NEW c \in Chunk
    PROVE  /\ [c EXCEPT !.used = @ + 1] \in Chunk
           /\ [c EXCEPT !.used = @ + 1].used = c.used + 1
           /\ [c EXCEPT !.used = @ + 1].num = c.num
           /\ [c EXCEPT !.used = @ + 1].storage = c.storage
           /\ Counted([c EXCEPT !.used = @ + 1]) = Counted(c) \cup {<<c.storage, c.used>>}
           /\ <<c.storage, c.used>> \notin Counted(c)
<1>1. /\ c.used \in Nat /\ c.num \in Nat /\ c.storage \in Storage
      /\ c = [used |-> c.used, num |-> c.num, storage |-> c.storage]
  BY DEF Chunk
<1>2. [c EXCEPT !.used = @ + 1] = [used |-> c.used + 1, num |-> c.num, storage |-> c.storage]
  BY <1>1
<1>3. 0 .. (c.used + 1) - 1 = (0 .. c.used - 1) \cup {c.used}
  BY <1>1
<1>4. c.used \notin 0 .. c.used - 1
  BY <1>1
<1> QED  BY <1>1, <1>2, <1>3, <1>4 DEF Chunk, Counted

\* An empty pool of one chunk.
LEMMA InitPool == PoolInit => PoolIInv
<1> SUFFICES ASSUME PoolInit PROVE PoolIInv
  OBVIOUS
<1>1. PICK s \in Storage : chunks = <<NewChunk(s, NewChunkSize)>>
  BY DEF PoolInit
<1>2. /\ NewChunk(s, NewChunkSize) \in Chunk
      /\ Len(chunks) = 1
      /\ DOMAIN chunks = {1}
      /\ chunks[1] = NewChunk(s, NewChunkSize)
  BY <1>1, NewChunkSizeAssumption DEF NewChunk, Chunk
<1>3. PoolTypeOK
  BY <1>1, <1>2 DEF PoolInit, PoolTypeOK
<1>4. CountedIn(chunks) = {}
  BY <1>2 DEF CountedIn, Counted, NewChunk
<1>5. CountersFollowObjects
  BY <1>2, <1>4, NewChunkSizeAssumption DEF PoolInit, CountersFollowObjects, NewChunk
<1>6. NodeIsTheLast
  BY <1>2 DEF PoolInit, NodeIsTheLast
<1> QED  BY <1>3, <1>5, <1>6 DEF PoolIInv

\* Both ways of making an object keep the invariant, add the object at an
\* address where none lives, and end no other.
LEMMA CreatePool ==
    ASSUME PoolIInv, NEW a \in Address, PoolCreate(a)
    PROVE  /\ PoolIInv'
           /\ a \notin alive
           /\ alive' = alive \cup {a}
<1> USE DEF PoolIInv, PoolTypeOK, CountersFollowObjects, NodeIsTheLast
<1>0. /\ Len(chunks) \in Nat \ {0}
      /\ DOMAIN chunks = 1 .. Len(chunks)
      /\ \A i \in DOMAIN chunks : chunks[i] \in Chunk
      /\ node.index = Len(chunks)
  BY LenProperties, EmptySeq, ElementOfSeq
<1>1. CASE CreateInNode(a)
  <2> DEFINE k == node.index
  <2>1. /\ k \in DOMAIN chunks
        /\ chunks[k] \in Chunk
        /\ chunks[k].used < chunks[k].num
        /\ a = <<chunks[k].storage, chunks[k].used>>
    BY <1>0, <1>1 DEF CreateInNode, HasRoom, Node, Chunk
  <2>2. /\ chunks' \in Seq(Chunk)
        /\ Len(chunks') = Len(chunks)
        /\ DOMAIN chunks' = DOMAIN chunks
        /\ chunks'[k] = [chunks[k] EXCEPT !.used = @ + 1]
        /\ \A i \in DOMAIN chunks \ {k} : chunks'[i] = chunks[i]
    <3>1. [chunks[k] EXCEPT !.used = @ + 1] \in Chunk
      BY <2>1, CountOneMore
    <3>2. chunks' = [chunks EXCEPT ![k] = [chunks[k] EXCEPT !.used = @ + 1]]
      BY <1>1 DEF CreateInNode
    <3> QED  BY <2>1, <3>1, <3>2, ExceptSeq
  <2>3. /\ chunks'[k].used = chunks[k].used + 1
        /\ chunks'[k].num = chunks[k].num
        /\ chunks'[k].storage = chunks[k].storage
    BY <2>1, <2>2, CountOneMore
  <2>4. Counted(chunks'[k]) = Counted(chunks[k]) \cup {a} /\ a \notin Counted(chunks[k])
    BY <2>1, <2>2, CountOneMore
  <2>5. CountedIn(chunks') = CountedIn(chunks) \cup {a}
    <3>1. k \in DOMAIN chunks /\ DOMAIN chunks' = DOMAIN chunks
      BY <2>1, <2>2
    <3>2. \A i \in DOMAIN chunks : i # k => chunks'[i] = chunks[i]
      BY <2>2
    <3>3. Counted(chunks'[k]) = Counted(chunks[k]) \cup {a}
      BY <2>4
    <3> HIDE DEF k
    <3>4. \A x : x \in CountedIn(chunks) <=> \E i \in DOMAIN chunks : x \in Counted(chunks[i])
      BY DEF CountedIn
    <3>5. \A x : x \in CountedIn(chunks') <=> \E i \in DOMAIN chunks' : x \in Counted(chunks'[i])
      BY DEF CountedIn
    <3> QED  BY <3>1, <3>2, <3>3, <3>4, <3>5
  <2>6. a \notin CountedIn(chunks)
    <3> SUFFICES ASSUME NEW i \in DOMAIN chunks, a \in Counted(chunks[i]) PROVE FALSE
      BY DEF CountedIn
    <3>1. chunks[i].storage = chunks[k].storage
      BY <2>1 DEF Counted
    <3> QED  BY <2>1, <2>4, <3>1
  <2>7. alive' = alive \cup {a} /\ a \notin alive
    BY <1>1, <2>6 DEF CreateInNode
  <2>8. PoolTypeOK'
    BY <1>0, <1>1, <2>2, <2>7 DEF CreateInNode
  <2>9. CountersFollowObjects'
    <3>1. chunks'[k].used <= chunks'[k].num
      BY <2>1, <2>3 DEF Chunk
    <3>2. \A i \in DOMAIN chunks : chunks'[i].used <= chunks'[i].num
      BY <2>2, <3>1
    <3>3. \A i \in DOMAIN chunks : chunks'[i].storage = chunks[i].storage
      BY <2>2, <2>3
    <3> QED  BY <2>2, <2>5, <2>7, <3>2, <3>3
  <2>10. NodeIsTheLast'
    BY <1>0, <1>1, <2>2 DEF CreateInNode, HasRoom
  <2> QED  BY <2>7, <2>8, <2>9, <2>10
<1>2. CASE CreateInNewChunk(a)
  <2> DEFINE n == Len(chunks) + 1
  <2>1. PICK s \in Storage \ Owned, moved \in BOOLEAN :
            /\ a = <<s, 0>>
            /\ chunks' = Append(chunks, [NewChunk(s, NewChunkSize) EXCEPT !.used = 1])
            /\ buffer' = (IF moved THEN 1 - buffer ELSE buffer)
            /\ alive' = (IF moved THEN alive \ DestroyedByMove ELSE alive) \cup {a}
            /\ node' = [buffer |-> buffer', index |-> n]
    BY <1>2 DEF CreateInNewChunk
  <2>2. PICK c \in Chunk : /\ c.used = 1 /\ c.num = NewChunkSize /\ c.storage = s
                          /\ chunks' = Append(chunks, c)
    BY <2>1, NewChunkSizeAssumption DEF NewChunk, Chunk
  <2>3. /\ chunks' \in Seq(Chunk) /\ chunks' # <<>>
        /\ Len(chunks') = n
        /\ DOMAIN chunks' = DOMAIN chunks \cup {n}
        /\ n \notin DOMAIN chunks
        /\ chunks'[n] = c
        /\ \A i \in DOMAIN chunks : chunks'[i] = chunks[i]
    BY <1>0, <2>1, <2>2, AppendProperties
  <2>4. Counted(c) = {a}
    BY <2>1, <2>2 DEF Counted
  <2>5. CountedIn(chunks') = CountedIn(chunks) \cup {a}
    BY <2>3, <2>4 DEF CountedIn
  <2>6. a \notin CountedIn(chunks)
    BY <2>1 DEF CountedIn, Counted, Owned
  <2>7. alive' = alive \cup {a} /\ a \notin alive
    BY <2>1, <2>6, NothingDestroyedByMove
  <2>8. buffer' \in {0, 1}
    BY <2>1
  <2>9. PoolTypeOK'
    BY <1>0, <2>1, <2>3, <2>7, <2>8
  <2>10. CountersFollowObjects'
    <3>1. \A i \in DOMAIN chunks' : chunks'[i].used <= chunks'[i].num
      <4>1. chunks'[n].used <= chunks'[n].num
        BY <2>2, <2>3, NewChunkSizeAssumption
      <4> QED  BY <2>3, <4>1
    <3>2. \A i \in DOMAIN chunks : chunks[i].storage # s
      BY DEF Owned
    <3>3. \A i, j \in DOMAIN chunks' : chunks'[i].storage = chunks'[j].storage => i = j
      <4>1. chunks'[n].storage = s
        BY <2>2, <2>3
      <4>2. \A i \in DOMAIN chunks : chunks'[i].storage # s
        BY <2>3, <3>2
      <4> QED  BY <2>3, <4>1, <4>2
    <3> QED  BY <2>5, <2>7, <3>1, <3>3
  <2>11. NodeIsTheLast'
    <3>1. \A i \in 1 .. Len(chunks) : ~HasRoom(chunks[i])
      BY <1>0, <1>2 DEF CreateInNewChunk, Node
    <3>2. \A i \in 1 .. Len(chunks') - 1 : ~HasRoom(chunks'[i])
      BY <1>0, <2>3, <3>1
    <3> QED  BY <2>1, <2>3, <3>2
  <2> QED  BY <2>7, <2>9, <2>10, <2>11
<1> QED  BY <1>1, <1>2 DEF PoolCreate

\* A release keeps the invariant and ends every object.
LEMMA ReleasePool ==
    ASSUME PoolIInv, PoolReleaseContents
    PROVE  PoolIInv' /\ alive' = {}
<1> USE DEF PoolIInv, PoolTypeOK, CountersFollowObjects, NodeIsTheLast
<1>0. /\ Len(chunks) \in Nat \ {0}
      /\ chunks[1] \in Chunk
  BY LenProperties, EmptySeq, ElementOfSeq
<1>1. alive' = {}
  BY DEF PoolReleaseContents, Squash, ReleaseRoot
<1>2. PICK c \in Chunk : c.used = 0 /\ chunks' = <<c>>
  <2>1. CASE Squash
    <3>1. TotalObjects \in Nat
      <4>1. \A x, y \in Nat : x * y \in Nat
        OBVIOUS
      <4>2. NewChunkSize * (Len(chunks) - 1) \in Nat
        <5> DEFINE m == Len(chunks) - 1
        <5>1. m \in Nat
          BY <1>0
        <5> HIDE DEF m
        <5>2. NewChunkSize * m \in Nat
          BY <4>1, <5>1, NewChunkSizeAssumption
        <5> QED  BY <5>2 DEF m
      <4>3. chunks[1].num \in Nat
        BY <1>0 DEF Chunk
      <4>4. \A x, y \in Nat : x + y \in Nat
        OBVIOUS
      <4> QED  BY <4>2, <4>3, <4>4, Zenon DEF TotalObjects
    <3>2. PICK s \in Storage : chunks' = <<NewChunk(s, TotalObjects)>>
      BY <2>1 DEF Squash
    <3> QED  BY <3>1, <3>2 DEF NewChunk, Chunk
  <2>2. CASE ReleaseRoot
    <3>1. [chunks[1] EXCEPT !.used = 0] \in Chunk
      BY <1>0 DEF Chunk
    <3>2. [chunks[1] EXCEPT !.used = 0].used = 0
      BY <1>0 DEF Chunk
    <3> QED  BY <2>2, <3>1, <3>2 DEF ReleaseRoot
  <2> QED  BY <2>1, <2>2 DEF PoolReleaseContents
<1>3. /\ chunks' \in Seq(Chunk) \ {<<>>}
      /\ Len(chunks') = 1
      /\ DOMAIN chunks' = {1}
      /\ chunks'[1] = c
  BY <1>2
<1>4. CountedIn(chunks') = {}
  BY <1>2, <1>3 DEF CountedIn, Counted
<1>5. buffer' \in {0, 1} /\ node' = [buffer |-> buffer', index |-> 1]
  BY DEF PoolReleaseContents
<1>6. PoolTypeOK'
  BY <1>1, <1>3, <1>5
<1>7. CountersFollowObjects'
  BY <1>1, <1>2, <1>3, <1>4 DEF Chunk
<1>8. NodeIsTheLast'
  BY <1>3, <1>5
<1> QED  BY <1>1, <1>6, <1>7, <1>8

\* A step of the pool keeps the invariant and is a step of the arena.
LEMMA NextPool ==
    ASSUME PoolIInv, [PoolNext]_poolVars
    PROVE  PoolIInv' /\ [ArenaOf!Next]_alive
<1>1. CASE \E a \in Address : PoolCreate(a)
  BY <1>1, CreatePool DEF ArenaOf!Next, ArenaOf!Create
<1>2. CASE PoolReleaseContents
  BY <1>2, ReleasePool DEF ArenaOf!Next, ArenaOf!ReleaseContents
<1>3. CASE UNCHANGED poolVars
  BY <1>3 DEF poolVars, PoolIInv, PoolTypeOK, CountersFollowObjects, NodeIsTheLast
<1> QED  BY <1>1, <1>2, <1>3 DEF PoolNext

\* The pool's counters stand for the living objects and node is the last chunk,
\* after any sequence of Create and ReleaseContents.
THEOREM PoolInvariant == PoolSpec => []PoolIInv
<1>1. PoolIInv /\ [PoolNext]_poolVars => PoolIInv'
  BY NextPool
<1> QED  BY InitPool, <1>1, PTL DEF PoolSpec

\* No object is created on another, moves, or ends before all do.
THEOREM PoolImplementsArena == PoolSpec => ImplementsArena
<1>1. PoolInit => ArenaOf!Init
  BY DEF PoolInit, ArenaOf!Init
<1>2. PoolIInv /\ [PoolNext]_poolVars => PoolIInv' /\ [ArenaOf!Next]_alive
  BY NextPool
<1> QED  BY <1>1, <1>2, InitPool, PTL DEF PoolSpec, ImplementsArena, ArenaOf!Spec

-----------------------------------------------------------------------------
(* How many objects live.                                                  *)

\* Every slot holds a living object but those node has left: the chunks before it are full.
SlotsCounted ==
    /\ IsFiniteSet(alive)
    /\ Cardinality(alive) + (Node.num - Node.used) = TotalObjects

\* The slots of the first chunk and of m others, one more of them, and none.
LEMMA Slots ==
    ASSUME NEW m \in Nat, NEW first \in Nat
    PROVE  /\ first + NewChunkSize * m \in Nat
           /\ first + NewChunkSize * (m + 1) = first + NewChunkSize * m + NewChunkSize
           /\ first + NewChunkSize * 0 = first
<1>1. \A x, y \in Nat : x * y \in Nat /\ x * (y + 1) = x * y + x /\ x * 0 = 0
  OBVIOUS
<1>2. NewChunkSize \in Nat
  BY NewChunkSizeAssumption
<1>3. /\ NewChunkSize * m \in Nat /\ NewChunkSize * (m + 1) = NewChunkSize * m + NewChunkSize
      /\ NewChunkSize * 0 = 0
  BY <1>1, <1>2
<1> DEFINE s == NewChunkSize * m
           t == NewChunkSize * (m + 1)
           z == NewChunkSize * 0
<1> HIDE DEF s, t, z
<1>4. s \in Nat /\ t = s + NewChunkSize /\ z = 0
  BY <1>3 DEF s, t, z
<1>5. first + s \in Nat /\ first + t = first + s + NewChunkSize /\ first + z = first
  BY <1>2, <1>4
<1> QED BY <1>5 DEF s, t, z

\* The facts about the chunks that counting needs.
LEMMA ChunksAre ==
    ASSUME PoolIInv
    PROVE  /\ Len(chunks) \in Nat \ {0} /\ DOMAIN chunks = 1 .. Len(chunks)
           /\ \A i \in 1 .. Len(chunks) : /\ chunks[i].used \in Nat /\ chunks[i].num \in Nat
                                          /\ chunks[i].used <= chunks[i].num
           /\ Node = chunks[Len(chunks)]
           /\ \A i \in 1 .. Len(chunks) - 1 : ~HasRoom(chunks[i])
<1> USE DEF PoolIInv, PoolTypeOK, CountersFollowObjects, NodeIsTheLast
<1>1. Len(chunks) \in Nat \ {0} /\ DOMAIN chunks = 1 .. Len(chunks)
  BY LenProperties, EmptySeq
<1>2. \A i \in 1 .. Len(chunks) : chunks[i] \in Chunk
  BY <1>1, ElementOfSeq
<1>3. Node = chunks[Len(chunks)]
  BY DEF Node
<1> QED BY <1>1, <1>2, <1>3 DEF Chunk

\* The total, as the code computes it.
LEMMA TotalIs ==
    ASSUME NEW m, m = Len(chunks) - 1
    PROVE  TotalObjects = chunks[1].num + NewChunkSize * m
BY DEF TotalObjects

LEMMA InitSlots == PoolInit => SlotsCounted
<1> SUFFICES ASSUME PoolInit PROVE SlotsCounted
  OBVIOUS
<1>1. PICK s \in Storage : chunks = <<NewChunk(s, NewChunkSize)>>
  BY DEF PoolInit
<1>2. /\ Len(chunks) = 1 /\ chunks[1].num = NewChunkSize /\ chunks[1].used = 0
      /\ Node = chunks[1] /\ alive = {}
  BY <1>1 DEF PoolInit, Node, NewChunk
<1>3. NewChunkSize \in Nat /\ 0 \in Nat
  BY NewChunkSizeAssumption
<1>4. 0 = Len(chunks) - 1
  BY <1>2
<1>5. TotalObjects = NewChunkSize + NewChunkSize * 0
  BY <1>2, <1>4, TotalIs
<1>6. TotalObjects = NewChunkSize
  BY <1>3, <1>5, Slots
<1>7. IsFiniteSet(alive) /\ Cardinality(alive) = 0
  BY <1>2, FS_EmptySet
<1> QED BY <1>2, <1>3, <1>6, <1>7 DEF SlotsCounted

\* An object takes one slot, of the chunk node points to or of a new one.
LEMMA CreateSlots ==
    ASSUME PoolIInv, SlotsCounted, NEW a \in Address, PoolCreate(a)
    PROVE  SlotsCounted'
<1> DEFINE n == Len(chunks)
           m == n - 1
           c == chunks[n]
<1>1. /\ n \in Nat \ {0} /\ DOMAIN chunks = 1 .. n /\ Node = c /\ chunks \in Seq(Chunk)
      /\ c \in Chunk
      /\ chunks[1].num \in Nat /\ c.used \in Nat /\ c.num \in Nat /\ c.used <= c.num
  <2>1. chunks \in Seq(Chunk)
    BY DEF PoolIInv, PoolTypeOK
  <2> QED BY <2>1, ChunksAre, ElementOfSeq
<1>2. PoolIInv' /\ a \notin alive /\ alive' = alive \cup {a}
  BY CreatePool
<1>3. /\ IsFiniteSet(alive') /\ Cardinality(alive') = Cardinality(alive) + 1
      /\ Cardinality(alive) \in Nat
  BY <1>2, FS_AddElement, FS_CardinalityType DEF SlotsCounted
<1>4. m \in Nat /\ TotalObjects = chunks[1].num + NewChunkSize * m /\ TotalObjects \in Nat
  <2>1. m \in Nat
    BY <1>1
  <2>2. TotalObjects = chunks[1].num + NewChunkSize * m
    BY TotalIs
  <2> HIDE DEF m
  <2>3. chunks[1].num + NewChunkSize * m \in Nat
    BY <1>1, <2>1, Slots
  <2> QED BY <2>1, <2>2, <2>3
<1>5. Cardinality(alive) + (c.num - c.used) = TotalObjects
  BY <1>1 DEF SlotsCounted
<1> HIDE DEF n, m
<1>6. CASE CreateInNode(a)
  <2>1. node.index = n
    BY DEF PoolIInv, NodeIsTheLast, n
  <2>2. chunks' = [chunks EXCEPT ![n] = [c EXCEPT !.used = @ + 1]]
    BY <1>6, <2>1 DEF CreateInNode
  <2>3. /\ [c EXCEPT !.used = @ + 1] \in Chunk
        /\ [c EXCEPT !.used = @ + 1].used = c.used + 1 /\ [c EXCEPT !.used = @ + 1].num = c.num
    BY <1>1, CountOneMore
  <2> DEFINE d == [c EXCEPT !.used = @ + 1]
  <2> HIDE DEF d, c
  <2>4. n \in 1 .. n /\ 1 \in 1 .. n
    BY <1>1
  <2>5. Len(chunks') = n /\ chunks'[n] = d /\ \A i \in 1 .. n \ {n} : chunks'[i] = chunks[i]
    BY <1>1, <2>2, <2>3, <2>4, ExceptSeq DEF d, n
  <2>6. chunks'[1].num = chunks[1].num
    BY <2>3, <2>4, <2>5 DEF c, d
  <2>7. TotalObjects' = TotalObjects
    BY <2>5, <2>6 DEF TotalObjects, n
  <2>8. Node' = d
    BY <1>2, <2>5, ChunksAre DEF Node, PoolIInv, NodeIsTheLast
  <2>9. d.num = c.num /\ d.used = c.used + 1
    BY <2>3 DEF d
  <2>10. Cardinality(alive') + (Node'.num - Node'.used) = TotalObjects'
    <3> DEFINE w == Cardinality(alive)
               t == TotalObjects
    <3>1. w \in Nat /\ c.num \in Nat /\ c.used \in Nat /\ w + (c.num - c.used) = t
      BY <1>1, <1>3, <1>5
    <3>2. /\ Cardinality(alive') = w + 1 /\ TotalObjects' = t
          /\ Node'.num = c.num /\ Node'.used = c.used + 1
      BY <1>3, <2>7, <2>8, <2>9
    <3> HIDE DEF w, t
    <3>3. (w + 1) + (c.num - (c.used + 1)) = t
      BY ONLY <3>1
    <3> QED BY ONLY <3>2, <3>3
  <2> QED BY <1>3, <2>10 DEF SlotsCounted
<1>7. CASE CreateInNewChunk(a)
  <2>1. PICK s \in Storage : chunks' = Append(chunks, [NewChunk(s, NewChunkSize) EXCEPT !.used = 1])
    BY <1>7 DEF CreateInNewChunk
  <2> DEFINE d == [NewChunk(s, NewChunkSize) EXCEPT !.used = 1]
  <2>2. d.used = 1 /\ d.num = NewChunkSize /\ d \in Chunk
    BY NewChunkSizeAssumption DEF NewChunk, Chunk
  <2> HIDE DEF d
  <2>3. Len(chunks') = n + 1 /\ chunks'[n + 1] = d /\ chunks'[1] = chunks[1]
    BY <1>1, <2>1, <2>2, AppendProperties DEF d, n
  <2>4. TotalObjects' = chunks[1].num + NewChunkSize * (m + 1)
    <3>1. Len(chunks') - 1 = m + 1
      BY <1>1, <2>3 DEF m
    <3>2. TotalObjects' = chunks'[1].num + NewChunkSize * (Len(chunks') - 1)
      BY DEF TotalObjects
    <3> QED BY <2>3, <3>1, <3>2
  <2>5. TotalObjects' = TotalObjects + NewChunkSize
    BY <1>1, <1>4, <2>4, Slots
  <2>6. Node' = d
    <3>1. node'.index = Len(chunks')
      BY <1>2 DEF PoolIInv, NodeIsTheLast
    <3> QED BY <2>3, <3>1 DEF Node
  <2>7. c.used = c.num
    BY <1>1, <1>7 DEF CreateInNewChunk, HasRoom
  <2>8. NewChunkSize \in Nat
    BY NewChunkSizeAssumption
  <2> HIDE DEF c
  <2>9. Cardinality(alive') + (Node'.num - Node'.used) = TotalObjects'
    BY <1>1, <1>3, <1>4, <1>5, <2>2, <2>5, <2>6, <2>7, <2>8
  <2> QED BY <1>3, <2>9 DEF SlotsCounted
<1> QED BY <1>6, <1>7 DEF PoolCreate

\* The chunk that is left has all the slots there were, or it is the only one there was.
LEMMA ReleaseSlots ==
    ASSUME PoolIInv, SlotsCounted, PoolReleaseContents
    PROVE  SlotsCounted' /\ Cardinality(alive) <= chunks'[1].num
<1> DEFINE n == Len(chunks)
<1>1. /\ n \in Nat \ {0} /\ Node = chunks[n] /\ chunks[1].num \in Nat /\ chunks[n].used \in Nat
      /\ chunks[n].num \in Nat /\ chunks[n].used <= chunks[n].num
      /\ \A i \in 1 .. n - 1 : ~HasRoom(chunks[i])
  BY ChunksAre
<1>2. PoolIInv' /\ alive' = {}
  BY ReleasePool
<1>3. IsFiniteSet(alive') /\ Cardinality(alive') = 0
  BY <1>2, FS_EmptySet
<1>4. TotalObjects = chunks[1].num + NewChunkSize * (n - 1) /\ TotalObjects \in Nat
  <2> DEFINE m == n - 1
  <2>1. m \in Nat
    BY <1>1
  <2>2. TotalObjects = chunks[1].num + NewChunkSize * m
    BY TotalIs
  <2> HIDE DEF m
  <2>3. chunks[1].num + NewChunkSize * m \in Nat
    BY <1>1, <2>1, Slots
  <2> QED BY <2>2, <2>3 DEF m
<1>5. Cardinality(alive) \in Nat /\ Cardinality(alive) + (chunks[n].num - chunks[n].used) = TotalObjects
  BY <1>1, FS_CardinalityType DEF SlotsCounted
<1>6. Cardinality(alive) <= TotalObjects
  BY <1>1, <1>4, <1>5
<1>7. Len(chunks') = 1 /\ chunks'[1].num = TotalObjects /\ chunks'[1].used = 0
  <2>1. CASE Squash
    BY <2>1 DEF Squash, NewChunk
  <2>2. CASE ReleaseRoot
    <3>1. n = 1
      <4>1. n > 1 => 1 \in 1 .. n - 1
        BY <1>1
      <4>2. HasRoom(chunks[1])
        BY <2>2 DEF ReleaseRoot
      <4> HIDE DEF n
      <4> QED BY <1>1, <4>1, <4>2
    <3>2. TotalObjects = chunks[1].num
      <4>1. 0 = Len(chunks) - 1
        BY <3>1 DEF n
      <4>2. TotalObjects = chunks[1].num + NewChunkSize * 0
        BY <4>1, TotalIs
      <4> QED BY <1>1, <4>2, Slots
    <3>3. [chunks[1] EXCEPT !.used = 0].num = chunks[1].num /\ [chunks[1] EXCEPT !.used = 0].used = 0
      <4>1. chunks[1] \in Chunk
        BY ElementOfSeq, LenProperties, <3>1 DEF PoolIInv, PoolTypeOK, n
      <4> QED BY <4>1 DEF Chunk
    <3>4. chunks' = <<[chunks[1] EXCEPT !.used = 0]>>
      BY <2>2 DEF ReleaseRoot
    <3> QED BY <3>2, <3>3, <3>4
  <2> QED BY <2>1, <2>2 DEF PoolReleaseContents
<1> HIDE DEF n
<1>8. TotalObjects' = chunks'[1].num
  <2>1. TotalObjects' = chunks'[1].num + NewChunkSize * (Len(chunks') - 1)
    BY DEF TotalObjects
  <2>2. Len(chunks') - 1 = 0
    BY <1>7
  <2>3. TotalObjects' = chunks'[1].num + NewChunkSize * 0
    BY <2>1, <2>2
  <2>4. chunks'[1].num \in Nat
    BY <1>4, <1>7
  <2> QED BY <2>3, <2>4, Slots
<1>9. Node' = chunks'[1]
  <2>1. node'.index = Len(chunks')
    BY <1>2 DEF PoolIInv, NodeIsTheLast
  <2> QED BY <1>7, <2>1 DEF Node
<1>10. Cardinality(alive') + (Node'.num - Node'.used) = TotalObjects'
  BY <1>3, <1>4, <1>7, <1>8, <1>9
<1> QED BY <1>3, <1>6, <1>7, <1>10 DEF SlotsCounted

\* "squash allocations into it": the chunk that is left after a release would hold all the
\* objects that lived, however often the pool has grown and been released before.
THEOREM ReleaseLosesNoRoom == PoolSpec => SquashHoldsAll
<1> DEFINE Holds == PoolReleaseContents => Cardinality(alive) <= chunks'[1].num
<1>1. PoolIInv /\ SlotsCounted /\ [PoolNext]_poolVars => SlotsCounted' /\ [Holds]_poolVars
  <2> SUFFICES ASSUME PoolIInv, SlotsCounted, [PoolNext]_poolVars
               PROVE  SlotsCounted' /\ [Holds]_poolVars
    OBVIOUS
  <2>1. Holds
    BY ReleaseSlots
  <2>2. CASE \E a \in Address : PoolCreate(a)
    BY <2>1, <2>2, CreateSlots
  <2>3. CASE PoolReleaseContents
    BY <2>1, <2>3, ReleaseSlots
  <2>4. CASE UNCHANGED poolVars
    BY <2>1, <2>4 DEF poolVars, SlotsCounted, Node, TotalObjects
  <2> QED BY <2>2, <2>3, <2>4 DEF PoolNext
<1> QED BY <1>1, InitSlots, PoolInvariant, PTL DEF PoolSpec, SquashHoldsAll

-----------------------------------------------------------------------------
\* Only living blocks have edges, whatever is created, connected and released
\* while the chunks move.
THEOREM EdgesStayValid == BlockSpec => []PointersStayValid
<1> DEFINE Inv == TypeOK /\ PoolIInv /\ PointersStayValid
<1>1. BlockInit => Inv
  <2>1. PoolInit /\ Init => PointersStayValid
    BY DEF Init, PointersStayValid, Elems
  <2>2. Init => TypeOK
    BY EmptySeq DEF Init, TypeOK
  <2> QED  BY <2>1, <2>2, InitPool DEF BlockInit
<1>2. Inv /\ [BlockNext]_blockVars => Inv'
  <2> SUFFICES ASSUME Inv, [BlockNext]_blockVars PROVE Inv'
    OBVIOUS
  <2>1. CASE \E a \in Block \cap Address : CreateBlock(a)
    <3>1. PICK a \in Address : PoolCreate(a) /\ UNCHANGED vars
      BY <2>1 DEF CreateBlock
    <3>2. PoolIInv' /\ alive \subseteq alive'
      BY <3>1, CreatePool
    <3>3. /\ imm_successors' = imm_successors /\ imm_predecessors' = imm_predecessors
          /\ thrown' = thrown
      BY <3>1 DEF vars
    <3>4. TypeOK'
      BY <3>3 DEF TypeOK
    <3>5. PointersStayValid'
      BY <3>2, <3>3 DEF PointersStayValid, Elems
    <3> QED  BY <3>2, <3>4, <3>5
  <2>2. CASE \E b, c \in Block : Connect(b, c)
    <3>1. PICK b \in Block, c \in Block : Connect(b, c)
      BY <2>2
    <3>2. alive' = alive /\ PoolIInv'
      BY <3>1, NextPool DEF Connect, poolVars
    <3>3. b \in alive /\ c \in alive
      BY <3>1 DEF Connect
    <3>4. CASE imm_successors' = imm_successors /\ imm_predecessors' = imm_predecessors
      <4>1. TypeOK'
        BY <3>1, <3>4 DEF Connect, AddBranch, SuccessorAlreadyInserted, InsertOrThrow, TypeOK
      <4> QED  BY <3>2, <3>4, <4>1 DEF PointersStayValid, Elems
    <3>5. CASE /\ imm_successors' = [imm_successors EXCEPT ![b] = Append(@, c)]
               /\ imm_predecessors' = [imm_predecessors EXCEPT ![c] = Append(@, b)]
               /\ thrown' = thrown
      <4>1. /\ imm_successors[b] \in Seq(Block)
            /\ imm_predecessors[c] \in Seq(Block)
        BY DEF TypeOK
      <4>2. /\ Append(imm_successors[b], c) \in Seq(Block)
            /\ Append(imm_predecessors[c], b) \in Seq(Block)
            /\ Elems(Append(imm_successors[b], c)) = Elems(imm_successors[b]) \cup {c}
            /\ Elems(Append(imm_predecessors[c], b)) = Elems(imm_predecessors[c]) \cup {b}
        BY <4>1, AppendNew
      <4>3. TypeOK'
        BY <3>5, <4>2 DEF TypeOK
      <4>4. PointersStayValid'
        <5> SUFFICES ASSUME NEW x \in Block
                     PROVE  /\ imm_successors'[x] # <<>> \/ imm_predecessors'[x] # <<>> => x \in alive
                            /\ Elems(imm_successors'[x]) \subseteq alive
                            /\ Elems(imm_predecessors'[x]) \subseteq alive
          BY <3>2 DEF PointersStayValid
        <5>1. imm_successors'[x] = imm_successors[x] \/ x = b
          BY <3>5 DEF TypeOK
        <5>2. imm_predecessors'[x] = imm_predecessors[x] \/ x = c
          BY <3>5 DEF TypeOK
        <5>3. /\ Elems(imm_successors'[x]) \subseteq Elems(imm_successors[x]) \cup {c}
              /\ Elems(imm_predecessors'[x]) \subseteq Elems(imm_predecessors[x]) \cup {b}
          BY <3>5, <4>2 DEF TypeOK
        <5> QED  BY <3>3, <5>1, <5>2, <5>3 DEF PointersStayValid
      <4> QED  BY <3>2, <4>3, <4>4
    <3> QED  BY <3>1, <3>4, <3>5 DEF Connect, AddBranch, SuccessorAlreadyInserted, InsertOrThrow
  <2>3. CASE ReleaseBlocks
    <3>1. PoolIInv' /\ alive' = {}
      BY <2>3, ReleasePool DEF ReleaseBlocks
    <3>2. /\ imm_successors' = [b \in Block |-> <<>>]
          /\ imm_predecessors' = [b \in Block |-> <<>>]
          /\ thrown' = thrown
      BY <2>3, <3>1 DEF ReleaseBlocks
    <3>3. TypeOK'
      BY <3>2, EmptySeq DEF TypeOK
    <3>4. PointersStayValid'
      BY <3>2 DEF PointersStayValid, Elems
    <3> QED  BY <3>1, <3>3, <3>4
  <2>4. CASE UNCHANGED blockVars
    <3>1. PoolIInv' /\ alive' = alive
      BY <2>4, NextPool DEF blockVars, poolVars
    <3>2. /\ imm_successors' = imm_successors /\ imm_predecessors' = imm_predecessors
          /\ thrown' = thrown
      BY <2>4 DEF blockVars, vars
    <3>3. TypeOK'
      BY <3>2 DEF TypeOK
    <3>4. PointersStayValid'
      BY <3>1, <3>2 DEF PointersStayValid, Elems
    <3> QED  BY <3>1, <3>3, <3>4
  <2>5. Ended => UNCHANGED blockVars
    BY DEF Ended, Terminated, blockVars
  <2> QED  BY <2>1, <2>2, <2>3, <2>4, <2>5 DEF BlockNext
<1> QED  BY <1>1, <1>2, PTL DEF BlockSpec
=============================================================================
