------------------------------- MODULE ObjectPool -------------------------------
(***************************************************************************)
(* ObjectPool<T>: objects are constructed one after another in the chunks  *)
(* of a vector.  A chunk owns an array (its storage) and counts the        *)
(* objects in it: the count decides which destructors run.  Pointers to    *)
(* the objects are kept everywhere (edges of blocks, arguments of          *)
(* instructions), while the vector may move its chunks to a new buffer     *)
(* whenever it grows; node points to a chunk in that buffer.               *)
(* The ghost alive follows the constructors and destructors that run.      *)
(***************************************************************************)
EXTENDS Naturals, Sequences, FiniteSets

CONSTANTS
    Storage,        \* the arrays the allocator can hand out
    NoStorage,      \* a null unique_ptr
    NewChunkSize,   \* new_chunk_size
    MaxSlots        \* bound on the slots of all the chunks together

ASSUME NoStorageAssumption == NoStorage \notin Storage
ASSUME NewChunkSizeAssumption == NewChunkSize \in Nat \ {0}

VARIABLES
    chunks,     \* sequence of [used, num, storage]
    buffer,     \* which buffer holds the elements of the vector
    node,       \* [buffer, index]: a pointer to a chunk
    alive       \* ghost: addresses of the objects constructed and not destroyed

poolVars == <<chunks, buffer, node, alive>>

Address == Storage \X Nat
Chunk == [used : Nat, num : Nat, storage : Storage]

\* Chunk(size): make_unique<Storage[]> constructs no object.
NewChunk(s, size) == [used |-> 0, num |-> size, storage |-> s]

\* What the move constructor leaves in the old buffer: the counters are
\* exchanged for 0.  Mutant: they are copied, as a defaulted constructor would.
MovedFromCounted(c) == c
MovedFrom(c) == [used |-> 0, num |-> 0, storage |-> NoStorage]

\* The objects destroy_n ends: the first used_objects of the storage.
Counted(c) == {<<c.storage, k>> : k \in 0 .. c.used - 1}
CountedIn(cs) == UNION {Counted(cs[i]) : i \in DOMAIN cs}

\* Mutant: one object more than the storage has room for.
HasOneMore(c) == c.used <= c.num
HasRoom(c) == c.used # c.num

Node == chunks[node.index]
Owned == {chunks[i].storage : i \in DOMAIN chunks}

\* Mutant: chunks after the second are forgotten.
TwoChunks == chunks[1].num + (IF Len(chunks) > 1 THEN NewChunkSize ELSE 0)
TotalObjects == chunks[1].num + NewChunkSize * (Len(chunks) - 1)

PoolInit ==
    \E s \in Storage :
        /\ chunks = <<NewChunk(s, NewChunkSize)>>
        /\ buffer = 0
        /\ node = [buffer |-> 0, index |-> 1]
        /\ alive = {}

\* Create, when node has room.
CreateInNode(a) ==
    /\ HasRoom(Node)
    /\ a = <<Node.storage, Node.used>>
    /\ chunks' = [chunks EXCEPT ![node.index].used = @ + 1]
    /\ alive' = alive \cup {a}
    /\ UNCHANGED <<buffer, node>>

\* emplace_back: the vector moves its chunks to a new buffer, or has room.
\* Destroying the old buffer runs the destructors of what was moved from.
DestroyedByMove == CountedIn([i \in DOMAIN chunks |-> MovedFrom(chunks[i])])

\* Mutant: node is not set.
CreateInUnsetChunk(a) ==
    /\ ~HasRoom(Node)
    /\ TotalObjects + NewChunkSize <= MaxSlots
    /\ \E s \in Storage \ Owned, moved \in BOOLEAN :
        /\ a = <<s, 0>>
        /\ chunks' = Append(chunks, [NewChunk(s, NewChunkSize) EXCEPT !.used = 1])
        /\ buffer' = IF moved THEN 1 - buffer ELSE buffer
        /\ alive' = (IF moved THEN alive \ DestroyedByMove ELSE alive) \cup {a}
        /\ node' = node

\* Create, when FreeChunk needs a new chunk.
CreateInNewChunk(a) ==
    /\ ~HasRoom(Node)
    /\ TotalObjects + NewChunkSize <= MaxSlots
    /\ \E s \in Storage \ Owned, moved \in BOOLEAN :
        /\ a = <<s, 0>>
        /\ chunks' = Append(chunks, [NewChunk(s, NewChunkSize) EXCEPT !.used = 1])
        /\ buffer' = IF moved THEN 1 - buffer ELSE buffer
        /\ alive' = (IF moved THEN alive \ DestroyedByMove ELSE alive) \cup {a}
        /\ node' = [buffer |-> buffer', index |-> Len(chunks) + 1]

PoolCreate(a) == CreateInNode(a) \/ CreateInNewChunk(a)

\* The root is full: clear() and one chunk as large as all of them.
Squash ==
    /\ ~HasRoom(chunks[1])
    /\ \E s \in Storage : chunks' = <<NewChunk(s, TotalObjects)>>
    /\ alive' = alive \ CountedIn(chunks)

\* The root has room: Release() and resize(1).
ReleaseRoot ==
    /\ HasRoom(chunks[1])
    /\ chunks' = <<[chunks[1] EXCEPT !.used = 0]>>
    /\ alive' = alive \ CountedIn(chunks)

\* shrink_to_fit may move the chunk that is left.
PoolReleaseContents ==
    /\ Squash \/ ReleaseRoot
    /\ buffer' \in {0, 1}
    /\ node' = [buffer |-> buffer', index |-> 1]

PoolNext == (\E a \in Address : PoolCreate(a)) \/ PoolReleaseContents

PoolSpec == PoolInit /\ [][PoolNext]_poolVars

-----------------------------------------------------------------------------
PoolTypeOK ==
    /\ chunks \in Seq(Chunk) \ {<<>>}
    /\ buffer \in {0, 1}
    /\ node \in [buffer : {0, 1}, index : DOMAIN chunks]
    /\ alive \in SUBSET Address

\* The objects the counters stand for are exactly the living ones, in storage
\* the chunks own: whoever destroys the chunks ends each object once.
CountersFollowObjects ==
    /\ alive = CountedIn(chunks)
    /\ \A i \in DOMAIN chunks : chunks[i].used <= chunks[i].num
    /\ \A i, j \in DOMAIN chunks : chunks[i].storage = chunks[j].storage => i = j

\* node is the last element of the buffer the vector uses now, and every chunk
\* before it is full: no slot is wasted and none is used twice.
NodeIsTheLast ==
    /\ node = [buffer |-> buffer, index |-> Len(chunks)]
    /\ \A i \in 1 .. Len(chunks) - 1 : ~HasRoom(chunks[i])

\* The three together are inductive.
PoolIInv == PoolTypeOK /\ CountersFollowObjects /\ NodeIsTheLast

\* "squash allocations into it": after a release, the objects that lived would
\* fit in the chunk that is left.
SquashHoldsAll ==
    [][PoolReleaseContents => Cardinality(alive) <= chunks'[1].num]_poolVars

\* Objects are created where none lives, stay there, and end together.
ArenaOf == INSTANCE Arena WITH objects <- alive
ImplementsArena == ArenaOf!Spec
=============================================================================
