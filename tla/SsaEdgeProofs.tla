----------------------------- MODULE SsaEdgeProofs -----------------------------
(***************************************************************************)
(* What the lists of the blocks hold, for every program the SSA passes are *)
(* given.  EdgeInv: every phi has one operand for each predecessor of its  *)
(* block, or is one that is still being completed.  ListInv: what was not  *)
(* replaced is in a list, and behind the second pass no argument names     *)
(* what was.                                                               *)
(***************************************************************************)
EXTENDS SsaRewriteProofs

-----------------------------------------------------------------------------
(* Lists, phis and edges                                                   *)

\* An instruction is in one list and there once.
OnePlace(lists) ==
    /\ \A b \in Blocks : Once(lists[b])
    /\ \A b, c \in Blocks : \A j : Contains(lists[b], j) /\ Contains(lists[c], j) => b = c

\* The phis of a list come first.
PhisLead(in, lists) == \A b \in Blocks : PhisFirst(in, lists[b])

\* Blocks are sealed in their order; the operand that is read is for the first
\* incomplete phi of the block.
SealsInOrder ==
    /\ \A k \in DOMAIN program.order :
            phase # "rewrite" \/ k < cursor => program.order[k] \in ssa_sealed
    /\ sealing # 0 => current = 0 /\ sealing - 1 <= Len(Preds(Block))
    /\ sealing # 0 /\ read # 0 => read = Lowest(Incomplete(Block))
    /\ sealing = 0 /\ read # 0 => inst[current].op = "Get"

\* The predecessors whose value an incomplete phi has.
Received(b, v) ==
    IF sealing # 0 /\ b = Block /\ v = Lowest(Incomplete(b)) THEN SubSeq(Preds(b), 1, sealing - 1)
    ELSE <<>>

\* An incomplete phi is the definition of its variable in a block that is not
\* sealed.
IncompleteOK(in) ==
    \A b \in Blocks, v \in Variable :
        incomplete_phis[b][v] # 0 =>
            /\ b \notin ssa_sealed
            /\ current_def[b][v] # Empty
            /\ in[incomplete_phis[b][v]].preds = Received(b, v)
            /\ \A w \in Variable : incomplete_phis[b][w] = incomplete_phis[b][v] => w = v

\* The phis that are being made: block, phi and the operand that is next.
Making ==
    {<<stack[k].block, stack[k].phi, stack[k].pred>> :
        k \in {m \in DOMAIN stack : stack[m].pc = "PushPhiArgument"}}

\* A phi that is being made has an operand for each predecessor already read.
MakingOK(in, making) ==
    \A m \in making :
        /\ m[1] \in ssa_sealed
        /\ in[m[2]].op = "Phi"
        /\ in[m[2]].preds = SubSeq(Preds(m[1]), 1, m[3] - 1)

\* Every other phi has all its operands.
PredsOK(in, lists, making) ==
    \A b \in Blocks : \A j :
        Contains(lists[b], j) /\ in[j].op = "Phi" =>
            \/ in[j].preds = Preds(b)
            \/ \E v \in Variable : incomplete_phis[b][v] = j
            \/ \E m \in making : m[1] = b /\ m[2] = j

\* What is erased was replaced.
ErasedOK(in) == \A k \in DOMAIN to_invalidate : in[to_invalidate[k]].op \in {"Identity", "Void"}

EdgeInv ==
    /\ OnePlace(instructions) /\ PhisLead(inst, instructions)
    /\ SealsInOrder /\ IncompleteOK(inst)
    /\ MakingOK(inst, Making) /\ PredsOK(inst, instructions, Making)
    /\ ErasedOK(inst)

\* What is in the lists is in the pool.
LEMMA ListedInPool ==
    ASSUME NEW D, NEW list \in Seq(D), NEW j, Contains(list, j)
    PROVE  j \in D
BY ElementOfSeq DEF Contains

\* One list changes: it may lose instructions and get new ones.
LEMMA ListsMoved ==
    ASSUME NEW in, NEW lists, NEW out, NEW moved, NEW b \in Blocks,
           OnePlace(lists), PhisLead(in, lists),
           \A c \in Blocks : lists[c] \in Seq(DOMAIN in),
           \A c \in Blocks : c # b => moved[c] = lists[c],
           \A j : Contains(moved[b], j) => Contains(lists[b], j) \/ j \notin DOMAIN in,
           Once(moved[b]), PhisFirst(out, moved[b]),
           \A c \in Blocks : c # b =>
                \A j : Contains(lists[c], j) => (out[j].op = "Phi" <=> in[j].op = "Phi")
    PROVE  OnePlace(moved) /\ PhisLead(out, moved)
<1>1. \A c \in Blocks : Once(moved[c])
  BY DEF OnePlace
<1>2. \A c, d \in Blocks : \A j : Contains(moved[c], j) /\ Contains(moved[d], j) => c = d
  <2>1. \A c \in Blocks : \A j : Contains(lists[c], j) => j \in DOMAIN in
    BY ListedInPool
  <2> QED BY <2>1 DEF OnePlace
<1>3. ASSUME NEW c \in Blocks, c # b
      PROVE  PhisFirst(out, moved[c])
  <2>1. moved[c] = lists[c]
    BY <1>3
  <2>2. PICK n \in Nat \ {0} : PhisBefore(in, lists[c], n)
    BY <1>3 DEF PhisLead, PhisFirst
  <2>3. \A m \in DOMAIN lists[c] : Contains(lists[c], lists[c][m])
    BY LenProperties DEF Contains
  <2>4. \A j : Contains(lists[c], j) => (out[j].op = "Phi" <=> in[j].op = "Phi")
    BY <1>3
  <2>5. \A m \in DOMAIN lists[c] : m < n <=> in[lists[c][m]].op = "Phi"
    BY <2>2 DEF PhisBefore
  <2>6. \A m \in DOMAIN lists[c] : m < n <=> out[lists[c][m]].op = "Phi"
    BY <2>3, <2>4, <2>5
  <2> QED BY <2>1, <2>6 DEF PhisFirst, PhisBefore
<1> QED BY <1>1, <1>2, <1>3 DEF OnePlace, PhisLead

\* No list changes and phis stay phis.
LEMMA ListsStay ==
    ASSUME IInv, PhisLead(inst, instructions), NEW out,
           \A j \in DOMAIN inst : out[j].op = "Phi" <=> inst[j].op = "Phi"
    PROVE  PhisLead(out, instructions)
<1> SUFFICES ASSUME NEW c \in Blocks
             PROVE  PhisFirst(out, instructions[c])
  BY DEF PhisLead
<1>1. PICK n \in Nat \ {0} : PhisBefore(inst, instructions[c], n)
  BY DEF PhisLead, PhisFirst
<1>2. instructions[c] \in Seq(DOMAIN inst)
  BY AtFacts DEF IInv
<1>3. \A m \in DOMAIN instructions[c] : instructions[c][m] \in DOMAIN inst
  BY <1>2, ElementOfSeq, LenProperties
<1> QED BY <1>1, <1>3 DEF PhisFirst, PhisBefore

\* Nothing is being made while no variable is read, nor when a read starts.
LEMMA NothingMade ==
    ASSUME \A k \in DOMAIN stack : stack[k].pc # "PushPhiArgument"
    PROVE  Making = {}
BY DEF Making

\* So it is while no variable is read, and when the read has its result.
LEMMA NoReadNothingMade ==
    ASSUME StackOK, read = 0 \/ Len(stack) = 1
    PROVE  Making = {}
<1>1. \A k \in DOMAIN stack : stack[k].pc # "PushPhiArgument"
  <2>1. CASE read = 0
    BY <2>1 DEF StackOK
  <2>2. CASE Len(stack) = 1
    <3>1. stack # <<>> /\ \A k \in DOMAIN stack : k = 1
      BY <2>2
    <3> QED BY <3>1 DEF StackOK
  <2> QED BY <2>1, <2>2
<1> QED BY <1>1, NothingMade

\* A step that changes no instruction, no list and no incomplete phi.
LEMMA IdleEdges ==
    ASSUME IInv, EdgeInv, read = 0, Making' = {}, SealsInOrder',
           UNCHANGED <<program, inst, instructions, incomplete_phis, to_invalidate>>,
           \A b \in Blocks, v \in Variable :
                incomplete_phis[b][v] # 0 =>
                    /\ b \notin ssa_sealed'
                    /\ current_def'[b][v] # Empty
                    /\ Received(b, v)' = Received(b, v)
    PROVE  EdgeInv'
<1>1. Blocks' = Blocks /\ program' = program
  BY DEF Blocks
<1>2. OnePlace(instructions)' /\ PhisLead(inst, instructions)'
  BY <1>1 DEF EdgeInv, OnePlace, PhisLead
<1>3. IncompleteOK(inst)'
  BY <1>1 DEF EdgeInv, IncompleteOK
<1>4. MakingOK(inst, Making)'
  BY DEF MakingOK
<1>5. PredsOK(inst, instructions, Making)'
  <2>1. Making = {}
    BY NoReadNothingMade DEF IInv
  <2>2. PredsOK(inst, instructions, {})
    BY <2>1 DEF EdgeInv
  <2>3. Making' = {}
    OBVIOUS
  <2> QED BY <1>1, <2>2, <2>3 DEF PredsOK, Preds
<1>6. ErasedOK(inst)'
  BY DEF EdgeInv, ErasedOK
<1> QED BY <1>2, <1>3, <1>4, <1>5, <1>6 DEF EdgeInv

\* What an incomplete phi has received depends on the operand that is next.
LEMMA ReceivedSame ==
    ASSUME NEW b, NEW v,
           UNCHANGED <<program, incomplete_phis, cursor>>,
           sealing' = sealing \/ {sealing', sealing} \subseteq {0, 1}
    PROVE  Received(b, v)' = Received(b, v)
<1>1. Block' = Block /\ Incomplete(b)' = Incomplete(b) /\ Preds(b)' = Preds(b)
  BY DEF Block, Incomplete, Preds
<1>2. CASE sealing' = sealing
  BY <1>1, <1>2 DEF Received
<1>3. CASE {sealing', sealing} \subseteq {0, 1}
  <2>1. SubSeq(Preds(b), 1, 0) = <<>>
    OBVIOUS
  <2>2. sealing = 1 => sealing - 1 = 0
    OBVIOUS
  <2>3. sealing' = 1 => sealing' - 1 = 0
    OBVIOUS
  <2>4. Received(b, v) = <<>>
    BY <1>3, <2>1, <2>2 DEF Received
  <2>5. Received(b, v)' = <<>>
    BY <1>1, <1>3, <2>1, <2>3 DEF Received
  <2> QED BY <2>4, <2>5
<1> QED BY <1>2, <1>3

\* Reading only one block's frame below the root makes no phi.
LEMMA CallMakesNothing ==
    ASSUME NEW v, NEW b, CallReadVariable(v, b)
    PROVE  Making' = {}
<1>1. stack' = <<ReadState(0), ReadState(b)>>
  BY DEF CallReadVariable
<1>2. \A k \in DOMAIN stack' : stack'[k].pc = "Start"
  BY <1>1 DEF ReadState
<1> QED BY <1>2 DEF Making

\* A Set becomes a definition, which an incomplete phi may be in already.
LEMMA VisitSetEdges ==
    ASSUME IInv, EdgeInv, VisitSet
    PROVE  EdgeInv'
<1> DEFINE x == inst[current].var
           v == inst[current].args[1]
<1>1. /\ phase = "rewrite" /\ read = 0 /\ sealing = 0 /\ current # 0
      /\ inst[current].op = "Set"
      /\ current_def' = [current_def EXCEPT ![Block][x] = v]
      /\ UNCHANGED <<program, inst, instructions, incomplete_phis, ssa_sealed, cursor, sealing,
                     read, stack, to_invalidate, phase>>
  BY DEF VisitSet, Visiting, ir
<1>2. Block \in Blocks /\ current \in DOMAIN inst
  BY <1>1, NextKeeps
<1>3. x \in Variable /\ v # Empty
  <2>1. inst[current].args # <<>> /\ x \in Variable
    BY <1>1, <1>2 DEF IInv, KindsOK
  <2>2. inst[current].args \in Seq(Value(DOMAIN inst))
    BY <1>2, PoolFacts DEF IInv, TypeOK, Inst
  <2>3. 1 \in DOMAIN inst[current].args
    BY <2>1, <2>2, EmptySeq, LenProperties
  <2> QED BY <1>2, <2>1, <2>3 DEF IInv, TypeOK, NoneEmpty
<1> HIDE DEF x, v
<1>4. \A b \in Blocks, w \in Variable :
            current_def[b][w] # Empty => current_def'[b][w] # Empty
  <2>1. current_def \in [Blocks -> [Variable -> Value(DOMAIN inst)]]
    BY DEF IInv, TypeOK, PlacesOK
  <2> QED BY <1>1, <1>2, <1>3, <2>1
<1>5. Making' = {}
  <2>1. Making = {}
    BY <1>1, NoReadNothingMade DEF IInv
  <2> QED BY <1>1, <2>1 DEF Making
<1>6. SealsInOrder'
  BY <1>1 DEF EdgeInv, SealsInOrder
<1>7. \A b \in Blocks, w \in Variable : Received(b, w)' = Received(b, w)
  BY <1>1, ReceivedSame
<1>8. \A b \in Blocks, w \in Variable :
        incomplete_phis[b][w] # 0 => b \notin ssa_sealed' /\ current_def'[b][w] # Empty
  BY <1>1, <1>4 DEF EdgeInv, IncompleteOK
<1> QED BY <1>1, <1>5, <1>6, <1>7, <1>8, IdleEdges

\* A step that changes no definition either.
LEMMA RestEdges ==
    ASSUME IInv, EdgeInv, read = 0, Making' = {}, SealsInOrder',
           UNCHANGED <<program, ir, defs, ssa_sealed, to_invalidate>>,
           UNCHANGED cursor \/ sealing = 0,
           sealing' = sealing \/ {sealing', sealing} \subseteq {0, 1}
    PROVE  EdgeInv'
<1>1. UNCHANGED <<inst, instructions, incomplete_phis, current_def>>
  BY DEF ir, defs
<1>2. ASSUME NEW b \in Blocks, NEW v \in Variable
      PROVE  Received(b, v)' = Received(b, v)
  <2>1. CASE UNCHANGED cursor
    BY <1>1, <2>1, ReceivedSame
  <2>2. CASE sealing = 0 /\ sealing' = 0
    BY <2>2 DEF Received
  <2>3. CASE sealing = 0 /\ sealing' = 1
    <3>1. Received(b, v)' \in {SubSeq(Preds(b)', 1, 1 - 1), <<>>} /\ Received(b, v) = <<>>
      BY <2>3 DEF Received
    <3>2. SubSeq(Preds(b)', 1, 1 - 1) = <<>>
      OBVIOUS
    <3> QED BY <3>1, <3>2
  <2> QED BY <2>1, <2>2, <2>3
<1>3. \A b \in Blocks, v \in Variable :
        incomplete_phis[b][v] # 0 => b \notin ssa_sealed' /\ current_def'[b][v] # Empty
  BY <1>1 DEF EdgeInv, IncompleteOK
<1> QED BY <1>1, <1>2, <1>3, IdleEdges

\* An instruction that is no Get or Set is passed by.
LEMMA VisitOtherEdges ==
    ASSUME IInv, EdgeInv, VisitOther
    PROVE  EdgeInv'
<1>1. /\ phase = "rewrite" /\ read = 0 /\ sealing = 0
      /\ UNCHANGED <<program, ir, defs, ssa_sealed, cursor, sealing, read, stack,
                     to_invalidate, phase>>
  BY DEF VisitOther, Visiting
<1>2. Making' = {}
  <2>1. Making = {}
    BY <1>1, NoReadNothingMade DEF IInv
  <2> QED BY <1>1, <2>1 DEF Making
<1>3. SealsInOrder'
  BY <1>1 DEF EdgeInv, SealsInOrder
<1> QED BY <1>1, <1>2, <1>3, RestEdges

\* A Get starts a read.
LEMMA VisitGetEdges ==
    ASSUME IInv, EdgeInv, VisitGet
    PROVE  EdgeInv'
<1>1. /\ phase = "rewrite" /\ read = 0 /\ sealing = 0
      /\ inst[current].op = "Get"
      /\ UNCHANGED <<program, ir, defs, ssa_sealed, cursor, current, sealing, to_invalidate, phase>>
  BY DEF VisitGet, Visiting, CallReadVariable, place
<1>2. Making' = {}
  BY CallMakesNothing DEF VisitGet
<1>3. SealsInOrder'
  BY <1>1 DEF EdgeInv, SealsInOrder, ir
<1> QED BY <1>1, <1>2, <1>3, RestEdges

\* No incomplete phi of the block has an operand yet.
LEMMA BeginSealEdges ==
    ASSUME IInv, EdgeInv, BeginSeal
    PROVE  EdgeInv'
<1>1. /\ phase = "rewrite" /\ read = 0 /\ sealing = 0 /\ current = 0 /\ sealing' = 1
      /\ UNCHANGED <<program, ir, defs, ssa_sealed, cursor, current, read, stack, to_invalidate,
                     phase>>
  BY DEF BeginSeal
<1>2. Making' = {}
  <2>1. Making = {}
    BY <1>1, NoReadNothingMade DEF IInv
  <2> QED BY <1>1, <2>1 DEF Making
<1>3. SealsInOrder'
  <2>1. Len(Preds(Block))' = Len(Preds(Block)) /\ Len(Preds(Block)) \in Nat
    BY <1>1, AtFacts, ProgramFacts DEF IInv, TypeOK, Preds, Block
  <2>2. sealing' - 1 <= Len(Preds(Block))'
    BY <1>1, <2>1
  <2> QED BY <1>1, <2>2 DEF EdgeInv, SealsInOrder
<1>4. {sealing', sealing} \subseteq {0, 1}
  BY <1>1
<1> QED BY <1>1, <1>2, <1>3, <1>4, RestEdges

\* The read is for the first incomplete phi of the block.
LEMMA ReadOperandEdges ==
    ASSUME IInv, EdgeInv, ReadOperand
    PROVE  EdgeInv'
<1>1. /\ sealing # 0 /\ read = 0
      /\ read' = Lowest(Incomplete(Block))
      /\ UNCHANGED <<program, ir, defs, ssa_sealed, cursor, current, sealing, to_invalidate, phase>>
  BY DEF ReadOperand, CallReadVariable, place
<1>2. Making' = {}
  BY CallMakesNothing DEF ReadOperand
<1>3. SealsInOrder'
  BY <1>1 DEF EdgeInv, SealsInOrder, defs, Incomplete, Block, Preds
<1> QED BY <1>1, <1>2, <1>3, RestEdges

\* The next list is begun.
LEMMA NextListEdges ==
    ASSUME IInv, EdgeInv, NextList
    PROVE  EdgeInv'
<1>1. /\ phase = "identities"
      /\ UNCHANGED <<program, ir, defs, ssa_sealed, sealing, read, stack, to_invalidate, phase>>
  BY DEF NextList
<1>2. read = 0 /\ sealing = 0
  BY <1>1, NoReadLater
<1>3. Making' = {}
  <2>1. Making = {}
    BY <1>2, NoReadNothingMade DEF IInv
  <2> QED BY <1>1, <2>1 DEF Making
<1>4. SealsInOrder'
  BY <1>1, <1>2 DEF EdgeInv, SealsInOrder
<1> QED BY <1>1, <1>2, <1>3, <1>4, RestEdges

\* Nothing changes when the passes are done.
LEMMA FinishEdges ==
    ASSUME IInv, EdgeInv, Finish
    PROVE  EdgeInv'
<1>1. /\ phase = "identities" /\ phase' = "done"
      /\ UNCHANGED <<program, ir, defs, ssa_sealed, cursor, current, sealing, read, stack,
                     to_invalidate>>
  BY DEF Finish, AllListed, place
<1>2. read = 0 /\ sealing = 0
  BY <1>1, NoReadLater
<1>3. Making' = {}
  <2>1. Making = {}
    BY <1>2, NoReadNothingMade DEF IInv
  <2> QED BY <1>1, <2>1 DEF Making
<1>4. SealsInOrder'
  BY <1>1, <1>2 DEF EdgeInv, SealsInOrder
<1> QED BY <1>1, <1>2, <1>3, <1>4, RestEdges

\* The block that is sealed has no incomplete phi, so its phis have their operands.
LEMMA SealBlockEdges ==
    ASSUME IInv, EdgeInv, SealBlock
    PROVE  EdgeInv'
<1>1. /\ phase = "rewrite" /\ read = 0 /\ sealing # 0 /\ sealing' = 0
      /\ Incomplete(Block) = {}
      /\ ssa_sealed' = ssa_sealed \cup {Block}
      /\ UNCHANGED <<program, inst, instructions, incomplete_phis, current_def, read, stack,
                     to_invalidate>>
      /\ \/ cursor < Len(program.order) /\ cursor' = cursor + 1 /\ phase' = "rewrite"
         \/ ~(cursor < Len(program.order)) /\ phase' = "identities"
  BY DEF SealBlock, IInv, TypeOK, ir, defs
<1>2. Making' = {}
  <2>1. Making = {}
    BY <1>1, NoReadNothingMade DEF IInv
  <2> QED BY <1>1, <2>1 DEF Making
<1>3. SealsInOrder'
  <2>1. /\ cursor \in 1 .. Len(program.order) /\ Len(program.order) \in Nat
        /\ DOMAIN program.order = 1 .. Len(program.order)
    BY <1>1, ProgramFacts DEF IInv, TypeOK
  <2>2. ASSUME NEW k \in DOMAIN program.order, phase' # "rewrite" \/ k < cursor'
        PROVE  program.order[k] \in ssa_sealed'
    <3>1. k <= cursor
      BY <1>1, <2>1, <2>2
    <3>2. CASE k = cursor
      BY <1>1, <3>2 DEF Block
    <3>3. CASE k < cursor
      BY <1>1, <3>3 DEF EdgeInv, SealsInOrder
    <3> QED BY <2>1, <3>1, <3>2, <3>3
  <2> QED BY <1>1, <2>2 DEF SealsInOrder
<1>4. ASSUME NEW b \in Blocks, NEW v \in Variable, incomplete_phis[b][v] # 0
      PROVE  b # Block
  BY <1>1, <1>4 DEF Incomplete
<1>5. \A b \in Blocks, v \in Variable :
        incomplete_phis[b][v] # 0 =>
            /\ b \notin ssa_sealed'
            /\ current_def'[b][v] # Empty
            /\ Received(b, v)' = Received(b, v)
  BY <1>1, <1>4 DEF EdgeInv, IncompleteOK, Received
<1> QED BY <1>1, <1>2, <1>3, <1>5, IdleEdges

\* A step that replaces or changes instructions in place, while nothing is made.
LEMMA InPlaceEdges ==
    ASSUME IInv, EdgeInv, Making = {}, Making' = {}, SealsInOrder',
           UNCHANGED <<program, instructions, incomplete_phis, current_def, ssa_sealed>>,
           \A j \in DOMAIN inst : inst'[j].op = "Phi" <=> inst[j].op = "Phi",
           \A b \in Blocks, v \in Variable :
                incomplete_phis[b][v] # 0 =>
                    inst'[incomplete_phis[b][v]].preds = Received(b, v)',
           \A b \in Blocks : \A j \in DOMAIN inst :
                /\ Contains(instructions[b], j) /\ inst[j].op = "Phi"
                /\ \A v \in Variable : incomplete_phis[b][v] # j
                => inst'[j].preds = inst[j].preds,
           \A k \in DOMAIN to_invalidate' : inst'[to_invalidate'[k]].op \in {"Identity", "Void"}
    PROVE  EdgeInv'
<1>1. Blocks' = Blocks /\ program' = program
  BY DEF Blocks
<1>2. OnePlace(instructions)'
  BY <1>1 DEF EdgeInv, OnePlace
<1>3. PhisLead(inst, instructions)'
  <2>1. PhisLead(inst', instructions)
    BY ListsStay DEF EdgeInv
  <2> QED BY <1>1, <2>1 DEF PhisLead
<1>4. IncompleteOK(inst)'
  <2>1. \A b \in Blocks, v \in Variable :
            incomplete_phis[b][v] # 0 =>
                /\ b \notin ssa_sealed
                /\ current_def[b][v] # Empty
                /\ \A w \in Variable : incomplete_phis[b][w] = incomplete_phis[b][v] => w = v
    BY DEF EdgeInv, IncompleteOK
  <2> QED BY <1>1, <2>1 DEF IncompleteOK
<1>5. MakingOK(inst, Making)'
  BY DEF MakingOK
<1>6. PredsOK(inst, instructions, Making)'
  <2> SUFFICES ASSUME NEW b \in Blocks, NEW j, Contains(instructions[b], j), inst'[j].op = "Phi",
                      \A v \in Variable : incomplete_phis[b][v] # j
               PROVE  inst'[j].preds = Preds(b)
    BY <1>1 DEF PredsOK, Preds
  <2>1. j \in DOMAIN inst
    BY AtFacts, ListedInPool DEF IInv
  <2>2. inst[j].preds = Preds(b)
    <3>1. PredsOK(inst, instructions, {})
      BY DEF EdgeInv
    <3> QED BY <2>1, <3>1 DEF PredsOK
  <2> QED BY <2>1, <2>2
<1>7. ErasedOK(inst)'
  BY DEF ErasedOK
<1> QED BY <1>2, <1>3, <1>4, <1>5, <1>6, <1>7 DEF EdgeInv

\* The Get that is replaced is no phi.
LEMMA ReplaceGetEdges ==
    ASSUME IInv, EdgeInv, ReplaceGet
    PROVE  EdgeInv'
<1>1. /\ Len(stack) = 1 /\ sealing = 0 /\ read # 0 /\ phase = "rewrite"
      /\ read' = 0 /\ stack' = <<>>
      /\ UNCHANGED <<program, instructions, current_def, incomplete_phis, ssa_sealed, cursor,
                     sealing, to_invalidate, phase>>
      /\ current \in DOMAIN inst
      /\ \A j \in DOMAIN inst : j # current => /\ inst'[j].op = inst[j].op
                                               /\ inst'[j].preds = inst[j].preds
      /\ inst'[current].op = "Identity" /\ inst'[current].preds = <<>>
  BY ReplaceGetEffect
<1>2. inst[current].op = "Get"
  BY <1>1 DEF EdgeInv, SealsInOrder
<1>3. Making = {} /\ Making' = {}
  <2>1. Making = {}
    BY <1>1, NoReadNothingMade DEF IInv
  <2>2. DOMAIN stack' = {}
    BY <1>1
  <2> QED BY <2>1, <2>2 DEF Making
<1>4. SealsInOrder'
  BY <1>1 DEF EdgeInv, SealsInOrder
<1>5. ASSUME NEW b \in Blocks, NEW v \in Variable, incomplete_phis[b][v] # 0
      PROVE  inst'[incomplete_phis[b][v]].preds = Received(b, v)'
  <2>1. Received(b, v) = <<>> /\ Received(b, v)' = <<>>
    BY <1>1 DEF Received
  <2>2. inst[incomplete_phis[b][v]].preds = <<>>
    BY <1>5, <2>1 DEF EdgeInv, IncompleteOK
  <2>3. incomplete_phis[b][v] \in DOMAIN inst
    BY <1>5, AtFacts DEF IInv
  <2> QED BY <1>1, <2>1, <2>2, <2>3
<1>6. ASSUME NEW k \in DOMAIN to_invalidate'
      PROVE  inst'[to_invalidate'[k]].op \in {"Identity", "Void"}
  <2>1. to_invalidate \in Seq(DOMAIN inst) /\ k \in 1 .. Len(to_invalidate)
    BY <1>1 DEF IInv, TypeOK, PlacesOK
  <2>2. to_invalidate[k] \in DOMAIN inst
    BY <2>1, ElementOfSeq
  <2> QED BY <1>1, <2>2 DEF EdgeInv, ErasedOK
<1> QED BY <1>1, <1>2, <1>3, <1>4, <1>5, <1>6, InPlaceEdges

\* One more of a sequence.
LEMMA AppendSubSeq ==
    ASSUME NEW S, NEW s \in Seq(S), NEW k \in 1 .. Len(s)
    PROVE  Append(SubSeq(s, 1, k - 1), s[k]) = SubSeq(s, 1, k)
<1> DEFINE r == SubSeq(s, 1, k - 1)
           t == SubSeq(s, 1, k)
           u == Append(r, s[k])
<1>1. Len(s) \in Nat /\ k \in Nat /\ k >= 1 /\ k <= Len(s)
  BY LenProperties
<1>2. \A i \in 1 .. Len(s) : s[i] \in S
  BY ElementOfSeq
<1>3. /\ r \in Seq(S) /\ Len(r) = k - 1
      /\ \A i \in 1 .. k - 1 : r[i] = s[i]
  <2>1. /\ 1 \in Int /\ k - 1 \in Int
        /\ \A i \in 1 .. k - 1 : s[i] \in S
    BY <1>1, <1>2
  <2>2. /\ SubSeq(s, 1, k - 1) \in Seq(S)
        /\ Len(SubSeq(s, 1, k - 1)) = IF 1 <= k - 1 THEN k - 1 - 1 + 1 ELSE 0
        /\ \A i \in 1 .. k - 1 - 1 + 1 : SubSeq(s, 1, k - 1)[i] = s[1 + i - 1]
    BY <2>1, SubSeqProperties
  <2>3. k - 1 - 1 + 1 = k - 1 /\ \A i \in 1 .. k - 1 : 1 + i - 1 = i
    BY <1>1
  <2>4. (IF 1 <= k - 1 THEN k - 1 ELSE 0) = k - 1
    BY <1>1
  <2> QED BY <2>2, <2>3, <2>4
<1>4. /\ t \in Seq(S) /\ Len(t) = k
      /\ \A i \in 1 .. k : t[i] = s[i]
  <2>1. /\ 1 \in Int /\ k \in Int
        /\ \A i \in 1 .. k : s[i] \in S
    BY <1>1, <1>2
  <2>2. /\ SubSeq(s, 1, k) \in Seq(S)
        /\ Len(SubSeq(s, 1, k)) = IF 1 <= k THEN k - 1 + 1 ELSE 0
        /\ \A i \in 1 .. k - 1 + 1 : SubSeq(s, 1, k)[i] = s[1 + i - 1]
    BY <2>1, SubSeqProperties
  <2>3. k - 1 + 1 = k /\ \A i \in 1 .. k : 1 + i - 1 = i
    BY <1>1
  <2> QED BY <1>1, <2>2, <2>3
<1> HIDE DEF r, t
<1>5. /\ u \in Seq(S) /\ Len(u) = k
      /\ \A i \in 1 .. k : u[i] = s[i]
  <2>1. s[k] \in S
    BY <1>2
  <2>2. /\ Append(r, s[k]) \in Seq(S) /\ Len(Append(r, s[k])) = Len(r) + 1
        /\ \A i \in 1 .. Len(r) : Append(r, s[k])[i] = r[i]
        /\ Append(r, s[k])[Len(r) + 1] = s[k]
    BY <1>3, <2>1, AppendProperties
  <2>3. k - 1 + 1 = k /\ \A i \in 1 .. k : i \in 1 .. k - 1 \/ i = k
    BY <1>1
  <2> QED BY <1>3, <2>2, <2>3
<1> HIDE DEF u
<1>6. u = t
  BY <1>4, <1>5, SeqEqual
<1> QED BY <1>6 DEF u, r, t

\* The phis of two variables, or of two blocks, are two phis.
LEMMA IncompleteApart ==
    ASSUME IInv, EdgeInv, phase = "rewrite", NEW b \in Blocks, NEW v \in Variable,
           NEW c \in Blocks, NEW w \in Variable, incomplete_phis[b][v] # 0,
           incomplete_phis[c][w] = incomplete_phis[b][v]
    PROVE  c = b /\ w = v
<1>1. c = b
  BY DEF IInv, Listed, EdgeInv, OnePlace
<1>2. w = v
  BY <1>1 DEF EdgeInv, IncompleteOK
<1> QED BY <1>1, <1>2

\* The incomplete phi has received one operand more, the others none.
LEMMA PushOperandEdges ==
    ASSUME IInv, EdgeInv, PushOperand
    PROVE  EdgeInv'
<1> DEFINE phi == incomplete_phis[Block][read]
           P == Preds(Block)
<1>1. /\ Len(stack) = 1 /\ sealing # 0 /\ read # 0 /\ phase = "rewrite"
      /\ read' = 0 /\ stack' = <<>> /\ sealing' = sealing + 1
      /\ UNCHANGED <<program, instructions, current_def, incomplete_phis, ssa_sealed, cursor,
                     current, to_invalidate, phase>>
      /\ Block \in Blocks /\ read \in Variable
      /\ sealing \in 1 .. Len(P)
      /\ phi \in DOMAIN inst
      /\ \A j \in DOMAIN inst : inst'[j].op = inst[j].op
      /\ \A j \in DOMAIN inst : j # phi => inst'[j].preds = inst[j].preds
      /\ inst'[phi].preds = Append(inst[phi].preds, P[sealing])
  BY PushOperandEffect
<1>2. read = Lowest(Incomplete(Block)) /\ phi # 0 /\ current = 0
  <2>1. phi # 0
    BY <1>1, AtFacts DEF IInv
  <2> QED BY <1>1, <2>1 DEF EdgeInv, SealsInOrder
<1>3. Making = {} /\ Making' = {}
  <2>1. Making = {}
    BY <1>1, NoReadNothingMade DEF IInv
  <2>2. DOMAIN stack' = {}
    BY <1>1
  <2> QED BY <2>1, <2>2 DEF Making
<1>4. SealsInOrder'
  <2>1. sealing' - 1 <= Len(P) /\ Len(Preds(Block))' = Len(P)
    <3>1. sealing' - 1 = sealing /\ sealing <= Len(P)
      BY <1>1
    <3> QED BY <1>1, <3>1 DEF Preds, Block
  <2> QED BY <1>1, <1>2, <2>1 DEF EdgeInv, SealsInOrder
<1>5. /\ Block' = Block /\ \A b : Incomplete(b)' = Incomplete(b) /\ Preds(b)' = Preds(b)
  BY <1>1 DEF Block, Incomplete, Preds
<1>6. sealing' # 0 /\ sealing' - 1 = sealing
  BY <1>1
<1>7. ASSUME NEW b \in Blocks, NEW v \in Variable, incomplete_phis[b][v] # 0
      PROVE  inst'[incomplete_phis[b][v]].preds = Received(b, v)'
  <2>1. inst[incomplete_phis[b][v]].preds = Received(b, v)
    BY <1>7 DEF EdgeInv, IncompleteOK
  <2>2. CASE b = Block /\ v = read
    <3>1. Received(b, v) = SubSeq(P, 1, sealing - 1)
      BY <1>1, <1>2, <2>2 DEF Received
    <3>2. Received(b, v)' = SubSeq(P, 1, sealing)
      BY <1>2, <1>5, <1>6, <2>2 DEF Received
    <3>3. P \in Seq(Blocks)
      BY <1>1 DEF IInv, TypeOK, WellFormed, Preds, Blocks
    <3>4. Append(SubSeq(P, 1, sealing - 1), P[sealing]) = SubSeq(P, 1, sealing)
      <4> HIDE DEF P
      <4> QED BY <1>1, <3>3, AppendSubSeq
    <3> HIDE DEF P
    <3> QED BY <1>1, <2>1, <2>2, <3>1, <3>2, <3>4
  <2>3. CASE ~(b = Block /\ v = read)
    <3>1. incomplete_phis[b][v] # phi
      BY <1>1, <1>2, <2>3, IncompleteApart
    <3>2. Received(b, v) = <<>> /\ Received(b, v)' = <<>>
      BY <1>2, <1>5, <2>3 DEF Received
    <3>3. incomplete_phis[b][v] \in DOMAIN inst
      BY <1>7, AtFacts DEF IInv
    <3> QED BY <1>1, <2>1, <3>1, <3>2, <3>3
  <2> QED BY <2>2, <2>3
<1>8. ASSUME NEW k \in DOMAIN to_invalidate'
      PROVE  inst'[to_invalidate'[k]].op \in {"Identity", "Void"}
  <2>1. to_invalidate \in Seq(DOMAIN inst) /\ k \in 1 .. Len(to_invalidate)
    BY <1>1 DEF IInv, TypeOK, PlacesOK
  <2>2. to_invalidate[k] \in DOMAIN inst
    BY <2>1, ElementOfSeq
  <2> QED BY <1>1, <2>2 DEF EdgeInv, ErasedOK
<1>9. ASSUME NEW b \in Blocks, NEW j \in DOMAIN inst,
             Contains(instructions[b], j), \A v \in Variable : incomplete_phis[b][v] # j
      PROVE  inst'[j].preds = inst[j].preds
  <2>1. Contains(instructions[Block], phi)
    BY <1>1, <1>2 DEF IInv, Listed
  <2>2. b = Block \/ j # phi
    BY <1>1, <1>9, <2>1 DEF EdgeInv, OnePlace
  <2> QED BY <1>1, <1>9, <2>2
<1> HIDE DEF phi, P
<1> QED BY <1>1, <1>3, <1>4, <1>7, <1>8, <1>9, InPlaceEdges

\* Only an argument changes.
LEMMA SkipIdentityEdges ==
    ASSUME IInv, EdgeInv, SkipIdentity
    PROVE  EdgeInv'
<1>1. /\ phase = "identities"
      /\ UNCHANGED <<program, instructions, current_def, incomplete_phis, ssa_sealed, cursor,
                     current, sealing, read, stack, to_invalidate, phase>>
      /\ \A j \in DOMAIN inst : inst'[j].op = inst[j].op /\ inst'[j].preds = inst[j].preds
  BY SkipIdentityEffect
<1>2. read = 0 /\ sealing = 0
  BY <1>1, NoReadLater
<1>3. Making = {} /\ Making' = {}
  <2>1. Making = {}
    BY <1>2, NoReadNothingMade DEF IInv
  <2> QED BY <1>1, <2>1 DEF Making
<1>4. SealsInOrder'
  BY <1>1, <1>2 DEF EdgeInv, SealsInOrder
<1>5. ASSUME NEW b \in Blocks, NEW v \in Variable, incomplete_phis[b][v] # 0
      PROVE  inst'[incomplete_phis[b][v]].preds = Received(b, v)'
  <2>1. Received(b, v) = <<>> /\ Received(b, v)' = <<>>
    BY <1>1, <1>2 DEF Received
  <2>2. incomplete_phis[b][v] \in DOMAIN inst
    BY <1>5, AtFacts DEF IInv
  <2> QED BY <1>1, <1>5, <2>1, <2>2 DEF EdgeInv, IncompleteOK
<1>6. ASSUME NEW k \in DOMAIN to_invalidate'
      PROVE  inst'[to_invalidate'[k]].op \in {"Identity", "Void"}
  <2>1. to_invalidate \in Seq(DOMAIN inst) /\ k \in 1 .. Len(to_invalidate)
    BY <1>1 DEF IInv, TypeOK, PlacesOK
  <2>2. to_invalidate[k] \in DOMAIN inst
    BY <2>1, ElementOfSeq
  <2> QED BY <1>1, <2>2 DEF EdgeInv, ErasedOK
<1> QED BY <1>1, <1>3, <1>4, <1>5, <1>6, InPlaceEdges

\* What is invalidated was no phi.
LEMMA InvalidateErasedEdges ==
    ASSUME IInv, EdgeInv, InvalidateErased
    PROVE  EdgeInv'
<1> DEFINE i == Head(to_invalidate)
<1>1. /\ phase = "identities" /\ to_invalidate # <<>>
      /\ to_invalidate' = Tail(to_invalidate)
      /\ UNCHANGED <<program, instructions, current_def, incomplete_phis, ssa_sealed, cursor,
                     current, sealing, read, stack, phase>>
      /\ i \in DOMAIN inst
      /\ \A j \in DOMAIN inst : j # i => inst'[j].op = inst[j].op /\ inst'[j].preds = inst[j].preds
      /\ inst'[i].op = "Void" /\ inst'[i].preds = <<>>
  BY InvalidateErasedEffect
<1>2. read = 0 /\ sealing = 0
  BY <1>1, NoReadLater
<1>3. Making = {} /\ Making' = {}
  <2>1. Making = {}
    BY <1>2, NoReadNothingMade DEF IInv
  <2> QED BY <1>1, <2>1 DEF Making
<1>4. SealsInOrder'
  BY <1>1, <1>2 DEF EdgeInv, SealsInOrder
<1>5. /\ to_invalidate \in Seq(DOMAIN inst)
      /\ \A k \in 1 .. Len(to_invalidate) : to_invalidate[k] \in DOMAIN inst
      /\ Len(to_invalidate) \in Nat \ {0}
      /\ DOMAIN to_invalidate = 1 .. Len(to_invalidate)
  <2>1. to_invalidate \in Seq(DOMAIN inst)
    BY DEF IInv, TypeOK, PlacesOK
  <2> QED BY <1>1, <2>1, ElementOfSeq, EmptySeq, LenProperties
<1>6. i = to_invalidate[1] /\ inst[i].op \in {"Identity", "Void"}
  <2>1. i = to_invalidate[1]
    BY <1>1, <1>5, HeadTailProperties
  <2>2. 1 \in DOMAIN to_invalidate
    BY <1>5
  <2> QED BY <2>1, <2>2 DEF EdgeInv, ErasedOK
<1> HIDE DEF i
<1>7. ASSUME NEW b \in Blocks, NEW v \in Variable, incomplete_phis[b][v] # 0
      PROVE  inst'[incomplete_phis[b][v]].preds = Received(b, v)'
  <2>1. Received(b, v) = <<>> /\ Received(b, v)' = <<>>
    BY <1>1, <1>2 DEF Received
  <2>2. inst[incomplete_phis[b][v]].preds = <<>>
    BY <1>7, <2>1 DEF EdgeInv, IncompleteOK
  <2>3. incomplete_phis[b][v] \in DOMAIN inst
    BY <1>7, AtFacts DEF IInv
  <2> QED BY <1>1, <2>1, <2>2, <2>3
<1>8. ASSUME NEW k \in DOMAIN to_invalidate'
      PROVE  inst'[to_invalidate'[k]].op \in {"Identity", "Void"}
  <2>1. /\ Tail(to_invalidate) \in Seq(DOMAIN inst)
        /\ Len(Tail(to_invalidate)) = Len(to_invalidate) - 1
        /\ \A m \in 1 .. Len(Tail(to_invalidate)) : Tail(to_invalidate)[m] = to_invalidate[m + 1]
    BY <1>1, <1>5, HeadTailProperties
  <2>2. k \in 1 .. Len(to_invalidate) - 1
    BY <1>1, <2>1, LenProperties
  <2>3. k + 1 \in 1 .. Len(to_invalidate)
    BY <1>5, <2>2
  <2>4. to_invalidate'[k] = to_invalidate[k + 1]
    BY <1>1, <2>1, <2>2
  <2>5. /\ to_invalidate[k + 1] \in DOMAIN inst
        /\ inst[to_invalidate[k + 1]].op \in {"Identity", "Void"}
    BY <1>5, <2>3 DEF EdgeInv, ErasedOK
  <2> QED BY <1>1, <2>4, <2>5
<1> QED BY <1>1, <1>3, <1>4, <1>6, <1>7, <1>8, InPlaceEdges

\* A phi of block b is removed if it is trivial, in a pool and lists that are in order.
RemovalIn(in, lists, b, phi, out, moved, result) ==
    /\ OnePlace(lists) /\ PhisLead(in, lists) /\ ErasedOK(in)
    /\ \A c \in Blocks : lists[c] \in Seq(DOMAIN in)
    /\ to_invalidate \in Seq(DOMAIN in)
    /\ b \in Blocks /\ phi \in DOMAIN in /\ Contains(lists[b], phi)
    /\ Removal(in, lists[b], phi, out, moved[b], result)
    /\ \A c \in Blocks : c # b => moved[c] = lists[c]

\* That leaves the other phis and their lists as they were.
LEMMA RemovalEdges ==
    ASSUME NEW in, NEW lists, NEW b, NEW phi, NEW out, NEW moved, NEW result,
           RemovalIn(in, lists, b, phi, out, moved, result)
    PROVE  /\ OnePlace(moved) /\ PhisLead(out, moved) /\ ErasedOK(out)
           /\ \A c \in Blocks : \A j :
                Contains(moved[c], j) /\ out[j].op = "Phi" =>
                    /\ Contains(lists[c], j) /\ in[j].op = "Phi"
                    /\ out[j].preds = in[j].preds
<1>0. /\ OnePlace(lists) /\ PhisLead(in, lists) /\ ErasedOK(in)
      /\ \A c \in Blocks : lists[c] \in Seq(DOMAIN in)
      /\ to_invalidate \in Seq(DOMAIN in)
      /\ b \in Blocks /\ phi \in DOMAIN in /\ Contains(lists[b], phi)
      /\ Removal(in, lists[b], phi, out, moved[b], result)
      /\ \A c \in Blocks : c # b => moved[c] = lists[c]
  BY DEF RemovalIn
<1>1. /\ \A j \in DOMAIN in : j # phi => out[j].op = in[j].op /\ out[j].preds = in[j].preds
      /\ out = in \/ out[phi].op = "Identity"
      /\ \A j \in DOMAIN out \ DOMAIN in : out[j].op = "Undef"
      /\ \A j : Contains(moved[b], j) <=> Contains(lists[b], j) \/ j \in DOMAIN out \ DOMAIN in
      /\ Once(lists[b]) => Once(moved[b])
      /\ Once(lists[b]) /\ PhisFirst(in, lists[b]) => PhisFirst(out, moved[b])
  BY <1>0 DEF Removal
<1>2. \A c \in Blocks : \A j : Contains(lists[c], j) => j \in DOMAIN in
  BY <1>0, ListedInPool
<1>3. \A c \in Blocks : c # b => \A j : Contains(lists[c], j) => j # phi
  BY <1>0 DEF OnePlace
<1>4. OnePlace(moved) /\ PhisLead(out, moved)
  <2>1. Once(moved[b]) /\ PhisFirst(out, moved[b])
    BY <1>0, <1>1 DEF OnePlace, PhisLead
  <2>2. \A j : Contains(moved[b], j) => Contains(lists[b], j) \/ j \notin DOMAIN in
    BY <1>1
  <2>3. \A c \in Blocks : c # b =>
            \A j : Contains(lists[c], j) => (out[j].op = "Phi" <=> in[j].op = "Phi")
    BY <1>1, <1>2, <1>3
  <2> QED BY <1>0, <2>1, <2>2, <2>3, ListsMoved
<1>5. ErasedOK(out)
  <2> SUFFICES ASSUME NEW k \in DOMAIN to_invalidate
               PROVE  out[to_invalidate[k]].op \in {"Identity", "Void"}
    BY DEF ErasedOK
  <2>1. to_invalidate[k] \in DOMAIN in
    BY <1>0, ElementOfSeq, LenProperties
  <2>2. in[to_invalidate[k]].op \in {"Identity", "Void"}
    BY <1>0 DEF ErasedOK
  <2> QED BY <1>1, <2>1, <2>2
<1>6. ASSUME NEW c \in Blocks, NEW j, Contains(moved[c], j), out[j].op = "Phi"
      PROVE  Contains(lists[c], j) /\ in[j].op = "Phi" /\ out[j].preds = in[j].preds
  <2>1. Contains(lists[c], j)
    BY <1>0, <1>1, <1>6
  <2> QED BY <1>1, <1>2, <1>6, <2>1
<1> QED BY <1>4, <1>5, <1>6

\* A phi is complete when it has an operand for each predecessor.
LEMMA AllOfSeq ==
    ASSUME NEW S, NEW s \in Seq(S), NEW k, k = Len(s)
    PROVE  SubSeq(s, 1, k) = s
<1>1. k \in Nat /\ \A i \in 1 .. k : s[i] \in S
  BY ElementOfSeq
<1> DEFINE t == SubSeq(s, 1, k)
<1>2. t \in Seq(S) /\ Len(t) = k /\ \A i \in 1 .. k : t[i] = s[i]
  <2>1. 1 \in Int /\ k \in Int
    BY <1>1
  <2>2. /\ SubSeq(s, 1, k) \in Seq(S)
        /\ Len(SubSeq(s, 1, k)) = IF 1 <= k THEN k - 1 + 1 ELSE 0
        /\ \A i \in 1 .. k - 1 + 1 : SubSeq(s, 1, k)[i] = s[1 + i - 1]
    BY <1>1, <2>1, SubSeqProperties
  <2>3. /\ k - 1 + 1 = k /\ \A i \in 1 .. k : 1 + i - 1 = i
        /\ (IF 1 <= k THEN k ELSE 0) = k
    BY <1>1
  <2> QED BY <2>2, <2>3
<1> HIDE DEF t
<1>3. t = s
  BY <1>2, SeqEqual
<1> QED BY <1>3 DEF t

\* The phi that is complete is not incomplete any more; the next has received nothing.
LEMMA CompletePhiEdges ==
    ASSUME IInv, EdgeInv, CompletePhi
    PROVE  EdgeInv'
<1> DEFINE v == Lowest(Incomplete(Block))
           phi == incomplete_phis[Block][v]
           P == Preds(Block)
           list == instructions[Block]
<1>1. /\ sealing # 0 /\ phase = "rewrite" /\ read = 0
      /\ ~(sealing <= Len(P)) /\ sealing' = 1
      /\ instructions' = [instructions EXCEPT ![Block] = instructions'[Block]]
      /\ incomplete_phis' = [incomplete_phis EXCEPT ![Block][v] = 0]
      /\ UNCHANGED <<program, current_def, ssa_sealed, cursor, current, read, stack,
                     to_invalidate, phase>>
      /\ Block \in Blocks /\ v \in Variable
      /\ phi \in DOMAIN inst /\ Contains(list, phi)
  BY CompletePhiEffect
<1>2. PICK result : Removal(inst, list, phi, inst', instructions'[Block], result)
  BY CompletePhiEffect
<1>3. phi # 0 /\ P \in Seq(Blocks) /\ Len(P) \in Nat
  BY <1>1, AtFacts, ProgramFacts DEF IInv, TypeOK, WellFormed, Preds, Blocks
<1>4. inst[phi].preds = P
  <2>1. inst[phi].preds = Received(Block, v)
    BY <1>1, <1>3 DEF EdgeInv, IncompleteOK
  <2>2. Received(Block, v) = SubSeq(P, 1, sealing - 1)
    BY <1>1 DEF Received
  <2>3. sealing - 1 = Len(P)
    <3>1. sealing - 1 <= Len(P) /\ sealing \in Nat
      BY <1>1 DEF EdgeInv, SealsInOrder, IInv, TypeOK
    <3> HIDE DEF P
    <3> QED BY <1>1, <1>3, <3>1
  <2>4. SubSeq(P, 1, sealing - 1) = P
    <3> HIDE DEF P
    <3> QED BY <1>3, <2>3, AllOfSeq
  <2> QED BY <2>1, <2>2, <2>4
<1>5. Block' = Block /\ Blocks' = Blocks /\ \A b : Preds(b)' = Preds(b)
  BY <1>1 DEF Block, Blocks, Preds
<1>6. /\ \A b \in Blocks, w \in Variable :
            incomplete_phis'[b][w] =
                IF b = Block /\ w = v THEN 0 ELSE incomplete_phis[b][w]
      /\ \A b \in Blocks : b # Block => instructions'[b] = instructions[b]
  <2>1. /\ incomplete_phis \in [Blocks -> [Variable -> DOMAIN inst \cup {0}]]
        /\ instructions \in [Blocks -> Seq(DOMAIN inst)]
    BY DEF IInv, TypeOK, PlacesOK
  <2> HIDE DEF v
  <2> QED BY <1>1, <2>1
<1>7. \A b \in Blocks : instructions[b] \in Seq(DOMAIN inst)
  BY AtFacts DEF IInv
<1>8. OnePlace(instructions) /\ PhisLead(inst, instructions) /\ ErasedOK(inst)
  BY DEF EdgeInv
<1>9. to_invalidate \in Seq(DOMAIN inst)
  BY DEF IInv, TypeOK, PlacesOK
<1>10. /\ OnePlace(instructions') /\ PhisLead(inst', instructions') /\ ErasedOK(inst')
       /\ \A c \in Blocks : \A j :
                Contains(instructions'[c], j) /\ inst'[j].op = "Phi" =>
                    /\ Contains(instructions[c], j) /\ inst[j].op = "Phi"
                    /\ inst'[j].preds = inst[j].preds
  <2> DEFINE b == Block
             moved == instructions'
             out == inst'
  <2>1. /\ b \in Blocks /\ phi \in DOMAIN inst /\ Contains(instructions[b], phi)
        /\ Removal(inst, instructions[b], phi, out, moved[b], result)
        /\ \A c \in Blocks : c # b => moved[c] = instructions[c]
    BY <1>1, <1>2, <1>6
  <2> HIDE DEF v, phi, b, moved, out
  <2>2. RemovalIn(inst, instructions, b, phi, out, moved, result)
    BY <1>7, <1>8, <1>9, <2>1 DEF RemovalIn
  <2> QED BY <2>2, RemovalEdges DEF moved, out
<1>11. \A b \in Blocks, w \in Variable :
            incomplete_phis'[b][w] # 0 =>
                /\ incomplete_phis[b][w] # phi
                /\ incomplete_phis[b][w] = incomplete_phis'[b][w]
                /\ incomplete_phis[b][w] \in DOMAIN inst
                /\ ~(b = Block /\ w = v)
  BY <1>1, <1>3, <1>6, IncompleteApart, AtFacts DEF IInv
<1>12. Making = {} /\ Making' = {}
  <2>1. Making = {}
    BY <1>1, NoReadNothingMade DEF IInv
  <2> QED BY <1>1, <2>1 DEF Making
<1>13. SealsInOrder'
  <2>1. sealing' - 1 <= Len(Preds(Block))'
    <3>1. Len(Preds(Block))' = Len(P)
      BY <1>5
    <3> HIDE DEF P
    <3> QED BY <1>1, <1>3, <3>1
  <2> QED BY <1>1, <2>1 DEF EdgeInv, SealsInOrder
<1>14. IncompleteOK(inst)'
  <2> SUFFICES ASSUME NEW b \in Blocks, NEW w \in Variable, incomplete_phis'[b][w] # 0
               PROVE  /\ b \notin ssa_sealed
                      /\ current_def[b][w] # Empty
                      /\ inst'[incomplete_phis'[b][w]].preds = Received(b, w)'
                      /\ \A x \in Variable :
                            incomplete_phis'[b][x] = incomplete_phis'[b][w] => x = w
    BY <1>1, <1>5 DEF IncompleteOK
  <2>1. /\ incomplete_phis[b][w] # phi
        /\ incomplete_phis[b][w] = incomplete_phis'[b][w]
        /\ incomplete_phis[b][w] \in DOMAIN inst
        /\ ~(b = Block /\ w = v)
    BY <1>11
  <2>2. /\ b \notin ssa_sealed /\ current_def[b][w] # Empty
        /\ inst[incomplete_phis[b][w]].preds = Received(b, w)
        /\ \A x \in Variable : incomplete_phis[b][x] = incomplete_phis[b][w] => x = w
    BY <2>1 DEF EdgeInv, IncompleteOK
  <2>3. Received(b, w) = <<>>
    BY <2>1 DEF Received
  <2>4. Received(b, w)' = <<>>
    <3>1. Received(b, w)' \in {SubSeq(Preds(b)', 1, 1 - 1), <<>>}
      BY <1>1 DEF Received
    <3>2. SubSeq(Preds(b)', 1, 1 - 1) = <<>>
      OBVIOUS
    <3> QED BY <3>1, <3>2
  <2>5. inst'[incomplete_phis[b][w]].preds = inst[incomplete_phis[b][w]].preds
    BY <1>2, <2>1 DEF Removal
  <2>6. \A x \in Variable : incomplete_phis'[b][x] = incomplete_phis'[b][w] => x = w
    BY <1>11, <2>1, <2>2
  <2> QED BY <2>1, <2>2, <2>3, <2>4, <2>5, <2>6
<1>15. PredsOK(inst, instructions, Making)'
  <2> SUFFICES ASSUME NEW b \in Blocks, NEW j, Contains(instructions'[b], j), inst'[j].op = "Phi"
               PROVE  inst'[j].preds = Preds(b) \/ \E w \in Variable : incomplete_phis'[b][w] = j
    BY <1>5 DEF PredsOK
  <2>1. Contains(instructions[b], j) /\ inst[j].op = "Phi" /\ inst'[j].preds = inst[j].preds
    BY <1>10
  <2>2. inst[j].preds = Preds(b) \/ \E w \in Variable : incomplete_phis[b][w] = j
    BY <1>12, <2>1 DEF EdgeInv, PredsOK
  <2>3. ASSUME NEW w \in Variable, incomplete_phis[b][w] = j
        PROVE  inst'[j].preds = Preds(b) \/ \E x \in Variable : incomplete_phis'[b][x] = j
    <3>1. CASE b = Block /\ w = v
      BY <1>4, <2>1, <2>3, <3>1
    <3>2. CASE ~(b = Block /\ w = v)
      BY <1>6, <2>3, <3>2
    <3> QED BY <3>1, <3>2
  <2> QED BY <2>1, <2>2, <2>3
<1>16. MakingOK(inst, Making)'
  BY <1>12 DEF MakingOK
<1>17. OnePlace(instructions)' /\ PhisLead(inst, instructions)' /\ ErasedOK(inst)'
  BY <1>1, <1>5, <1>10 DEF OnePlace, PhisLead, ErasedOK
<1> QED BY <1>13, <1>14, <1>15, <1>16, <1>17 DEF EdgeInv

\* What is erased from its list is no phi.
LEMMA EraseIdentityEdges ==
    ASSUME IInv, EdgeInv, EraseIdentity
    PROVE  EdgeInv'
<1> DEFINE list == instructions[ListBlock]
           rest == Erase(list, current)
<1>1. /\ phase = "identities" /\ current # 0
      /\ UNCHANGED <<program, inst, current_def, incomplete_phis, ssa_sealed, cursor,
                     sealing, read, stack, phase>>
  BY DEF EraseIdentity, defs
<1>2. /\ ListBlock \in Blocks /\ list \in Seq(DOMAIN inst)
      /\ current \in DOMAIN inst /\ Contains(list, current)
  BY <1>1, AtFacts DEF IInv, TypeOK, PlacesOK, Listed
<1>3. read = 0 /\ sealing = 0
  BY <1>1, NoReadLater
<1>4. Making = {} /\ Making' = {}
  <2>1. Making = {}
    BY <1>3, NoReadNothingMade DEF IInv
  <2> QED BY <1>1, <2>1 DEF Making
<1>5. SealsInOrder'
  BY <1>1, <1>3 DEF EdgeInv, SealsInOrder
<1>6. \A b \in Blocks, v \in Variable :
            incomplete_phis[b][v] # 0 =>
                /\ b \notin ssa_sealed'
                /\ current_def'[b][v] # Empty
                /\ Received(b, v)' = Received(b, v)
  BY <1>1, <1>3 DEF EdgeInv, IncompleteOK, Received
<1>7. CASE UNCHANGED <<to_invalidate, instructions>>
  BY <1>1, <1>3, <1>4, <1>5, <1>6, <1>7, IdleEdges
<1>8. CASE ~UNCHANGED <<to_invalidate, instructions>>
  <2>1. /\ inst[current].op \in {"Identity", "Void"}
        /\ to_invalidate' = Append(to_invalidate, current)
        /\ instructions' = [instructions EXCEPT ![ListBlock] = rest]
    BY <1>8 DEF EraseIdentity
  <2>2. /\ rest \in Seq(DOMAIN inst)
        /\ \A j : Contains(rest, j) => Contains(list, j)
        /\ Once(list) => Once(rest)
        /\ PhisFirst(inst, list) => PhisFirst(inst, rest)
    BY <1>2, EraseMembers
  <2>3. /\ instructions'[ListBlock] = rest
        /\ \A b \in Blocks : b # ListBlock => instructions'[b] = instructions[b]
    BY <1>2, <2>1 DEF IInv, TypeOK, PlacesOK
  <2> HIDE DEF rest
  <2>4. OnePlace(instructions') /\ PhisLead(inst, instructions')
    <3>1. OnePlace(instructions) /\ PhisLead(inst, instructions)
      BY DEF EdgeInv
    <3>2. Once(rest) /\ PhisFirst(inst, rest)
      BY <1>2, <2>2, <3>1 DEF OnePlace, PhisLead
    <3>3. \A b \in Blocks : instructions[b] \in Seq(DOMAIN inst)
      BY AtFacts DEF IInv
    <3> DEFINE moved == instructions'
               b == ListBlock
    <3>4. /\ b \in Blocks
          /\ \A c \in Blocks : c # b => moved[c] = instructions[c]
          /\ \A j : Contains(moved[b], j) => Contains(instructions[b], j) \/ j \notin DOMAIN inst
          /\ Once(moved[b]) /\ PhisFirst(inst, moved[b])
      BY <1>2, <2>2, <2>3, <3>2
    <3> HIDE DEF moved, b
    <3>5. OnePlace(moved) /\ PhisLead(inst, moved)
      BY <3>1, <3>3, <3>4, ListsMoved
    <3> QED BY <3>5 DEF moved
  <2>5. Blocks' = Blocks /\ \A b : Preds(b)' = Preds(b)
    BY <1>1 DEF Blocks, Preds
  <2>6. IncompleteOK(inst)'
    BY <1>1, <1>6, <2>5 DEF EdgeInv, IncompleteOK
  <2>7. MakingOK(inst, Making)'
    BY <1>4 DEF MakingOK
  <2>8. PredsOK(inst, instructions, Making)'
    <3>1. PredsOK(inst, instructions, {})
      BY <1>4 DEF EdgeInv
    <3>2. \A b \in Blocks : \A j : Contains(instructions'[b], j) => Contains(instructions[b], j)
      BY <1>2, <2>2, <2>3
    <3> QED BY <1>1, <1>4, <2>5, <3>1, <3>2 DEF PredsOK
  <2>9. ErasedOK(inst)'
    <3> DEFINE n == Len(to_invalidate)
    <3>1. to_invalidate \in Seq(DOMAIN inst)
      BY DEF IInv, TypeOK, PlacesOK
    <3>2. /\ n \in Nat /\ DOMAIN to_invalidate = 1 .. n
          /\ DOMAIN to_invalidate' = 1 .. n + 1
          /\ \A k \in 1 .. n : to_invalidate'[k] = to_invalidate[k]
          /\ to_invalidate'[n + 1] = current
      BY <1>2, <2>1, <3>1, AppendProperties, LenProperties
    <3> HIDE DEF n
    <3>3. \A k \in 1 .. n + 1 : k \in 1 .. n \/ k = n + 1
      BY <3>2
    <3> QED BY <1>1, <2>1, <3>2, <3>3 DEF EdgeInv, ErasedOK
  <2>10. OnePlace(instructions)' /\ PhisLead(inst, instructions)'
    BY <1>1, <2>4, <2>5 DEF OnePlace, PhisLead
  <2> QED BY <1>5, <2>6, <2>7, <2>8, <2>9, <2>10 DEF EdgeInv
<1> QED BY <1>7, <1>8

\* The phis that are being made for the blocks that wait.
Below ==
    {<<stack[k].block, stack[k].phi, stack[k].pred>> :
        k \in {m \in DOMAIN stack : m < Len(stack) /\ stack[m].pc = "PushPhiArgument"}}

\* The phi of the frame on top, if it waits for an operand.
Waiting(top) ==
    IF top.pc = "PushPhiArgument" THEN {<<top.block, top.phi, top.pred>>} ELSE {}

\* The block on top is one more.
LEMMA MakingNow ==
    ASSUME IInv, Len(stack) > 1
    PROVE  Making = Below \cup Waiting(Top)
<1> DEFINE n == Len(stack)
<1>1. n \in Nat /\ n \in 1 .. n /\ DOMAIN stack = 1 .. n /\ Top = stack[n]
  BY ReadingFacts
<1>2. ASSUME NEW m \in DOMAIN stack
      PROVE  m < n \/ m = n
  BY <1>1
<1>3. Making \subseteq Below \cup Waiting(Top)
  <2> SUFFICES ASSUME NEW x \in Making
               PROVE  x \in Below \cup Waiting(Top)
    OBVIOUS
  <2>1. PICK k \in DOMAIN stack :
            /\ stack[k].pc = "PushPhiArgument"
            /\ x = <<stack[k].block, stack[k].phi, stack[k].pred>>
    BY DEF Making
  <2>2. CASE k < n
    BY <2>1, <2>2 DEF Below
  <2>3. CASE k = n
    BY <1>1, <2>1, <2>3 DEF Waiting
  <2> QED BY <1>2, <2>2, <2>3
<1>4. Below \subseteq Making
  BY DEF Below, Making
<1>5. Waiting(Top) \subseteq Making
  BY <1>1 DEF Waiting, Making
<1> QED BY <1>3, <1>4, <1>5

\* When the block on top returns, those that wait go on waiting.
LEMMA ReturnMaking ==
    ASSUME IInv, Len(stack) > 1, NEW E, DOMAIN inst \subseteq E, NEW top, top.block = Top.block,
           top \in Frame(E), NEW result \in Value(E),
           Return([stack EXCEPT ![Len(stack)] = top], result)
    PROVE  Making' = Below
<1> DEFINE n == Len(stack)
<1>1. n \in Nat /\ n > 1 /\ DOMAIN stack = 1 .. n
  BY ReadingFacts
<1>2. /\ DOMAIN stack' = 1 .. n - 1
      /\ \A k \in 1 .. n - 1 : /\ stack'[k].block = stack[k].block
                               /\ stack'[k].phi = stack[k].phi
                               /\ stack'[k].pred = stack[k].pred
                               /\ stack'[k].pc = stack[k].pc
  BY ReturnFrames
<1>3. \A k : k \in 1 .. n - 1 <=> k \in DOMAIN stack /\ k < n
  <2> HIDE DEF n
  <2> QED BY <1>1
<1> HIDE DEF n
<1>4. Making' = {<<stack'[k].block, stack'[k].phi, stack'[k].pred>> :
                    k \in {m \in 1 .. n - 1 : stack'[m].pc = "PushPhiArgument"}}
  BY <1>2 DEF Making
<1>5. Below = {<<stack[k].block, stack[k].phi, stack[k].pred>> :
                    k \in {m \in 1 .. n - 1 : stack[m].pc = "PushPhiArgument"}}
  <2>1. {m \in 1 .. n - 1 : stack[m].pc = "PushPhiArgument"} =
        {m \in DOMAIN stack : m < n /\ stack[m].pc = "PushPhiArgument"}
    BY <1>3
  <2> QED BY <2>1 DEF Below, n
<1>6. {m \in 1 .. n - 1 : stack[m].pc = "PushPhiArgument"} =
      {m \in 1 .. n - 1 : stack'[m].pc = "PushPhiArgument"}
  BY <1>2
<1>7. Making' \subseteq Below
  BY <1>2, <1>4, <1>5
<1>8. Below \subseteq Making'
  BY <1>2, <1>4, <1>5
<1> QED BY <1>7, <1>8

\* When the block on top waits for another, its phi is one of those being made.
LEMMA PushMaking ==
    ASSUME IInv, Len(stack) > 1, NEW E, DOMAIN inst \subseteq E, NEW top \in Frame(E),
           NEW b \in Blocks,
           stack' = Append([stack EXCEPT ![Len(stack)] = top], ReadState(b))
    PROVE  Making' = Below \cup Waiting(top)
<1> DEFINE n == Len(stack)
<1>1. n \in Nat /\ n > 1 /\ n = Len(stack) /\ DOMAIN stack = 1 .. n
  BY ReadingFacts
<1>2. /\ DOMAIN stack' = 1 .. n + 1
      /\ \A k \in 1 .. n + 1 :
            \/ k \in 1 .. n - 1 /\ stack'[k] = stack[k] /\ k \in DOMAIN stack /\ k < n
            \/ k = n /\ stack'[k] = top
            \/ k = n + 1 /\ stack'[k] = ReadState(b)
  BY PushFrames
<1>3. ReadState(b).pc = "Start"
  BY DEF ReadState
<1> HIDE DEF n
<1>4. Making' = {<<stack'[k].block, stack'[k].phi, stack'[k].pred>> :
                    k \in {m \in 1 .. n + 1 : stack'[m].pc = "PushPhiArgument"}}
  BY <1>2 DEF Making
<1>5. Making' \subseteq Below \cup Waiting(top)
  <2> SUFFICES ASSUME NEW x \in Making'
               PROVE  x \in Below \cup Waiting(top)
    OBVIOUS
  <2>1. PICK k \in 1 .. n + 1 :
            /\ stack'[k].pc = "PushPhiArgument"
            /\ x = <<stack'[k].block, stack'[k].phi, stack'[k].pred>>
    BY <1>4
  <2>2. CASE stack'[k] = stack[k] /\ k \in DOMAIN stack /\ k < n
    BY <1>1, <2>1, <2>2 DEF Below
  <2>3. CASE k = n /\ stack'[k] = top
    BY <2>1, <2>3 DEF Waiting
  <2>4. stack'[k] # ReadState(b)
    BY <1>3, <2>1
  <2> QED BY <1>2, <2>2, <2>3, <2>4
<1>6. Below \subseteq Making'
  <2> SUFFICES ASSUME NEW x \in Below
               PROVE  x \in Making'
    OBVIOUS
  <2>1. PICK k \in DOMAIN stack :
            /\ k < n /\ stack[k].pc = "PushPhiArgument"
            /\ x = <<stack[k].block, stack[k].phi, stack[k].pred>>
    BY <1>1 DEF Below
  <2>2. k \in 1 .. n + 1 /\ k # n /\ k # n + 1
    BY <1>1, <2>1
  <2>3. stack'[k] = stack[k]
    BY <1>2, <2>2
  <2> QED BY <1>4, <2>1, <2>2, <2>3
<1>7. Waiting(top) \subseteq Making'
  <2>1. n \in 1 .. n + 1 /\ n # n + 1 /\ n \notin 1 .. n - 1
    BY <1>1
  <2>2. stack'[n] = top
    BY <1>2, <2>1
  <2> QED BY <1>4, <2>1, <2>2 DEF Waiting
<1> QED BY <1>5, <1>6, <1>7

\* A turn of ReadVariable seals nothing and goes nowhere.
LEMMA TurnSeals ==
    ASSUME IInv, EdgeInv, Len(stack) > 1, KeepWhileReading,
           \A j \in DOMAIN inst : inst[j].op # "Phi" => inst'[j].op = inst[j].op,
           sealing # 0 => Incomplete(Block)' = Incomplete(Block)
    PROVE  SealsInOrder'
<1>1. UNCHANGED <<program, ssa_sealed, cursor, current, sealing, read, phase>>
  BY DEF KeepWhileReading, place
<1>2. Block' = Block /\ \A b : Preds(b)' = Preds(b)
  BY <1>1 DEF Block, Preds
<1>3. read # 0
  BY ReadingFacts
<1>4. ASSUME sealing = 0
      PROVE  inst'[current].op = "Get"
  <2>1. inst[current].op = "Get" /\ current # 0
    BY <1>3, <1>4 DEF EdgeInv, SealsInOrder, IInv, ReadsFor
  <2>2. current \in DOMAIN inst
    BY <2>1 DEF IInv, TypeOK, PlacesOK
  <2> QED BY <2>1, <2>2
<1> QED BY <1>1, <1>2, <1>4 DEF EdgeInv, SealsInOrder

\* A turn that makes no incomplete phi.
LEMMA TurnIncomplete ==
    ASSUME IInv, EdgeInv, Len(stack) > 1, KeepWhileReading, UNCHANGED incomplete_phis,
           \A b \in Blocks, v \in Variable :
                /\ incomplete_phis[b][v] # 0 =>
                        inst'[incomplete_phis[b][v]].preds = inst[incomplete_phis[b][v]].preds
                /\ current_def[b][v] # Empty => current_def'[b][v] # Empty
    PROVE  IncompleteOK(inst)'
<1>1. UNCHANGED <<program, ssa_sealed, cursor, sealing, incomplete_phis>>
  BY DEF KeepWhileReading, place
<1>2. Blocks' = Blocks /\ \A b, v : Received(b, v)' = Received(b, v)
  BY <1>1 DEF Blocks, Received, Block, Preds, Incomplete
<1> QED BY <1>1, <1>2 DEF EdgeInv, IncompleteOK

\* A turn that only returns a value.
LEMMA ReturnTopEdges ==
    ASSUME IInv, EdgeInv, KeepWhileReading, UNCHANGED <<ir, incomplete_phis>>, Len(stack) > 1,
           Top.pc # "PushPhiArgument",
           NEW result \in Value(DOMAIN inst), result # Empty, Return(stack, result)
    PROVE  EdgeInv'
<1>1. UNCHANGED <<program, inst, instructions, incomplete_phis, ssa_sealed, to_invalidate>>
  BY DEF KeepWhileReading, ir
<1>2. Top \in Frame(DOMAIN inst) /\ Top.block \in Blocks /\ read \in Variable
  <2>1. Len(stack) \in 1 .. Len(stack)
    BY ReadingFacts
  <2> QED BY <2>1, ReadingFacts
<1>3. Return([stack EXCEPT ![Len(stack)] = Top], result)
  BY TopInPlace
<1>4. /\ Making' = Below
      /\ current_def' = [current_def EXCEPT ![Top.block][read] = result]
  BY <1>2, <1>3, ReturnMaking, ReturnFrames
<1>5. Making = Below
  BY MakingNow DEF Waiting
<1>6. \A b \in Blocks, v \in Variable : current_def[b][v] # Empty => current_def'[b][v] # Empty
  BY <1>2, <1>4 DEF IInv, TypeOK, PlacesOK
<1>7. IncompleteOK(inst)'
  BY <1>1, <1>6, TurnIncomplete
<1>8. SealsInOrder'
  <2>1. Incomplete(Block)' = Incomplete(Block)
    BY <1>1 DEF Incomplete, Block, KeepWhileReading, place
  <2> QED BY <1>1, <2>1, TurnSeals
<1>9. Blocks' = Blocks /\ Making' = Making /\ \A b : Preds(b)' = Preds(b)
  BY <1>1, <1>4, <1>5 DEF Blocks, Preds
<1>10. OnePlace(instructions)' /\ PhisLead(inst, instructions)' /\ ErasedOK(inst)'
  BY <1>1, <1>9 DEF EdgeInv, OnePlace, PhisLead, ErasedOK
<1>11. MakingOK(inst, Making)' /\ PredsOK(inst, instructions, Making)'
  BY <1>1, <1>9 DEF EdgeInv, MakingOK, PredsOK
<1> QED BY <1>7, <1>8, <1>10, <1>11 DEF EdgeInv

\* The block has a definition of the variable.
LEMMA ReadDefinedEdges ==
    ASSUME IInv, EdgeInv, ReadDefined
    PROVE  EdgeInv'
<1>1. /\ Len(stack) > 1 /\ Top.pc = "Start" /\ current_def[Top.block][read] # Empty
      /\ Return(stack, current_def[Top.block][read])
      /\ UNCHANGED <<ir, incomplete_phis>>
      /\ KeepWhileReading
  BY DEF ReadDefined, Reading
<1>2. current_def[Top.block][read] \in Value(DOMAIN inst)
  BY <1>1, ReadingFacts
<1> QED BY <1>1, <1>2, ReturnTopEdges

\* What the one predecessor gave is what the block gives.
LEMMA SetValueEdges ==
    ASSUME IInv, EdgeInv, SetValue
    PROVE  EdgeInv'
<1>1. /\ Len(stack) > 1 /\ Top.pc = "SetValue"
      /\ Return(stack, Top.result)
      /\ UNCHANGED <<ir, incomplete_phis>>
      /\ KeepWhileReading
  BY DEF SetValue, Reading
<1>2. Top.result \in Value(DOMAIN inst) /\ Top.result # Empty
  <2>1. Len(stack) \in 1 .. Len(stack) /\ stack # <<>> /\ Top = stack[Len(stack)]
    BY <1>1, ReadingFacts
  <2>2. Top \in Frame(DOMAIN inst)
    BY <1>1, <2>1, ReadingFacts
  <2> QED BY <1>1, <2>1, <2>2 DEF Frame, IInv, StackOK
<1> QED BY <1>1, <1>2, ReturnTopEdges

\* A block that waits for its one predecessor makes no phi.
LEMMA ReadOnePredecessorEdges ==
    ASSUME IInv, EdgeInv, ReadOnePredecessor
    PROVE  EdgeInv'
<1> DEFINE top == [Top EXCEPT !.pc = "SetValue"]
           b == Preds(Top.block)[1]
           n == Len(stack)
<1>1. /\ n > 1 /\ Len(Preds(Top.block)) = 1 /\ Top.pc = "Start"
      /\ stack' = Append([stack EXCEPT ![n].pc = "SetValue"], ReadState(b))
      /\ UNCHANGED <<program, inst, instructions, current_def, incomplete_phis, ssa_sealed, cursor,
                     to_invalidate>>
      /\ KeepWhileReading
  BY DEF ReadOnePredecessor, Reading, KeepWhileReading, ir, defs, place
<1>2. n \in DOMAIN stack /\ n \in 1 .. n /\ Top = stack[n] /\ Top \in Frame(DOMAIN inst)
  BY <1>1, ReadingFacts
<1>3. [stack EXCEPT ![n].pc = "SetValue"] = [stack EXCEPT ![n] = top]
  BY <1>2
<1>4. top \in Frame(DOMAIN inst) /\ top.pc = "SetValue"
  BY <1>2 DEF Frame, Statuses
<1>5. b \in Blocks
  <2>1. 1 \in 1 .. Len(Preds(Top.block))
    BY <1>1
  <2> QED BY <1>1, <2>1, ReadingFacts
<1> HIDE DEF top, b
<1>6. Making' = Below
  BY <1>1, <1>3, <1>4, <1>5, PushMaking DEF Waiting
<1>7. Making = Below
  BY <1>1, MakingNow DEF Waiting
<1>8. IncompleteOK(inst)'
  BY <1>1, TurnIncomplete
<1>9. SealsInOrder'
  <2>1. Incomplete(Block)' = Incomplete(Block)
    BY <1>1 DEF Incomplete, Block
  <2> QED BY <1>1, <2>1, TurnSeals
<1>10. Blocks' = Blocks /\ Making' = Making /\ \A c : Preds(c)' = Preds(c)
  BY <1>1, <1>6, <1>7 DEF Blocks, Preds
<1>11. OnePlace(instructions)' /\ PhisLead(inst, instructions)' /\ ErasedOK(inst)'
  BY <1>1, <1>10 DEF EdgeInv, OnePlace, PhisLead, ErasedOK
<1>12. MakingOK(inst, Making)' /\ PredsOK(inst, instructions, Making)'
  BY <1>1, <1>10 DEF EdgeInv, MakingOK, PredsOK
<1> QED BY <1>8, <1>9, <1>11, <1>12 DEF EdgeInv

\* The phis that are being made are in the lists of their blocks.
LEMMA MakingFacts ==
    ASSUME IInv, NEW m \in Making
    PROVE  /\ m[1] \in Blocks /\ m[2] \in DOMAIN inst
           /\ Contains(instructions[m[1]], m[2])
           /\ m[3] \in 1 .. Len(Preds(m[1]))
<1>1. PICK k \in DOMAIN stack :
            /\ stack[k].pc = "PushPhiArgument"
            /\ m = <<stack[k].block, stack[k].phi, stack[k].pred>>
  BY DEF Making
<1>2. k > 1
  <2>1. stack \in Seq(Frame(DOMAIN inst))
    BY DEF IInv, TypeOK, PlacesOK
  <2>2. k \in Nat /\ k >= 1 /\ stack # <<>>
    BY <1>1, <2>1, LenProperties
  <2>3. k # 1
    BY <1>1, <2>2 DEF IInv, StackOK
  <2> QED BY <2>2, <2>3
<1>3. m[1] \in Blocks /\ Contains(instructions[m[1]], m[2]) /\ m[3] \in 1 .. Len(Preds(m[1]))
  BY <1>1, <1>2 DEF IInv, StackOK
<1> QED BY <1>3, AtFacts, ListedInPool DEF IInv

\* A phi at the head of a list: one more phi without operands, before the others.
LEMMA PrependEdges ==
    ASSUME IInv, EdgeInv, Len(stack) > 1
    PROVE  LET grown == Append(inst, NewInst("Phi"))
               new == Len(inst) + 1
               lists == [instructions EXCEPT ![Top.block] = <<new>> \o @]
           IN  /\ OnePlace(lists) /\ PhisLead(grown, lists) /\ ErasedOK(grown)
               /\ grown[new].op = "Phi" /\ grown[new].preds = <<>>
               /\ \A c \in Blocks : \A j :
                    Contains(lists[c], j) =>
                        Contains(instructions[c], j) \/ (c = Top.block /\ j = new)
<1> DEFINE grown == Append(inst, NewInst("Phi"))
           new == Len(inst) + 1
           lists == [instructions EXCEPT ![Top.block] = <<new>> \o @]
           E == DOMAIN grown
           list == instructions[Top.block]
<1>1. /\ E = DOMAIN inst \cup {new} /\ new \notin DOMAIN inst
      /\ \A j \in DOMAIN inst : grown[j] = inst[j]
      /\ grown[new] = NewInst("Phi")
      /\ lists \in [Blocks -> Seq(E)]
  BY PrependEffect
<1>2. /\ Top.block \in Blocks /\ list \in Seq(DOMAIN inst)
      /\ instructions \in [Blocks -> Seq(DOMAIN inst)]
  BY ReadingFacts DEF IInv, TypeOK, PlacesOK
<1>3. /\ lists[Top.block] = <<new>> \o list
      /\ \A b \in Blocks : b # Top.block => lists[b] = instructions[b]
  BY <1>2
<1>4. grown[new].op = "Phi" /\ grown[new].preds = <<>>
  BY <1>1 DEF NewInst
<1> HIDE DEF grown, new, lists
<1>5. list \in Seq(E) /\ new \in E
  <2>1. Seq(DOMAIN inst) \subseteq Seq(E)
    BY <1>1, Monotonic
  <2> QED BY <1>1, <1>2, <2>1
<1> HIDE DEF E
<1>6. OnePlace(instructions) /\ PhisLead(inst, instructions) /\ ErasedOK(inst)
  BY DEF EdgeInv
<1>7. Once(list) /\ PhisFirst(grown, list) /\ ~Contains(list, new)
  <2>1. PhisLead(grown, instructions)
    BY <1>1, <1>6, ListsStay
  <2>2. ~Contains(list, new)
    BY <1>1, <1>2, ListedInPool
  <2> QED BY <1>2, <1>6, <2>1, <2>2 DEF OnePlace, PhisLead
<1>8. /\ \A j : Contains(<<new>> \o list, j) <=> j = new \/ Contains(list, j)
      /\ Once(<<new>> \o list) /\ PhisFirst(grown, <<new>> \o list)
  <2> HIDE DEF list
  <2> QED BY <1>4, <1>5, <1>7, PrependMembers
<1>9. OnePlace(lists) /\ PhisLead(grown, lists)
  <2> DEFINE b == Top.block
  <2>1. \A c \in Blocks : instructions[c] \in Seq(DOMAIN inst)
    BY <1>2
  <2>2. /\ b \in Blocks
        /\ \A c \in Blocks : c # b => lists[c] = instructions[c]
        /\ \A j : Contains(lists[b], j) => Contains(instructions[b], j) \/ j \notin DOMAIN inst
        /\ Once(lists[b]) /\ PhisFirst(grown, lists[b])
    BY <1>1, <1>2, <1>3, <1>8
  <2>3. \A c \in Blocks : c # b =>
            \A j : Contains(instructions[c], j) => (grown[j].op = "Phi" <=> inst[j].op = "Phi")
    BY <1>1, <2>1, ListedInPool
  <2> HIDE DEF b
  <2> QED BY <1>6, <2>1, <2>2, <2>3, ListsMoved
<1>10. ErasedOK(grown)
  <2> SUFFICES ASSUME NEW k \in DOMAIN to_invalidate
               PROVE  grown[to_invalidate[k]].op \in {"Identity", "Void"}
    BY DEF ErasedOK
  <2>1. to_invalidate \in Seq(DOMAIN inst)
    BY DEF IInv, TypeOK, PlacesOK
  <2>2. to_invalidate[k] \in DOMAIN inst
    BY <2>1, ElementOfSeq, LenProperties
  <2> QED BY <1>1, <1>6, <2>2 DEF ErasedOK
<1>11. \A c \in Blocks : \A j :
            Contains(lists[c], j) => Contains(instructions[c], j) \/ (c = Top.block /\ j = new)
  BY <1>3, <1>8
<1> QED BY <1>4, <1>9, <1>10, <1>11 DEF grown, new, lists

\* While a block is sealed, the variable that is read has a definition there.
LEMMA SealingIsDefined ==
    ASSUME IInv, EdgeInv, sealing # 0, Len(stack) > 1
    PROVE  /\ Block \in Blocks /\ read = Lowest(Incomplete(Block))
           /\ current_def[Block][read] # Empty
<1>1. read \in Variable /\ read # 0 /\ phase = "rewrite" /\ Block \in Blocks
  BY ReadingFacts, AtFacts DEF IInv
<1>2. incomplete_phis[Block][read] # 0 /\ read = Lowest(Incomplete(Block))
  BY <1>1 DEF IInv, ReadsFor, EdgeInv, SealsInOrder
<1> QED BY <1>1, <1>2 DEF EdgeInv, IncompleteOK

\* The new phi is incomplete and is the definition of its variable.
LEMMA ReadUnsealedEdges ==
    ASSUME IInv, EdgeInv, ReadUnsealed
    PROVE  EdgeInv'
<1> DEFINE new == Len(inst) + 1
<1>1. /\ Len(stack) > 1 /\ Top.pc = "Start"
      /\ current_def[Top.block][read] = Empty /\ Top.block \notin ssa_sealed
      /\ inst' = Append(inst, NewInst("Phi"))
      /\ instructions' = [instructions EXCEPT ![Top.block] = <<new>> \o @]
      /\ incomplete_phis' = [incomplete_phis EXCEPT ![Top.block][read] = new]
      /\ Return(stack, InstValue(new))
      /\ UNCHANGED <<program, ssa_sealed, cursor, sealing, to_invalidate>>
      /\ KeepWhileReading
  BY DEF ReadUnsealed, Reading, PrependPhi, KeepWhileReading, place
<1>2. /\ DOMAIN inst' = DOMAIN inst \cup {new} /\ new \notin DOMAIN inst /\ new # 0
      /\ \A j \in DOMAIN inst : inst'[j] = inst[j]
  BY <1>1, PrependEffect
<1>3. /\ OnePlace(instructions') /\ PhisLead(inst', instructions') /\ ErasedOK(inst')
      /\ inst'[new].op = "Phi" /\ inst'[new].preds = <<>>
      /\ \A c \in Blocks : \A j :
            Contains(instructions'[c], j) =>
                Contains(instructions[c], j) \/ (c = Top.block /\ j = new)
  BY <1>1, PrependEdges
<1> HIDE DEF new
<1>4. Top.block \in Blocks /\ read \in Variable
  BY <1>1, ReadingFacts
<1>5. incomplete_phis[Top.block][read] = 0
  BY <1>1, <1>4 DEF EdgeInv, IncompleteOK
<1>6. \A b \in Blocks, v \in Variable :
        /\ incomplete_phis'[b][v] = IF b = Top.block /\ v = read THEN new
                                    ELSE incomplete_phis[b][v]
        /\ incomplete_phis[b][v] \in DOMAIN inst \cup {0}
  BY <1>1, <1>4 DEF IInv, TypeOK, PlacesOK
<1>7. /\ Making' = Below
      /\ current_def' = [current_def EXCEPT ![Top.block][read] = InstValue(new)]
  <2>1. Return([stack EXCEPT ![Len(stack)] = Top], InstValue(new))
    BY <1>1, TopInPlace
  <2> DEFINE E == DOMAIN inst'
  <2>2. Top \in Frame(E)
    <3>1. Len(stack) \in 1 .. Len(stack)
      BY <1>1, ReadingFacts
    <3>2. Top \in Frame(DOMAIN inst) /\ DOMAIN inst \subseteq E
      BY <1>1, <1>2, <3>1, ReadingFacts
    <3>3. Value(DOMAIN inst) \subseteq Value(E)
      BY <3>2, Monotonic
    <3> QED BY <3>2, <3>3 DEF Frame
  <2>3. InstValue(new) \in Value(E) /\ DOMAIN inst \subseteq E
    BY <1>2 DEF Value
  <2> HIDE DEF E
  <2> QED BY <1>1, <2>1, <2>2, <2>3, ReturnMaking, ReturnFrames
<1>8. InstValue(new) # Empty
  BY InstValues
<1>9. \A b \in Blocks, v \in Variable :
        current_def'[b][v] = IF b = Top.block /\ v = read THEN InstValue(new)
                             ELSE current_def[b][v]
  BY <1>4, <1>7 DEF IInv, TypeOK, PlacesOK
<1>10. Blocks' = Blocks /\ Block' = Block /\ \A b : Preds(b)' = Preds(b)
  BY <1>1 DEF Blocks, Block, Preds
<1>11. ASSUME sealing # 0
       PROVE  Incomplete(Block)' = Incomplete(Block) /\ Top.block # Block
  <2>1. Top.block # Block /\ Block \in Blocks
    BY <1>1, <1>11, SealingIsDefined
  <2>2. \A v \in Variable : incomplete_phis'[Block][v] = incomplete_phis[Block][v]
    BY <1>6, <2>1
  <2> QED BY <1>10, <2>1, <2>2 DEF Incomplete
<1>12. SealsInOrder'
  BY <1>1, <1>2, <1>11, TurnSeals
<1>13. IncompleteOK(inst)'
  <2> SUFFICES ASSUME NEW b \in Blocks, NEW v \in Variable, incomplete_phis'[b][v] # 0
               PROVE  /\ b \notin ssa_sealed
                      /\ current_def'[b][v] # Empty
                      /\ inst'[incomplete_phis'[b][v]].preds = Received(b, v)'
                      /\ \A w \in Variable :
                            incomplete_phis'[b][w] = incomplete_phis'[b][v] => w = v
    BY <1>1, <1>10, ZenonT(60) DEF IncompleteOK
  <2>1. CASE b = Top.block /\ v = read
    <3>1. Received(b, v)' = <<>>
      BY <1>1, <1>10, <1>11, <2>1 DEF Received
    <3>2. \A w \in Variable : incomplete_phis'[b][w] = new => w = v
      BY <1>2, <1>6, <2>1
    <3>3. incomplete_phis'[b][v] = new /\ current_def'[b][v] = InstValue(new)
      BY <1>6, <1>9, <2>1
    <3>4. b \notin ssa_sealed
      BY <1>1, <2>1
    <3> QED BY <1>3, <1>8, <3>1, <3>2, <3>3, <3>4
  <2>2. CASE ~(b = Top.block /\ v = read)
    <3>1. incomplete_phis'[b][v] = incomplete_phis[b][v] /\ incomplete_phis[b][v] \in DOMAIN inst
      BY <1>6, <2>2
    <3>2. /\ b \notin ssa_sealed /\ current_def[b][v] # Empty
          /\ inst[incomplete_phis[b][v]].preds = Received(b, v)
          /\ \A w \in Variable : incomplete_phis[b][w] = incomplete_phis[b][v] => w = v
      BY <3>1 DEF EdgeInv, IncompleteOK
    <3>3. Received(b, v)' = Received(b, v)
      BY <1>1, <1>10, <1>11 DEF Received
    <3>4. \A w \in Variable : incomplete_phis'[b][w] = incomplete_phis'[b][v] => w = v
      BY <1>2, <1>6, <3>1, <3>2
    <3> QED BY <1>2, <1>9, <2>2, <3>1, <3>2, <3>3, <3>4
  <2> QED BY <2>1, <2>2
<1>14. Making' = Making
  <2>1. Making = Below
    BY <1>1, MakingNow DEF Waiting
  <2> QED BY <1>7, <2>1
<1>15. MakingOK(inst, Making)'
  BY <1>1, <1>2, <1>10, <1>14, MakingFacts DEF EdgeInv, MakingOK
<1>16. PredsOK(inst, instructions, Making)'
  <2> SUFFICES ASSUME NEW b \in Blocks, NEW j, Contains(instructions'[b], j), inst'[j].op = "Phi"
               PROVE  \/ inst'[j].preds = Preds(b)
                      \/ \E v \in Variable : incomplete_phis'[b][v] = j
                      \/ \E m \in Making : m[1] = b /\ m[2] = j
    BY <1>10, <1>14 DEF PredsOK
  <2>1. CASE b = Top.block /\ j = new
    BY <1>4, <1>6, <2>1
  <2>2. CASE Contains(instructions[b], j)
    <3>1. j \in DOMAIN inst
      BY <2>2, AtFacts, ListedInPool DEF IInv
    <3>2. \/ inst[j].preds = Preds(b)
          \/ \E v \in Variable : incomplete_phis[b][v] = j
          \/ \E m \in Making : m[1] = b /\ m[2] = j
      BY <1>2, <2>2, <3>1 DEF EdgeInv, PredsOK
    <3>3. ASSUME NEW v \in Variable, incomplete_phis[b][v] = j
          PROVE  incomplete_phis'[b][v] = j
      <4>1. j # 0
        BY <3>1, AtFacts DEF IInv
      <4> QED BY <1>5, <1>6, <3>3, <4>1
    <3> QED BY <1>2, <3>1, <3>2, <3>3
  <2> QED BY <1>3, <2>1, <2>2
<1>17. OnePlace(instructions)' /\ PhisLead(inst, instructions)' /\ ErasedOK(inst)'
  BY <1>1, <1>3, <1>10 DEF OnePlace, PhisLead, ErasedOK
<1> QED BY <1>12, <1>13, <1>15, <1>16, <1>17 DEF EdgeInv

\* A phi that is being made in the frame on top, with an operand for each
\* predecessor before the next, in a pool and lists that are in order.
Prepared(in, lists, top) ==
    /\ OnePlace(lists) /\ PhisLead(in, lists) /\ ErasedOK(in)
    /\ \A j \in DOMAIN inst : in[j].op = inst[j].op
    /\ \A j \in DOMAIN inst : j # top.phi => in[j].preds = inst[j].preds
    /\ top.block \in ssa_sealed
    /\ in[top.phi].op = "Phi"
    /\ in[top.phi].preds = SubSeq(Preds(top.block), 1, top.pred - 1)
    /\ top.pred - 1 <= Len(Preds(top.block))
    /\ PredsOK(in, lists, Below \cup {<<top.block, top.phi, top.pred>>})

\* Then the phi waits for its next operand, or it has them all.
LEMMA PrepareEdges ==
    ASSUME IInv, EdgeInv, Len(stack) > 1, KeepWhileReading, UNCHANGED incomplete_phis,
           NEW in, PoolOK(in), NoneEmpty(in), Counted(in), DOMAIN inst \subseteq DOMAIN in,
           NEW lists \in [Blocks -> Seq(DOMAIN in)],
           \A b \in Blocks : \A j : Contains(instructions[b], j) => Contains(lists[b], j),
           NEW top \in Frame(DOMAIN in), top.block = Top.block, top.phi \in DOMAIN in,
           Contains(lists[top.block], top.phi), top.pred # 0,
           \A k \in 1 .. Len(stack) - 1 :
                stack[k].pc = "PushPhiArgument" => stack[k].block # top.block,
           PreparePhiOperand([stack EXCEPT ![Len(stack)] = top], in, lists),
           top.pred <= Len(Preds(top.block)) =>
                \A c \in Blocks, v \in Variable :
                    current_def[c][v] # Empty => current_def'[c][v] # Empty,
           Prepared(in, lists, top)
    PROVE  EdgeInv'
<1> DEFINE n == Len(stack)
           P == Preds(top.block)
           mine == <<top.block, top.phi, top.pred>>
<1>1. /\ OnePlace(lists) /\ PhisLead(in, lists) /\ ErasedOK(in)
      /\ \A j \in DOMAIN inst : in[j].op = inst[j].op
      /\ \A j \in DOMAIN inst : j # top.phi => in[j].preds = inst[j].preds
      /\ top.block \in ssa_sealed
      /\ in[top.phi].op = "Phi"
      /\ in[top.phi].preds = SubSeq(P, 1, top.pred - 1)
      /\ top.pred - 1 <= Len(P)
      /\ PredsOK(in, lists, Below \cup {mine})
  BY DEF Prepared
<1>2. /\ top.block \in Blocks /\ Len(P) \in Nat /\ top.pred \in Nat /\ n \in Nat
      /\ DOMAIN stack = 1 .. n /\ read \in Variable /\ phase = "rewrite"
  BY ReadingFacts DEF Frame
<1>3. UNCHANGED <<program, ssa_sealed, cursor, sealing, to_invalidate>>
  BY DEF KeepWhileReading, place
<1>4. Blocks' = Blocks /\ Block' = Block /\ \A b : Preds(b)' = Preds(b)
  BY <1>3 DEF Blocks, Block, Preds
<1>5. \A m \in Below : /\ m[1] \in Blocks /\ m[2] \in DOMAIN inst
                       /\ Contains(instructions[m[1]], m[2])
                       /\ m[1] \in ssa_sealed /\ inst[m[2]].op = "Phi"
                       /\ inst[m[2]].preds = SubSeq(Preds(m[1]), 1, m[3] - 1)
  <2>1. Below \subseteq Making
    BY MakingNow
  <2> QED BY <2>1, MakingFacts DEF EdgeInv, MakingOK
<1>6. \A m \in Below : m[1] # top.block
  <2>1. \A k \in DOMAIN stack : k < n => k \in 1 .. n - 1
    <3> HIDE DEF n
    <3> QED BY <1>2
  <2> QED BY <2>1 DEF Below
<1>7. \A m \in Below : m[2] # top.phi
  BY <1>1, <1>2, <1>5, <1>6 DEF OnePlace
<1>8. MakingOK(in, Below)
  BY <1>1, <1>5, <1>7 DEF MakingOK
<1>9. \A b \in Blocks, v \in Variable :
        incomplete_phis[b][v] # 0 =>
            /\ incomplete_phis[b][v] \in DOMAIN inst
            /\ incomplete_phis[b][v] # top.phi
            /\ in[incomplete_phis[b][v]].preds = inst[incomplete_phis[b][v]].preds
  <2> SUFFICES ASSUME NEW b \in Blocks, NEW v \in Variable, incomplete_phis[b][v] # 0
               PROVE  /\ incomplete_phis[b][v] \in DOMAIN inst
                      /\ incomplete_phis[b][v] # top.phi
    BY <1>1
  <2>1. incomplete_phis[b][v] \in DOMAIN inst
    BY AtFacts DEF IInv
  <2>2. b # top.block
    BY <1>1 DEF EdgeInv, IncompleteOK
  <2>3. Contains(lists[b], incomplete_phis[b][v])
    BY <1>2 DEF IInv, Listed
  <2> QED BY <1>1, <1>2, <2>1, <2>2, <2>3 DEF OnePlace
<1>10. sealing # 0 => Incomplete(Block)' = Incomplete(Block)
  BY <1>4 DEF Incomplete
<1>11. CASE top.pred \in 1 .. Len(P)
  <2> DEFINE waits == [top EXCEPT !.pc = "PushPhiArgument"]
             b == Preds(top.block)[top.pred]
  <2>1. ~(top.pred > Len(P)) /\ top.pred <= Len(P)
    <3> HIDE DEF P
    <3> QED BY <1>2, <1>11
  <2>2. /\ inst' = in /\ instructions' = lists
        /\ stack' = Append([stack EXCEPT ![n] = waits], ReadState(b))
        /\ b \in Blocks /\ waits \in Frame(DOMAIN in)
    BY <2>1, PrepareEffect
  <2>3. /\ waits.pc = "PushPhiArgument"
        /\ waits.block = top.block /\ waits.phi = top.phi /\ waits.pred = top.pred
    BY DEF Frame
  <2> HIDE DEF waits, b
  <2>4. Making' = Below \cup {mine}
    BY <2>2, <2>3, PushMaking DEF Waiting
  <2>5. MakingOK(in, Below \cup {mine})
    BY <1>1, <1>8 DEF MakingOK
  <2>6. SealsInOrder'
    BY <1>1, <1>10, <2>2, TurnSeals
  <2>7. IncompleteOK(inst)'
    BY <1>9, <2>1, <2>2, TurnIncomplete
  <2>8. OnePlace(instructions)' /\ PhisLead(inst, instructions)' /\ ErasedOK(inst)'
    BY <1>1, <1>3, <1>4, <2>2 DEF OnePlace, PhisLead, ErasedOK
  <2> DEFINE making == Below \cup {mine}
  <2>9. /\ MakingOK(in, making) /\ PredsOK(in, lists, making)
        /\ Making' = making
    BY <1>1, <2>4, <2>5
  <2> HIDE DEF making, mine, P
  <2>10. MakingOK(inst, Making)'
    <3> SUFFICES ASSUME NEW m \in making
                 PROVE  /\ m[1] \in ssa_sealed
                        /\ in[m[2]].op = "Phi"
                        /\ in[m[2]].preds = SubSeq(Preds(m[1]), 1, m[3] - 1)
      BY <1>3, <1>4, <2>2, <2>9 DEF MakingOK
    <3> QED BY <2>9 DEF MakingOK
  <2>11. PredsOK(inst, instructions, Making)'
    <3> SUFFICES ASSUME NEW c \in Blocks, NEW j, Contains(lists[c], j), in[j].op = "Phi"
                 PROVE  \/ in[j].preds = Preds(c)
                        \/ \E v \in Variable : incomplete_phis[c][v] = j
                        \/ \E m \in making : m[1] = c /\ m[2] = j
      BY <1>4, <2>2, <2>9 DEF PredsOK
    <3> QED BY <2>9 DEF PredsOK
  <2> QED BY <2>6, <2>7, <2>8, <2>10, <2>11 DEF EdgeInv
<1>12. CASE ~(top.pred \in 1 .. Len(P))
  <2> DEFINE moved == instructions'
  <2>1. instructions' = [lists EXCEPT ![top.block] = instructions'[top.block]]
    BY <1>12, PrepareEffect
  <2>2. PICK result : /\ Return([stack EXCEPT ![n] = top], result)
                      /\ Removal(in, lists[top.block], top.phi, inst', moved[top.block], result)
    BY <1>12, PrepareEffect
  <2>3. top.pred - 1 = Len(P)
    <3> HIDE DEF P
    <3> QED BY <1>1, <1>2, <1>12
  <2>4. in[top.phi].preds = P
    <3>1. P \in Seq(Blocks)
      BY <1>2 DEF IInv, TypeOK, WellFormed, Preds, Blocks
    <3> HIDE DEF P
    <3> QED BY <1>1, <2>3, <3>1, AllOfSeq
  <2> DEFINE E == DOMAIN inst'
  <2>5. /\ DOMAIN in \subseteq E /\ DOMAIN inst \subseteq E
        /\ result \in Value(E) /\ result # Empty
        /\ \A j \in DOMAIN in :
                j # top.phi => inst'[j].op = in[j].op /\ inst'[j].preds = in[j].preds
    BY <2>2 DEF Removal
  <2>6. top \in Frame(E)
    <3>1. Value(DOMAIN in) \subseteq Value(E)
      BY <2>5, Monotonic
    <3> QED BY <2>5, <3>1 DEF Frame
  <2> HIDE DEF E
  <2>7. /\ Making' = Below
        /\ current_def' = [current_def EXCEPT ![Top.block][read] = result]
    BY <2>2, <2>5, <2>6, ReturnMaking, ReturnFrames, ZenonT(60)
  <2>8. \A b \in Blocks, v \in Variable : current_def[b][v] # Empty => current_def'[b][v] # Empty
    BY <1>2, <2>5, <2>7 DEF IInv, TypeOK, PlacesOK
  <2>9. RemovalIn(in, lists, top.block, top.phi, inst', moved, result)
    <3>1. \A c \in Blocks : c # top.block => moved[c] = lists[c]
      BY <1>2, <2>1
    <3>2. to_invalidate \in Seq(DOMAIN in)
      BY PlacesGrow DEF IInv, TypeOK, PlacesOK
    <3> HIDE DEF moved
    <3> QED BY <1>1, <1>2, <2>2, <3>1, <3>2 DEF RemovalIn
  <2>10. /\ OnePlace(moved) /\ PhisLead(inst', moved) /\ ErasedOK(inst')
         /\ \A c \in Blocks : \A j :
                Contains(moved[c], j) /\ inst'[j].op = "Phi" =>
                    /\ Contains(lists[c], j) /\ in[j].op = "Phi"
                    /\ inst'[j].preds = in[j].preds
    BY <2>9, RemovalEdges
  <2>11. SealsInOrder'
    <3>1. \A j \in DOMAIN inst : inst[j].op # "Phi" => inst'[j].op = inst[j].op
      BY <1>1, <2>5
    <3> QED BY <1>10, <3>1, TurnSeals
  <2>12. IncompleteOK(inst)'
    <3>1. \A b \in Blocks, v \in Variable :
            incomplete_phis[b][v] # 0 =>
                inst'[incomplete_phis[b][v]].preds = inst[incomplete_phis[b][v]].preds
      BY <1>9, <2>5
    <3> QED BY <2>8, <3>1, TurnIncomplete
  <2>13. OnePlace(instructions)' /\ PhisLead(inst, instructions)' /\ ErasedOK(inst)'
    BY <1>3, <1>4, <2>10 DEF OnePlace, PhisLead, ErasedOK
  <2>14. MakingOK(inst, Making)'
    <3>1. \A m \in Below : m[2] \in DOMAIN in /\ m[2] # top.phi
      BY <1>5, <1>7
    <3> QED BY <1>3, <1>4, <1>8, <2>5, <2>7, <3>1 DEF MakingOK
  <2>15. PredsOK(inst, instructions, Making)'
    <3> SUFFICES ASSUME NEW b \in Blocks, NEW j, Contains(moved[b], j), inst'[j].op = "Phi"
                 PROVE  \/ inst'[j].preds = Preds(b)
                        \/ \E v \in Variable : incomplete_phis[b][v] = j
                        \/ \E m \in Below : m[1] = b /\ m[2] = j
      BY <1>4, <2>7 DEF PredsOK
    <3>1. Contains(lists[b], j) /\ in[j].op = "Phi" /\ inst'[j].preds = in[j].preds
      BY <2>10
    <3>2. \/ in[j].preds = Preds(b)
          \/ \E v \in Variable : incomplete_phis[b][v] = j
          \/ \E m \in Below \cup {mine} : m[1] = b /\ m[2] = j
      BY <1>1, <3>1 DEF PredsOK
    <3>3. mine[1] = b /\ mine[2] = j => in[j].preds = Preds(b)
      BY <2>4
    <3> HIDE DEF mine
    <3> QED BY <3>1, <3>2, <3>3
  <2> QED BY <2>11, <2>12, <2>13, <2>14, <2>15 DEF EdgeInv
<1> QED BY <1>11, <1>12

\* A phi without operands is being made; its block is sealed.
LEMMA ReadManyPredecessorsEdges ==
    ASSUME IInv, EdgeInv, ReadManyPredecessors
    PROVE  EdgeInv'
<1> DEFINE n == Len(stack)
           new == Len(inst) + 1
           top == [Top EXCEPT !.phi = new, !.pred = 1]
           grown == Append(inst, NewInst("Phi"))
           lists == [instructions EXCEPT ![Top.block] = <<new>> \o @]
           E == DOMAIN grown
<1>1. /\ n > 1 /\ Top.pc = "Start" /\ Top.block \in Blocks /\ read \in Variable
      /\ Len(Preds(Top.block)) \in Nat
      /\ current_def[Top.block][read] = Empty /\ Top.block \in ssa_sealed
      /\ UNCHANGED incomplete_phis /\ KeepWhileReading
      /\ PoolOK(grown) /\ NoneEmpty(grown) /\ Counted(grown) /\ KindsOK(grown)
      /\ E = DOMAIN inst \cup {new} /\ DOMAIN inst \subseteq E
      /\ new \in E /\ new \notin DOMAIN inst /\ new # 0
      /\ \A j \in DOMAIN inst : grown[j] = inst[j]
      /\ lists \in [Blocks -> Seq(E)]
      /\ \A b \in Blocks : \A j : Contains(instructions[b], j) => Contains(lists[b], j)
      /\ top \in Frame(E) /\ top.block = Top.block /\ top.phi = new /\ top.pred = 1
      /\ Contains(lists[top.block], top.phi) /\ top.phi \in E /\ top.pred # 0
      /\ \A k \in 1 .. n - 1 :
           stack[k].pc = "PushPhiArgument" => stack[k].block # top.block
      /\ PreparePhiOperand([stack EXCEPT ![n] = top], grown, lists)
      /\ top.pred <= Len(Preds(top.block)) =>
           /\ current_def' = [current_def EXCEPT ![Top.block][read] = InstValue(new)]
           /\ InstValue(new) # Empty
           /\ \A c \in Blocks, v \in Variable :
                   current_def[c][v] # Empty => current_def'[c][v] # Empty
  BY ReadManyEffect
<1>2. /\ OnePlace(lists) /\ PhisLead(grown, lists) /\ ErasedOK(grown)
      /\ grown[new].op = "Phi" /\ grown[new].preds = <<>>
      /\ \A c \in Blocks : \A j :
            Contains(lists[c], j) => Contains(instructions[c], j) \/ (c = Top.block /\ j = new)
  BY <1>1, PrependEdges
<1> HIDE DEF grown, lists, new, top
<1>3. Making = Below
  BY <1>1, MakingNow DEF Waiting
<1>4. PredsOK(grown, lists, Below \cup {<<top.block, top.phi, top.pred>>})
  <2> DEFINE mine == <<top.block, top.phi, top.pred>>
  <2> SUFFICES ASSUME NEW b \in Blocks, NEW j, Contains(lists[b], j), grown[j].op = "Phi"
               PROVE  \/ grown[j].preds = Preds(b)
                      \/ \E v \in Variable : incomplete_phis[b][v] = j
                      \/ \E m \in Below \cup {mine} : m[1] = b /\ m[2] = j
    BY DEF PredsOK
  <2>1. CASE b = Top.block /\ j = new
    <3>1. mine[1] = b /\ mine[2] = j
      BY <1>1, <2>1
    <3> QED BY <3>1
  <2>2. CASE Contains(instructions[b], j)
    <3>1. j \in DOMAIN inst
      BY <2>2, AtFacts, ListedInPool DEF IInv
    <3>2. grown[j] = inst[j]
      BY <1>1, <3>1
    <3> HIDE DEF mine, E
    <3>3. \/ inst[j].preds = Preds(b)
          \/ \E v \in Variable : incomplete_phis[b][v] = j
          \/ \E m \in Below : m[1] = b /\ m[2] = j
      BY <1>3, <2>2, <3>2 DEF EdgeInv, PredsOK
    <3> QED BY <3>2, <3>3
  <2> QED BY <1>2, <2>1, <2>2
<1>5. Prepared(grown, lists, top)
  <2>1. \A j \in DOMAIN inst : grown[j].op = inst[j].op /\ grown[j].preds = inst[j].preds
    BY <1>1
  <2>2. grown[top.phi].op = "Phi" /\ top.block \in ssa_sealed
    BY <1>1, <1>2
  <2>3. grown[top.phi].preds = SubSeq(Preds(top.block), 1, top.pred - 1)
    <3>1. SubSeq(Preds(top.block), 1, 0) = <<>>
      OBVIOUS
    <3>2. top.pred - 1 = 0
      BY <1>1
    <3> QED BY <1>1, <1>2, <3>1, <3>2
  <2>4. top.pred - 1 <= Len(Preds(top.block))
    BY <1>1
  <2> QED BY <1>2, <1>4, <2>1, <2>2, <2>3, <2>4 DEF Prepared
<1> QED BY <1>1, <1>5, PrepareEdges

\* The phi on top has an operand more.
LEMMA PushPhiArgumentEdges ==
    ASSUME IInv, EdgeInv, PushPhiArgument
    PROVE  EdgeInv'
<1> DEFINE n == Len(stack)
           top == [Top EXCEPT !.pred = @ + 1]
           b == Preds(Top.block)[Top.pred]
           in == AddPhiOperand(inst, Top.phi, b, Top.result)
<1>1. /\ n > 1 /\ Top.pc = "PushPhiArgument" /\ Top.block \in Blocks /\ read \in Variable
      /\ Len(Preds(Top.block)) \in Nat
      /\ UNCHANGED incomplete_phis /\ KeepWhileReading
      /\ Contains(instructions[Top.block], Top.phi) /\ Top.phi \in DOMAIN inst
      /\ Top.pred \in 1 .. Len(Preds(Top.block))
      /\ current_def[Top.block][read] # Empty
      /\ PoolOK(in) /\ NoneEmpty(in) /\ Counted(in) /\ KindsOK(in)
      /\ DOMAIN in = DOMAIN inst
      /\ \A j \in DOMAIN inst : in[j].op = inst[j].op
      /\ \A j \in DOMAIN inst : j # Top.phi => in[j].preds = inst[j].preds
      /\ in[Top.phi].preds = Append(inst[Top.phi].preds, b)
      /\ instructions \in [Blocks -> Seq(DOMAIN in)]
      /\ top \in Frame(DOMAIN in) /\ top.block = Top.block /\ top.phi = Top.phi
      /\ top.pred = Top.pred + 1 /\ top.pred # 0
      /\ \A k \in 1 .. n - 1 :
           stack[k].pc = "PushPhiArgument" => stack[k].block # top.block
      /\ PreparePhiOperand([stack EXCEPT ![n] = top], in, instructions)
      /\ top.pred <= Len(Preds(top.block)) => current_def' = current_def
  BY PushPhiArgumentEffect
<1>2. instructions[Top.block] \in Seq(DOMAIN inst) /\ Preds(Top.block) \in Seq(Blocks)
  BY <1>1 DEF IInv, TypeOK, PlacesOK, WellFormed, Preds, Blocks
<1>3. /\ Top.block \in ssa_sealed /\ inst[Top.phi].op = "Phi"
      /\ inst[Top.phi].preds = SubSeq(Preds(Top.block), 1, Top.pred - 1)
  <2>1. <<Top.block, Top.phi, Top.pred>> \in Making
    BY <1>1, MakingNow DEF Waiting
  <2> DEFINE m == <<Top.block, Top.phi, Top.pred>>
  <2>2. m[1] \in ssa_sealed /\ inst[m[2]].op = "Phi"
        /\ inst[m[2]].preds = SubSeq(Preds(m[1]), 1, m[3] - 1)
    <3> HIDE DEF m
    <3>1. m \in Making
      BY <2>1 DEF m
    <3> QED BY <3>1 DEF EdgeInv, MakingOK
  <2> QED BY <2>2
<1>4. Append(inst[Top.phi].preds, b) = SubSeq(Preds(Top.block), 1, Top.pred)
  <2> DEFINE P == Preds(Top.block)
             k == Top.pred
  <2>1. P \in Seq(Blocks) /\ k \in 1 .. Len(P)
    BY <1>1, <1>2
  <2> HIDE DEF P, k
  <2>2. Append(SubSeq(P, 1, k - 1), P[k]) = SubSeq(P, 1, k)
    BY <2>1, AppendSubSeq
  <2> QED BY <1>3, <2>2 DEF P, k, b
<1> HIDE DEF b, in, top
<1>5. Len(Preds(Top.block)) \in Nat /\ Top.pred \in Nat /\ top.pred - 1 = Top.pred
  <2> HIDE DEF n
  <2> QED BY <1>1
<1>6. PredsOK(in, instructions, Below \cup {<<top.block, top.phi, top.pred>>})
  <2> DEFINE mine == <<top.block, top.phi, top.pred>>
             before == <<Top.block, Top.phi, Top.pred>>
  <2> SUFFICES ASSUME NEW c \in Blocks, NEW j, Contains(instructions[c], j), in[j].op = "Phi"
               PROVE  \/ in[j].preds = Preds(c)
                      \/ \E v \in Variable : incomplete_phis[c][v] = j
                      \/ \E m \in Below \cup {mine} : m[1] = c /\ m[2] = j
    BY DEF PredsOK
  <2>1. j \in DOMAIN inst
    BY AtFacts, ListedInPool DEF IInv
  <2>2. CASE j = Top.phi
    <3>1. c = Top.block
      BY <1>1, <2>2 DEF EdgeInv, OnePlace
    <3>2. mine[1] = c /\ mine[2] = j
      BY <1>1, <2>2, <3>1
    <3> QED BY <3>2
  <2>3. CASE j # Top.phi
    <3>1. Making = Below \cup {before}
      BY <1>1, MakingNow DEF Waiting
    <3>2. before[2] # j
      BY <2>3
    <3> HIDE DEF mine, before
    <3>3. in[j].preds = inst[j].preds /\ inst[j].op = "Phi"
      BY <1>1, <2>1, <2>3
    <3>4. \/ inst[j].preds = Preds(c)
          \/ \E v \in Variable : incomplete_phis[c][v] = j
          \/ \E m \in Making : m[1] = c /\ m[2] = j
      BY <3>3 DEF EdgeInv, PredsOK
    <3> QED BY <3>1, <3>2, <3>3, <3>4
  <2> QED BY <2>2, <2>3
<1>7. Prepared(in, instructions, top)
  <2>1. OnePlace(instructions) /\ PhisLead(in, instructions)
    BY <1>1, ListsStay DEF EdgeInv
  <2>2. ErasedOK(in)
    <3> SUFFICES ASSUME NEW k \in DOMAIN to_invalidate
                 PROVE  in[to_invalidate[k]].op \in {"Identity", "Void"}
      BY DEF ErasedOK
    <3>1. to_invalidate \in Seq(DOMAIN inst)
      BY DEF IInv, TypeOK, PlacesOK
    <3>2. to_invalidate[k] \in DOMAIN inst
      BY <3>1, ElementOfSeq, LenProperties
    <3> QED BY <1>1, <3>2 DEF EdgeInv, ErasedOK
  <2>3. in[top.phi].op = "Phi" /\ top.block \in ssa_sealed
    BY <1>1, <1>3
  <2>4. in[top.phi].preds = SubSeq(Preds(top.block), 1, top.pred - 1)
    <3>1. top.pred - 1 = Top.pred
      BY <1>1
    <3> QED BY <1>1, <1>4, <3>1
  <2>5. top.pred - 1 <= Len(Preds(top.block))
    BY <1>1
  <2>6. \A j \in DOMAIN inst : j # top.phi => in[j].preds = inst[j].preds
    BY <1>1
  <2> QED BY <1>1, <1>6, <2>1, <2>2, <2>3, <2>4, <2>5, <2>6 DEF Prepared
<1>8. DOMAIN inst \subseteq DOMAIN in /\ top.phi \in DOMAIN in
  BY <1>1
<1>9. /\ \A c \in Blocks : \A j : Contains(instructions[c], j) => Contains(instructions[c], j)
      /\ Contains(instructions[top.block], top.phi)
  BY <1>1
<1>10. top.pred <= Len(Preds(top.block)) =>
            \A c \in Blocks, v \in Variable :
                current_def[c][v] # Empty => current_def'[c][v] # Empty
  BY <1>1
<1> QED BY <1>1, <1>7, <1>8, <1>9, <1>10, PrepareEdges

-----------------------------------------------------------------------------
(* Phis and edges: the theorems                                            *)

\* At first there is no phi.
LEMMA InitEdges == Init => EdgeInv
<1> SUFFICES ASSUME Init PROVE EdgeInv
  OBVIOUS
<1>1. IInv
  BY InitInv
<1>2. /\ inst = program.inst /\ instructions = program.instructions
      /\ ssa_sealed = {} /\ cursor = 1 /\ sealing = 0 /\ read = 0
      /\ stack = <<>> /\ to_invalidate = <<>> /\ phase = "rewrite"
      /\ WellFormed(program)
  BY ProgramsAssumption DEF Init
<1>3. \A i \in DOMAIN inst : inst[i].op # "Phi"
  BY <1>2 DEF WellFormed
<1>4. \A b \in Blocks : /\ instructions[b] \in Seq(DOMAIN inst)
                        /\ DOMAIN instructions[b] = 1 .. Len(instructions[b])
                        /\ \A j : Contains(instructions[b], j) => j \in DOMAIN inst
  BY <1>1, AtFacts, LenProperties, ListedInPool DEF IInv
<1>5. OnePlace(instructions)
  <2>1. \A b, c \in Blocks : \A k \in DOMAIN instructions[b], m \in DOMAIN instructions[c] :
            instructions[b][k] = instructions[c][m] => b = c /\ k = m
    BY <1>2 DEF WellFormed, Blocks
  <2>2. \A b \in Blocks : Once(instructions[b])
    BY <2>1 DEF Once
  <2> QED BY <1>4, <2>1, <2>2 DEF OnePlace, Contains
<1>6. PhisLead(inst, instructions)
  <2> SUFFICES ASSUME NEW b \in Blocks
               PROVE  PhisFirst(inst, instructions[b])
    BY DEF PhisLead
  <2>1. \A m \in DOMAIN instructions[b] :
            m \in Nat /\ m >= 1 /\ instructions[b][m] \in DOMAIN inst
    BY <1>4, ElementOfSeq
  <2>2. \A m \in DOMAIN instructions[b] : m < 1 <=> inst[instructions[b][m]].op = "Phi"
    BY <1>3, <2>1
  <2>3. 1 \in Nat \ {0} /\ PhisBefore(inst, instructions[b], 1)
    BY <2>2 DEF PhisBefore
  <2> QED BY <2>3 DEF PhisFirst
<1>7. SealsInOrder
  <2>1. \A k \in DOMAIN program.order : ~(k < 1)
    BY <1>2, ProgramFacts
  <2> QED BY <1>2, <2>1 DEF SealsInOrder
<1>8. IncompleteOK(inst)
  <2>1. incomplete_phis = [b \in Blocks |-> [v \in Variable |-> 0]]
    BY <1>2 DEF Init, Blocks
  <2> QED BY <2>1 DEF IncompleteOK
<1>9. MakingOK(inst, Making) /\ PredsOK(inst, instructions, Making)
  <2>1. Making = {}
    BY <1>1, <1>2, NoReadNothingMade DEF IInv
  <2> QED BY <1>3, <1>4, <2>1 DEF MakingOK, PredsOK
<1>10. ErasedOK(inst)
  <2>1. DOMAIN to_invalidate = {}
    BY <1>2
  <2> QED BY <2>1 DEF ErasedOK
<1> QED BY <1>5, <1>6, <1>7, <1>8, <1>9, <1>10 DEF EdgeInv

\* Every step keeps the phis and the edges in order.
LEMMA StepEdges ==
    ASSUME IInv, EdgeInv, [Next]_vars
    PROVE  EdgeInv'
<1>1. CASE VisitSet
  BY <1>1, VisitSetEdges
<1>2. CASE VisitOther
  BY <1>2, VisitOtherEdges
<1>3. CASE VisitGet
  BY <1>3, VisitGetEdges
<1>4. CASE ReplaceGet
  BY <1>4, ReplaceGetEdges
<1>5. CASE BeginSeal
  BY <1>5, BeginSealEdges
<1>6. CASE ReadOperand
  BY <1>6, ReadOperandEdges
<1>7. CASE PushOperand
  BY <1>7, PushOperandEdges
<1>8. CASE CompletePhi
  BY <1>8, CompletePhiEdges
<1>9. CASE SealBlock
  BY <1>9, SealBlockEdges
<1>10. CASE ReadDefined
  BY <1>10, ReadDefinedEdges
<1>11. CASE ReadUnsealed
  BY <1>11, ReadUnsealedEdges
<1>12. CASE ReadOnePredecessor
  BY <1>12, ReadOnePredecessorEdges
<1>13. CASE ReadManyPredecessors
  BY <1>13, ReadManyPredecessorsEdges
<1>14. CASE SetValue
  BY <1>14, SetValueEdges
<1>15. CASE PushPhiArgument
  BY <1>15, PushPhiArgumentEdges
<1>16. CASE SkipIdentity
  BY <1>16, SkipIdentityEdges
<1>17. CASE EraseIdentity
  BY <1>17, EraseIdentityEdges
<1>18. CASE NextList
  BY <1>18, NextListEdges
<1>19. CASE InvalidateErased
  BY <1>19, InvalidateErasedEdges
<1>20. CASE Finish
  BY <1>20, FinishEdges
<1>21. CASE UNCHANGED vars
  <2>1. UNCHANGED <<program, inst, instructions, current_def, incomplete_phis, ssa_sealed,
                    cursor, current, sealing, read, stack, to_invalidate, phase>>
    BY <1>21 DEF vars, ir, defs, place
  <2>2. /\ Blocks' = Blocks /\ Making' = Making /\ Block' = Block
        /\ \A b : Preds(b)' = Preds(b) /\ Incomplete(b)' = Incomplete(b)
    BY <2>1 DEF Blocks, Making, Block, Preds, Incomplete
  <2>3. OnePlace(instructions)' /\ PhisLead(inst, instructions)' /\ ErasedOK(inst)'
    BY <2>1, <2>2 DEF EdgeInv, OnePlace, PhisLead, ErasedOK
  <2>4. SealsInOrder'
    BY <2>1, <2>2 DEF EdgeInv, SealsInOrder
  <2>5. IncompleteOK(inst)'
    BY <2>1, <2>2 DEF EdgeInv, IncompleteOK, Received
  <2>6. MakingOK(inst, Making)' /\ PredsOK(inst, instructions, Making)'
    BY <2>1, <2>2 DEF EdgeInv, MakingOK, PredsOK
  <2> QED BY <2>3, <2>4, <2>5, <2>6 DEF EdgeInv
<1> QED BY <1>1, <1>2, <1>3, <1>4, <1>5, <1>6, <1>7, <1>8, <1>9, <1>10, <1>11, <1>12, <1>13,
           <1>14, <1>15, <1>16, <1>17, <1>18, <1>19, <1>20, <1>21
        DEF Next, Rewrite, Terminated

\* The invariant about phis and edges, for every set of well formed programs.
THEOREM EdgesInductive == Spec => [](IInv /\ EdgeInv)
<1>1. Init => IInv /\ EdgeInv
  BY InitInv, InitEdges
<1>2. (IInv /\ EdgeInv) /\ [Next]_vars => (IInv /\ EdgeInv)'
  BY StepInv, StepEdges
<1> QED BY <1>1, <1>2, PTL DEF Spec

\* Whatever the program, once every block is sealed the phis of a block come
\* first, and a phi of a block that can be reached has exactly the block's
\* predecessors, in their order.
THEOREM PhisMatch == Spec => []PhisMatchTheEdges
<1>1. IInv /\ EdgeInv => PhisMatchTheEdges
  <2> SUFFICES ASSUME IInv, EdgeInv, phase # "rewrite",
                      NEW b \in DOMAIN instructions, NEW k \in DOMAIN instructions[b],
                      inst[instructions[b][k]].op = "Phi"
               PROVE  /\ \A m \in 1 .. k : inst[instructions[b][m]].op = "Phi"
                      /\ Contains(program.order, b) => inst[instructions[b][k]].preds = Preds(b)
    BY DEF PhisMatchTheEdges
  <2>1. /\ b \in Blocks /\ DOMAIN instructions[b] = 1 .. Len(instructions[b])
        /\ Len(instructions[b]) \in Nat
    BY AtFacts, LenProperties DEF IInv, TypeOK, PlacesOK
  <2>2. ASSUME NEW m \in 1 .. k
        PROVE  inst[instructions[b][m]].op = "Phi"
    <3>1. PICK n \in Nat \ {0} : PhisBefore(inst, instructions[b], n)
      BY <2>1 DEF EdgeInv, PhisLead, PhisFirst
    <3>2. k < n
      BY <3>1 DEF PhisBefore
    <3>3. m \in DOMAIN instructions[b] /\ m < n
      BY <2>1, <3>2
    <3> QED BY <3>1, <3>3 DEF PhisBefore
  <2>3. ASSUME Contains(program.order, b)
        PROVE  inst[instructions[b][k]].preds = Preds(b)
    <3>1. b \in ssa_sealed
      <4>1. PICK i \in 1 .. Len(program.order) : program.order[i] = b
        BY <2>3 DEF Contains
      <4>2. i \in DOMAIN program.order
        BY <4>1, ProgramFacts DEF IInv, TypeOK
      <4> QED BY <4>1, <4>2 DEF EdgeInv, SealsInOrder
    <3>2. instructions[b][k] \in DOMAIN inst /\ Contains(instructions[b], instructions[b][k])
      <4>1. Contains(instructions[b], instructions[b][k])
        BY <2>1 DEF Contains
      <4> QED BY <2>1, <4>1, AtFacts, ListedInPool DEF IInv
    <3>3. \A v \in Variable : incomplete_phis[b][v] = 0
      BY <2>1, <3>1 DEF EdgeInv, IncompleteOK
    <3>4. Making = {}
      <4>1. read = 0
        BY DEF IInv, StackOK
      <4> QED BY <4>1, NoReadNothingMade DEF IInv
    <3>5. instructions[b][k] # 0
      BY <3>2, AtFacts DEF IInv
    <3> QED BY <2>1, <3>2, <3>3, <3>4, <3>5 DEF EdgeInv, PredsOK
  <2> QED BY <2>2, <2>3
<1> QED BY <1>1, EdgesInductive, PTL

-----------------------------------------------------------------------------
(* What the lists hold                                                     *)

\* What was replaced is an identity, or void once it is invalidated.
Replaced(in, i) == in[i].op \in {"Identity", "Void"}

\* Every instruction that was not replaced is in a list.
Placed(in, lists) ==
    \A i \in DOMAIN in : Replaced(in, i) \/ \E b \in Blocks : Contains(lists[b], i)

\* Nothing is invalidated before the lists are done.
VoidLater == (\E i \in DOMAIN inst : inst[i].op = "Void") => phase = "done" \/ AllListed

\* The arguments of an instruction name none that was replaced.
Cleaned(in, i) ==
    \A k \in DOMAIN in[i].args : IsInst(in[i].args[k]) => ~Replaced(in, in[i].args[k][2])

\* So it is in the blocks before the current one of the list and, in that one,
\* before the instruction the pass is at.
CleanedSoFar ==
    phase # "rewrite" =>
        /\ \A n \in DOMAIN program.list :
                n < cursor => \A j : Contains(instructions[program.list[n]], j) => Cleaned(inst, j)
        /\ \A j : Contains(instructions[ListBlock], j) =>
                    Cleaned(inst, j) \/ (current # 0 /\ Before(instructions[ListBlock], current, j))

\* No Get is left in a sealed block, nor before the instruction the pass is at.
GetsGone ==
    /\ \A b \in ssa_sealed : \A j : Contains(instructions[b], j) => inst[j].op # "Get"
    /\ phase = "rewrite" =>
            \A j : Contains(instructions[Block], j) /\ inst[j].op = "Get" =>
                        current # 0 /\ Before(instructions[Block], current, j)

ListInv ==
    /\ Placed(inst, instructions) /\ VoidLater /\ CleanedSoFar /\ GetsGone
    /\ phase = "done" => current = 0 /\ cursor = Len(program.list)

\* What is in a list is in the pool.
LEMMA ListedNow ==
    ASSUME IInv, NEW b \in Blocks, NEW j, Contains(instructions[b], j)
    PROVE  j \in DOMAIN inst /\ j # 0
BY AtFacts, ListedInPool DEF IInv

\* What comes after an instruction comes not before the next one.
LEMMA NextBefore ==
    ASSUME NEW D, NEW list \in Seq(D), 0 \notin D, Once(list), NEW i, Contains(list, i),
           NEW j, Before(list, i, j), j # i
    PROVE  /\ NextIn(list, i) # 0
           /\ Before(list, NextIn(list, i), j)
           /\ Before(Erase(list, i), NextIn(list, i), j)
<1> DEFINE k == Place(list, i)
           n == Len(list)
<1>1. k \in 1 .. n /\ list[k] = i /\ n \in Nat /\ DOMAIN list = 1 .. n
  BY EraseFacts, LenProperties
<1>2. NextIn(list, i) = IF k = n THEN 0 ELSE list[k + 1]
  BY DEF NextIn
<1>3. PICK p, q \in DOMAIN list : p <= q /\ list[p] = i /\ list[q] = j
  BY DEF Before
<1> HIDE DEF k
<1>4. p = k /\ q # k
  BY <1>1, <1>3 DEF Once
<1>5. k + 1 \in 1 .. n /\ k # n /\ k + 1 <= q /\ k + 1 # k
  <2> HIDE DEF n
  <2> QED BY <1>1, <1>3, <1>4
<1>6. NextIn(list, i) = list[k + 1] /\ list[k + 1] \in D
  BY <1>2, <1>5, ElementOfSeq
<1>7. NextIn(list, i) # 0
  BY <1>6
<1>8. Before(list, NextIn(list, i), j)
  BY <1>1, <1>3, <1>5, <1>6 DEF Before
<1>9. NextIn(list, i) # i
  BY <1>1, <1>5, <1>6 DEF Once
<1>10. Before(Erase(list, i), NextIn(list, i), j)
  BY <1>8, <1>9, EraseOrder
<1> QED BY <1>7, <1>8, <1>10

\* Nothing comes before the first.
LEMMA FirstBefore ==
    ASSUME NEW D, NEW list \in Seq(D), 0 \notin D, NEW j, Contains(list, j)
    PROVE  FirstOf(list) # 0 /\ Before(list, FirstOf(list), j)
<1>1. PICK q \in 1 .. Len(list) : list[q] = j
  BY DEF Contains
<1>2. Len(list) \in Nat /\ DOMAIN list = 1 .. Len(list)
  BY LenProperties
<1>3. 1 \in 1 .. Len(list) /\ 1 <= q
  BY <1>1, <1>2
<1>4. list # <<>>
  BY <1>2, <1>3
<1>5. FirstOf(list) = list[1] /\ list[1] \in D
  BY <1>3, <1>4, ElementOfSeq DEF FirstOf
<1> QED BY <1>1, <1>2, <1>3, <1>5 DEF Before

\* A step of the first pass: instructions are replaced, made and listed, and no
\* Get is passed by.
LEMMA RewriteLists ==
    ASSUME IInv, ListInv, IInv', phase = "rewrite", phase' = "rewrite",
           UNCHANGED <<program, ssa_sealed, cursor>>,
           DOMAIN inst \subseteq DOMAIN inst',
           \A j \in DOMAIN inst : inst'[j].op = inst[j].op \/ inst'[j].op = "Identity",
           \A j \in DOMAIN inst' : j \notin DOMAIN inst =>
                /\ inst'[j].op \notin {"Get", "Void"}
                /\ \E b \in Blocks : Contains(instructions'[b], j),
           \A b \in Blocks : \A j : Contains(instructions[b], j) => Contains(instructions'[b], j),
           \A b \in Blocks : \A j : Contains(instructions'[b], j) =>
                Contains(instructions[b], j) \/ j \notin DOMAIN inst,
           \A j : current # 0 /\ Before(instructions[Block], current, j)
                  /\ Contains(instructions[Block], j) /\ inst'[j].op = "Get" =>
                        current' # 0 /\ Before(instructions'[Block], current', j)
    PROVE  ListInv'
<1>1. Blocks' = Blocks /\ Block' = Block /\ Block \in Blocks
  BY AtFacts DEF Blocks, Block, IInv
<1>2. Placed(inst, instructions)'
  <2> SUFFICES ASSUME NEW i \in DOMAIN inst', ~Replaced(inst', i)
               PROVE  \E b \in Blocks : Contains(instructions'[b], i)
    BY <1>1 DEF Placed
  <2>1. CASE i \in DOMAIN inst
    <3>1. ~Replaced(inst, i)
      BY <2>1 DEF Replaced
    <3> QED BY <2>1, <3>1 DEF ListInv, Placed
  <2> QED BY <2>1
<1>3. ~AllListed /\ ~AllListed' /\ phase # "done"
  BY DEF AllListed
<1>4. VoidLater'
  <2>1. \A j \in DOMAIN inst : inst[j].op # "Void"
    BY <1>3 DEF ListInv, VoidLater
  <2> QED BY <2>1 DEF VoidLater
<1>5. ASSUME NEW b \in Blocks, NEW j, Contains(instructions'[b], j), inst'[j].op = "Get"
      PROVE  Contains(instructions[b], j) /\ inst[j].op = "Get"
  <2>0. instructions'[b] \in Seq(DOMAIN inst')
    BY <1>1 DEF IInv, TypeOK, PlacesOK
  <2>1. j \in DOMAIN inst'
    BY <1>5, <2>0, ListedInPool
  <2>2. j \in DOMAIN inst
    BY <1>5, <2>1
  <2> QED BY <1>5, <2>2
<1>6. ssa_sealed \subseteq Blocks
  BY DEF IInv, TypeOK
<1>7. GetsGone'
  <2>1. \A b \in ssa_sealed : \A j : Contains(instructions'[b], j) => inst'[j].op # "Get"
    BY <1>5, <1>6 DEF ListInv, GetsGone
  <2>2. \A j : Contains(instructions'[Block], j) /\ inst'[j].op = "Get" =>
                    current' # 0 /\ Before(instructions'[Block], current', j)
    BY <1>1, <1>5 DEF ListInv, GetsGone
  <2> QED BY <1>1, <2>1, <2>2 DEF GetsGone
<1> QED BY <1>2, <1>4, <1>7 DEF ListInv, CleanedSoFar

\* A step of the first pass that does not move on.
LEMMA StayLists ==
    ASSUME IInv, ListInv, IInv', phase = "rewrite",
           UNCHANGED <<program, inst, instructions, ssa_sealed, cursor, current, phase>>
    PROVE  ListInv'
<1>1. Block' = Block /\ phase' = "rewrite"
  BY DEF Block
<1> QED BY <1>1, RewriteLists

\* An instruction that is no Get is passed by.
LEMMA PassLists ==
    ASSUME IInv, EdgeInv, ListInv, IInv', phase = "rewrite", current # 0,
           inst'[current].op # "Get", current' = NextIn(instructions[Block], current),
           UNCHANGED <<program, instructions, ssa_sealed, cursor, phase>>,
           DOMAIN inst' = DOMAIN inst,
           \A j \in DOMAIN inst : inst'[j].op = inst[j].op \/ inst'[j].op = "Identity"
    PROVE  ListInv'
<1> DEFINE list == instructions[Block]
<1>1. /\ Block \in Blocks /\ list \in Seq(DOMAIN inst) /\ 0 \notin DOMAIN inst
      /\ Contains(list, current)
  BY NextKeeps, AtFacts DEF IInv, Listed
<1>2. Once(list)
  BY <1>1 DEF EdgeInv, OnePlace
<1>3. ASSUME NEW j, Before(list, current, j), inst'[j].op = "Get"
      PROVE  current' # 0 /\ Before(list, current', j)
  <2>1. j # current
    BY <1>3
  <2> HIDE DEF list
  <2>2. /\ NextIn(list, current) # 0
        /\ Before(list, NextIn(list, current), j)
    BY <1>1, <1>2, <1>3, <2>1, NextBefore
  <2> QED BY <2>2 DEF list
<1>4. phase' = "rewrite" /\ instructions' = instructions /\ DOMAIN inst \subseteq DOMAIN inst'
  OBVIOUS
<1> HIDE DEF list
<1>5. \A j : current # 0 /\ Before(instructions[Block], current, j)
                  /\ Contains(instructions[Block], j) /\ inst'[j].op = "Get" =>
                        current' # 0 /\ Before(instructions'[Block], current', j)
  BY <1>3, <1>4 DEF list
<1> QED BY <1>4, <1>5, RewriteLists

\* A Set is no Get.
LEMMA VisitSetLists ==
    ASSUME IInv, EdgeInv, ListInv, IInv', VisitSet
    PROVE  ListInv'
<1>1. /\ phase = "rewrite" /\ current # 0 /\ inst[current].op = "Set"
      /\ current' = NextIn(instructions[Block], current)
      /\ UNCHANGED <<program, inst, instructions, ssa_sealed, cursor, phase>>
  BY DEF VisitSet, Visiting, ir
<1>2. inst'[current].op # "Get"
  BY <1>1
<1> QED BY <1>1, <1>2, PassLists

\* Nor are the others.
LEMMA VisitOtherLists ==
    ASSUME IInv, EdgeInv, ListInv, IInv', VisitOther
    PROVE  ListInv'
<1>1. /\ phase = "rewrite" /\ current # 0 /\ inst[current].op # "Get"
      /\ current' = NextIn(instructions[Block], current)
      /\ UNCHANGED <<program, inst, instructions, ssa_sealed, cursor, phase>>
  BY DEF VisitOther, Visiting, ir
<1>2. inst'[current].op # "Get"
  BY <1>1
<1> QED BY <1>1, <1>2, PassLists

\* The Get is replaced.
LEMMA ReplaceGetLists ==
    ASSUME IInv, EdgeInv, ListInv, IInv', ReplaceGet
    PROVE  ListInv'
<1>1. /\ phase = "rewrite" /\ current # 0
      /\ UNCHANGED <<program, instructions, ssa_sealed, cursor, phase>>
      /\ DOMAIN inst' = DOMAIN inst
      /\ \A j \in DOMAIN inst : j # current => inst'[j].op = inst[j].op
      /\ inst'[current].op = "Identity"
  BY ReplaceGetEffect
<1>2. current' = NextIn(instructions[Block], current)
  BY DEF ReplaceGet
<1>3. /\ inst'[current].op # "Get"
      /\ \A j \in DOMAIN inst : inst'[j].op = inst[j].op \/ inst'[j].op = "Identity"
  BY <1>1
<1> QED BY <1>1, <1>2, <1>3, PassLists

\* Steps that call and return.
LEMMA CallLists ==
    ASSUME IInv, ListInv, IInv',
           VisitGet \/ BeginSeal \/ ReadOperand
    PROVE  ListInv'
<1>1. phase = "rewrite"
  BY DEF VisitGet, Visiting, BeginSeal, ReadOperand, IInv, TypeOK
<1>2. UNCHANGED <<program, inst, instructions, ssa_sealed, cursor, current, phase>>
  BY DEF VisitGet, BeginSeal, ReadOperand, CallReadVariable, ir, place
<1> QED BY <1>1, <1>2, StayLists

\* Turns of ReadVariable that make no phi.
LEMMA TurnLists ==
    ASSUME IInv, ListInv, IInv',
           ReadDefined \/ ReadOnePredecessor \/ SetValue
    PROVE  ListInv'
<1>1. Len(stack) > 1
  BY DEF ReadDefined, ReadOnePredecessor, SetValue, Reading
<1>2. phase = "rewrite"
  BY <1>1, ReadingFacts
<1>3. UNCHANGED <<program, inst, instructions, ssa_sealed, cursor, current, phase>>
  BY DEF ReadDefined, ReadOnePredecessor, SetValue, KeepWhileReading, ir, place
<1> QED BY <1>2, <1>3, StayLists

\* The operand of an incomplete phi.
LEMMA PushOperandLists ==
    ASSUME IInv, ListInv, IInv', PushOperand
    PROVE  ListInv'
<1>1. /\ phase = "rewrite" /\ phase' = "rewrite"
      /\ UNCHANGED <<program, instructions, ssa_sealed, cursor, current>>
      /\ DOMAIN inst' = DOMAIN inst
      /\ \A j \in DOMAIN inst : inst'[j].op = inst[j].op
  BY PushOperandEffect
<1>2. DOMAIN inst \subseteq DOMAIN inst' /\ instructions' = instructions /\ current' = current
  BY <1>1
<1> QED BY <1>1, <1>2, RewriteLists

\* Phis come, and become identities; what is in a list stays there, and what is
\* no phi keeps its order.
Moves(in, lists, out, moved) ==
    /\ DOMAIN in \subseteq DOMAIN out
    /\ \A j \in DOMAIN in : out[j].op = in[j].op \/ (in[j].op = "Phi" /\ out[j].op = "Identity")
    /\ \A j \in DOMAIN out : j \notin DOMAIN in =>
            /\ out[j].op \in {"Phi", "Undef", "Identity"}
            /\ \E b \in Blocks : Contains(moved[b], j)
    /\ \A b \in Blocks : \A j : Contains(lists[b], j) => Contains(moved[b], j)
    /\ \A b \in Blocks : \A j : Contains(moved[b], j) => Contains(lists[b], j) \/ j \notin DOMAIN in
    /\ \A b \in Blocks : \A x, y \in DOMAIN in :
            in[x].op # "Phi" /\ in[y].op # "Phi" /\ Before(lists[b], x, y) => Before(moved[b], x, y)

\* One after the other.
LEMMA MovesCompose ==
    ASSUME NEW a, NEW la, NEW b, NEW lb, NEW c, NEW lc,
           Moves(a, la, b, lb), Moves(b, lb, c, lc)
    PROVE  Moves(a, la, c, lc)
<1>1. DOMAIN a \subseteq DOMAIN c
  BY DEF Moves
<1>2. \A j \in DOMAIN a : c[j].op = a[j].op \/ (a[j].op = "Phi" /\ c[j].op = "Identity")
  BY DEF Moves
<1>3. ASSUME NEW j \in DOMAIN c, j \notin DOMAIN a
      PROVE  /\ c[j].op \in {"Phi", "Undef", "Identity"}
             /\ \E d \in Blocks : Contains(lc[d], j)
  <2>1. CASE j \in DOMAIN b
    BY <1>3, <2>1 DEF Moves
  <2>2. CASE j \notin DOMAIN b
    BY <1>3, <2>2 DEF Moves
  <2> QED BY <2>1, <2>2
<1>4. \A d \in Blocks : \A j : Contains(la[d], j) => Contains(lc[d], j)
  BY DEF Moves
<1>5. \A d \in Blocks : \A j : Contains(lc[d], j) => Contains(la[d], j) \/ j \notin DOMAIN a
  BY DEF Moves
<1>6. \A d \in Blocks : \A x, y \in DOMAIN a :
            a[x].op # "Phi" /\ a[y].op # "Phi" /\ Before(la[d], x, y) => Before(lc[d], x, y)
  BY DEF Moves
<1> QED BY <1>1, <1>2, <1>3, <1>4, <1>5, <1>6 DEF Moves

\* Removing a phi is such a change.
LEMMA RemovalMoves ==
    ASSUME NEW in, NEW lists, NEW b \in Blocks, NEW phi \in DOMAIN in, in[phi].op = "Phi",
           NEW out, NEW moved, NEW result,
           Removal(in, lists[b], phi, out, moved[b], result),
           \A c \in Blocks : c # b => moved[c] = lists[c]
    PROVE  Moves(in, lists, out, moved)
<1>1. /\ DOMAIN in \subseteq DOMAIN out
      /\ \A j \in DOMAIN in : j # phi => out[j].op = in[j].op
      /\ out = in \/ out[phi].op = "Identity"
      /\ \A j \in DOMAIN out \ DOMAIN in : out[j].op = "Undef"
      /\ \A j : Contains(moved[b], j) <=> Contains(lists[b], j) \/ j \in DOMAIN out \ DOMAIN in
      /\ \A x, y : x # phi /\ y # phi /\ Before(lists[b], x, y) => Before(moved[b], x, y)
  BY DEF Removal
<1>2. \A j \in DOMAIN in : out[j].op = in[j].op \/ (in[j].op = "Phi" /\ out[j].op = "Identity")
  BY <1>1
<1>3. \A c \in Blocks : \A x, y \in DOMAIN in :
            in[x].op # "Phi" /\ in[y].op # "Phi" /\ Before(lists[c], x, y) => Before(moved[c], x, y)
  BY <1>1
<1>4. \A c \in Blocks : \A j : Contains(lists[c], j) => Contains(moved[c], j)
  BY <1>1
<1>5. \A c \in Blocks : \A j : Contains(moved[c], j) => Contains(lists[c], j) \/ j \notin DOMAIN in
  BY <1>1
<1>6. \A j \in DOMAIN out : j \notin DOMAIN in =>
            /\ out[j].op \in {"Phi", "Undef", "Identity"}
            /\ \E c \in Blocks : Contains(moved[c], j)
  BY <1>1
<1> QED BY <1>1, <1>2, <1>3, <1>4, <1>5, <1>6 DEF Moves

\* So is putting one at the head of the block on top.
LEMMA PrependMoves ==
    ASSUME IInv, EdgeInv, Len(stack) > 1
    PROVE  Moves(inst, instructions, Append(inst, NewInst("Phi")),
                 [instructions EXCEPT ![Top.block] = <<Len(inst) + 1>> \o @])
<1> DEFINE grown == Append(inst, NewInst("Phi"))
           new == Len(inst) + 1
           lists == [instructions EXCEPT ![Top.block] = <<new>> \o @]
<1>1. /\ DOMAIN grown = DOMAIN inst \cup {new} /\ new \notin DOMAIN inst
      /\ \A j \in DOMAIN inst : grown[j] = inst[j]
      /\ \A b \in Blocks : \A j : Contains(instructions[b], j) => Contains(lists[b], j)
      /\ Contains(lists[Top.block], new)
  BY PrependEffect
<1>2. /\ grown[new].op = "Phi"
      /\ \A c \in Blocks : \A j :
            Contains(lists[c], j) => Contains(instructions[c], j) \/ (c = Top.block /\ j = new)
  BY PrependEdges
<1>3. Top.block \in Blocks /\ instructions \in [Blocks -> Seq(DOMAIN inst)]
  BY ReadingFacts DEF IInv, TypeOK, PlacesOK
<1>4. /\ lists[Top.block] = <<new>> \o instructions[Top.block]
      /\ \A b \in Blocks : b # Top.block => lists[b] = instructions[b]
  BY <1>3
<1> HIDE DEF grown, new, lists
<1>5. ASSUME NEW b \in Blocks, NEW x \in DOMAIN inst, NEW y \in DOMAIN inst,
             Before(instructions[b], x, y)
      PROVE  Before(lists[b], x, y)
  <2>1. CASE b = Top.block
    <3> DEFINE E == DOMAIN grown
    <3>1. instructions[b] \in Seq(E) /\ new \in E
      <4>1. Seq(DOMAIN inst) \subseteq Seq(E)
        BY <1>1, Monotonic
      <4> QED BY <1>1, <1>3, <4>1
    <3> HIDE DEF E
    <3>2. Before(<<new>> \o instructions[b], x, y)
      BY <1>5, <3>1, PrependOrder
    <3> QED BY <1>4, <2>1, <3>2
  <2>2. CASE b # Top.block
    BY <1>4, <1>5, <2>2
  <2> QED BY <2>1, <2>2
<1>6. Moves(inst, instructions, grown, lists)
  BY <1>1, <1>2, <1>3, <1>5 DEF Moves
<1> QED BY <1>6 DEF grown, new, lists

\* A step of the first pass that only does such things keeps the lists.
LEMMA MovesLists ==
    ASSUME IInv, ListInv, IInv', phase = "rewrite", phase' = "rewrite",
           UNCHANGED <<program, ssa_sealed, cursor, current>>,
           current # 0 => inst[current].op # "Phi",
           Moves(inst, instructions, inst', instructions')
    PROVE  ListInv'
<1>1. Block \in Blocks
  BY AtFacts DEF IInv
<1>2. /\ DOMAIN inst \subseteq DOMAIN inst'
      /\ \A j \in DOMAIN inst : inst'[j].op = inst[j].op \/ inst'[j].op = "Identity"
      /\ \A j \in DOMAIN inst' : j \notin DOMAIN inst =>
            /\ inst'[j].op \notin {"Get", "Void"}
            /\ \E b \in Blocks : Contains(instructions'[b], j)
      /\ \A b \in Blocks : \A j : Contains(instructions[b], j) => Contains(instructions'[b], j)
      /\ \A b \in Blocks : \A j :
            Contains(instructions'[b], j) => Contains(instructions[b], j) \/ j \notin DOMAIN inst
  BY DEF Moves
<1>3. ASSUME NEW j, current # 0, Before(instructions[Block], current, j),
             Contains(instructions[Block], j), inst'[j].op = "Get"
      PROVE  current' # 0 /\ Before(instructions'[Block], current', j)
  <2>1. j \in DOMAIN inst /\ current \in DOMAIN inst
    BY <1>1, <1>3, ListedNow DEF IInv, TypeOK, PlacesOK
  <2>2. inst[j].op # "Phi"
    BY <1>2, <1>3, <2>1
  <2> QED BY <1>1, <1>3, <2>1, <2>2 DEF Moves
<1> QED BY <1>2, <1>3, RewriteLists

\* While a variable is read the pass is at a Get or at the end of the block.
LEMMA TurnMoves ==
    ASSUME IInv, EdgeInv, ListInv, IInv', Len(stack) > 1, KeepWhileReading,
           Moves(inst, instructions, inst', instructions')
    PROVE  ListInv'
<1>1. phase = "rewrite" /\ phase' = "rewrite" /\ read # 0
  BY ReadingFacts DEF KeepWhileReading
<1>2. UNCHANGED <<program, ssa_sealed, cursor, current>>
  BY DEF KeepWhileReading, place
<1>3. current # 0 => inst[current].op # "Phi"
  BY <1>1 DEF EdgeInv, SealsInOrder
<1> QED BY <1>1, <1>2, <1>3, MovesLists

\* The phi of a variable has all its operands.
LEMMA CompletePhiLists ==
    ASSUME IInv, EdgeInv, ListInv, IInv', CompletePhi
    PROVE  ListInv'
<1> DEFINE v == Lowest(Incomplete(Block))
           phi == incomplete_phis[Block][v]
           moved == instructions'
<1>1. /\ sealing # 0 /\ phase = "rewrite" /\ phase' = "rewrite"
      /\ instructions' = [instructions EXCEPT ![Block] = instructions'[Block]]
      /\ UNCHANGED <<program, ssa_sealed, cursor, current>>
      /\ Block \in Blocks /\ v \in Variable
      /\ phi \in DOMAIN inst /\ Contains(instructions[Block], phi)
  BY CompletePhiEffect
<1>2. PICK result : Removal(inst, instructions[Block], phi, inst', moved[Block], result)
  BY CompletePhiEffect
<1>3. current = 0
  BY <1>1 DEF EdgeInv, SealsInOrder
<1>4. \A c \in Blocks : c # Block => moved[c] = instructions[c]
  BY <1>1 DEF IInv, TypeOK, PlacesOK
<1> HIDE DEF phi, moved
<1>5. /\ DOMAIN inst \subseteq DOMAIN inst'
      /\ \A j \in DOMAIN inst : j # phi => inst'[j].op = inst[j].op
      /\ inst' = inst \/ inst'[phi].op = "Identity"
      /\ \A j \in DOMAIN inst' \ DOMAIN inst : inst'[j].op = "Undef"
      /\ \A j : Contains(moved[Block], j) <=>
                Contains(instructions[Block], j) \/ j \in DOMAIN inst' \ DOMAIN inst
  BY <1>2 DEF Removal
<1>6. \A j \in DOMAIN inst : inst'[j].op = inst[j].op \/ inst'[j].op = "Identity"
  BY <1>5
<1>7. \A j \in DOMAIN inst' : j \notin DOMAIN inst =>
            /\ inst'[j].op \notin {"Get", "Void"}
            /\ \E b \in Blocks : Contains(moved[b], j)
  BY <1>1, <1>5
<1>8. \A b \in Blocks : \A j : Contains(instructions[b], j) => Contains(moved[b], j)
  BY <1>4, <1>5
<1>9. \A b \in Blocks : \A j :
            Contains(moved[b], j) => Contains(instructions[b], j) \/ j \notin DOMAIN inst
  BY <1>4, <1>5
<1> QED BY <1>1, <1>3, <1>5, <1>6, <1>7, <1>8, <1>9, RewriteLists DEF moved

\* A block that is not sealed gets an incomplete phi.
LEMMA ReadUnsealedLists ==
    ASSUME IInv, EdgeInv, ListInv, IInv', ReadUnsealed
    PROVE  ListInv'
<1>1. /\ Len(stack) > 1 /\ KeepWhileReading
      /\ inst' = Append(inst, NewInst("Phi"))
      /\ instructions' = [instructions EXCEPT ![Top.block] = <<Len(inst) + 1>> \o @]
  BY DEF ReadUnsealed, Reading, PrependPhi
<1>2. Moves(inst, instructions, inst', instructions')
  BY <1>1, PrependMoves
<1> QED BY <1>1, <1>2, TurnMoves

\* The phi on top waits for its next operand, or it may be removed.
LEMMA PrepareMoves ==
    ASSUME IInv, Len(stack) > 1,
           NEW in, PoolOK(in), NoneEmpty(in), Counted(in), DOMAIN inst \subseteq DOMAIN in,
           NEW lists \in [Blocks -> Seq(DOMAIN in)],
           NEW top \in Frame(DOMAIN in), top.block = Top.block, top.phi \in DOMAIN in,
           Contains(lists[top.block], top.phi), top.pred # 0,
           PreparePhiOperand([stack EXCEPT ![Len(stack)] = top], in, lists),
           in[top.phi].op = "Phi", Moves(inst, instructions, in, lists)
    PROVE  Moves(inst, instructions, inst', instructions')
<1>1. \/ inst' = in /\ instructions' = lists
      \/ /\ instructions' = [lists EXCEPT ![top.block] = instructions'[top.block]]
         /\ \E result : Removal(in, lists[top.block], top.phi, inst', instructions'[top.block],
                               result)
  BY PrepareEffect
<1>2. CASE inst' = in /\ instructions' = lists
  BY <1>2
<1>3. CASE /\ instructions' = [lists EXCEPT ![top.block] = instructions'[top.block]]
           /\ \E result : Removal(in, lists[top.block], top.phi, inst',
                                 instructions'[top.block], result)
  <2> DEFINE moved == instructions'
  <2>1. top.block \in Blocks
    BY ReadingFacts
  <2>2. \A c \in Blocks : c # top.block => moved[c] = lists[c]
    BY <1>3, <2>1
  <2>3. PICK result : Removal(in, lists[top.block], top.phi, inst', moved[top.block], result)
    BY <1>3
  <2> HIDE DEF moved
  <2>4. Moves(in, lists, inst', moved)
    BY <2>1, <2>2, <2>3, RemovalMoves
  <2> QED BY <2>4, MovesCompose DEF moved
<1> QED BY <1>1, <1>2, <1>3

\* A sealed block gets a phi.
LEMMA ReadManyPredecessorsLists ==
    ASSUME IInv, EdgeInv, ListInv, IInv', ReadManyPredecessors
    PROVE  ListInv'
<1> DEFINE n == Len(stack)
           new == Len(inst) + 1
           top == [Top EXCEPT !.phi = new, !.pred = 1]
           grown == Append(inst, NewInst("Phi"))
           lists == [instructions EXCEPT ![Top.block] = <<new>> \o @]
           E == DOMAIN grown
<1>1. /\ n > 1 /\ KeepWhileReading
      /\ PoolOK(grown) /\ NoneEmpty(grown) /\ Counted(grown)
      /\ DOMAIN inst \subseteq E
      /\ lists \in [Blocks -> Seq(E)]
      /\ top \in Frame(E) /\ top.block = Top.block /\ top.phi = new
      /\ Contains(lists[top.block], top.phi) /\ top.phi \in E /\ top.pred # 0
      /\ PreparePhiOperand([stack EXCEPT ![n] = top], grown, lists)
  BY ReadManyEffect
<1>2. Moves(inst, instructions, grown, lists) /\ grown[new].op = "Phi"
  BY <1>1, PrependMoves, PrependEdges
<1> HIDE DEF grown, lists, new, top
<1>3. grown[top.phi].op = "Phi"
  BY <1>1, <1>2
<1>4. Moves(inst, instructions, inst', instructions')
  BY <1>1, <1>2, <1>3, PrepareMoves
<1> QED BY <1>1, <1>4, TurnMoves

\* The phi on top gets an operand.
LEMMA PushPhiArgumentLists ==
    ASSUME IInv, EdgeInv, ListInv, IInv', PushPhiArgument
    PROVE  ListInv'
<1> DEFINE n == Len(stack)
           top == [Top EXCEPT !.pred = @ + 1]
           b == Preds(Top.block)[Top.pred]
           in == AddPhiOperand(inst, Top.phi, b, Top.result)
<1>1. /\ n > 1 /\ Top.pc = "PushPhiArgument" /\ KeepWhileReading
      /\ Contains(instructions[Top.block], Top.phi) /\ Top.phi \in DOMAIN inst
      /\ PoolOK(in) /\ NoneEmpty(in) /\ Counted(in)
      /\ DOMAIN in = DOMAIN inst
      /\ \A j \in DOMAIN inst : in[j].op = inst[j].op
      /\ instructions \in [Blocks -> Seq(DOMAIN in)]
      /\ top \in Frame(DOMAIN in) /\ top.block = Top.block /\ top.phi = Top.phi
      /\ top.pred # 0
      /\ PreparePhiOperand([stack EXCEPT ![n] = top], in, instructions)
  BY PushPhiArgumentEffect
<1> HIDE DEF in, top, b
<1>2. Moves(inst, instructions, in, instructions)
  BY <1>1 DEF Moves
<1>3. in[top.phi].op = "Phi"
  <2> DEFINE m == <<Top.block, Top.phi, Top.pred>>
  <2>1. m \in Making
    BY <1>1, MakingNow DEF Waiting
  <2> HIDE DEF m
  <2>2. inst[m[2]].op = "Phi"
    BY <2>1 DEF EdgeInv, MakingOK
  <2>3. inst[Top.phi].op = "Phi"
    BY <2>2 DEF m
  <2> QED BY <1>1, <2>3
<1>4. /\ DOMAIN inst \subseteq DOMAIN in /\ top.phi \in DOMAIN in
      /\ Contains(instructions[top.block], top.phi)
  BY <1>1
<1>5. Moves(inst, instructions, inst', instructions')
  BY <1>1, <1>2, <1>3, <1>4, PrepareMoves
<1> QED BY <1>1, <1>5, TurnMoves

\* A block without a Get before its end is sealed.
LEMMA SealBlockLists ==
    ASSUME IInv, EdgeInv, ListInv, IInv', SealBlock
    PROVE  ListInv'
<1>1. /\ phase = "rewrite" /\ sealing # 0
      /\ ssa_sealed' = ssa_sealed \cup {Block}
      /\ UNCHANGED <<program, inst, instructions>>
      /\ \/ /\ phase' = "rewrite" /\ cursor' = cursor + 1
            /\ current' = FirstOf(instructions[program.order[cursor + 1]])
         \/ /\ phase' = "identities" /\ cursor' = 1
            /\ current' = FirstOf(instructions[program.list[1]])
  BY DEF SealBlock, IInv, TypeOK, ir
<1>2. current = 0
  BY <1>1 DEF EdgeInv, SealsInOrder
<1>3. \A b \in Blocks : instructions[b] \in Seq(DOMAIN inst) /\ 0 \notin DOMAIN inst
  BY AtFacts DEF IInv
<1>4. Blocks' = Blocks /\ (Block' \in Blocks \/ phase' # "rewrite")
      /\ (ListBlock' \in Blocks \/ phase' = "rewrite")
  <2>1. /\ WellFormed(program)
        /\ phase' = "rewrite" => cursor' \in DOMAIN program.order
        /\ phase' # "rewrite" => cursor' \in DOMAIN program.list
    BY <1>1 DEF IInv, TypeOK
  <2> QED BY <1>1, <2>1, ProgramFacts DEF Blocks, Block, ListBlock
<1>5. Placed(inst, instructions)'
  BY <1>1, <1>4 DEF ListInv, Placed, Replaced
<1>6. VoidLater'
  BY <1>1 DEF ListInv, VoidLater, AllListed
<1>7. CleanedSoFar'
  <2> SUFFICES ASSUME phase' # "rewrite"
               PROVE  /\ \A n \in DOMAIN program.list : ~(n < cursor')
                      /\ \A j : Contains(instructions[ListBlock'], j) =>
                                current' # 0 /\ Before(instructions[ListBlock'], current', j)
    BY <1>1 DEF CleanedSoFar
  <2>1. cursor' = 1 /\ current' = FirstOf(instructions[ListBlock']) /\ ListBlock' \in Blocks
    BY <1>1, <1>4 DEF ListBlock
  <2>2. \A n \in DOMAIN program.list : ~(n < 1)
    BY ProgramFacts DEF IInv, TypeOK
  <2> QED BY <1>3, <2>1, <2>2, FirstBefore
<1>8. GetsGone'
  <2>1. \A j : Contains(instructions[Block], j) => inst[j].op # "Get"
    BY <1>1, <1>2 DEF ListInv, GetsGone
  <2>2. ASSUME phase' = "rewrite", NEW j, Contains(instructions[Block'], j)
        PROVE  current' # 0 /\ Before(instructions[Block'], current', j)
    <3>1. current' = FirstOf(instructions[Block']) /\ Block' \in Blocks
      BY <1>1, <1>4, <2>2 DEF Block
    <3> QED BY <1>3, <2>2, <3>1, FirstBefore
  <2> QED BY <1>1, <2>1, <2>2 DEF ListInv, GetsGone
<1>9. phase' # "done"
  BY <1>1
<1> QED BY <1>5, <1>6, <1>7, <1>8, <1>9 DEF ListInv

\* What an argument names is in the pool.
LEMMA ArgumentsInPool ==
    ASSUME IInv, NEW j \in DOMAIN inst, NEW k \in DOMAIN inst[j].args, IsInst(inst[j].args[k])
    PROVE  inst[j].args[k][2] \in DOMAIN inst
<1>1. inst[j].args[k] \in Value(DOMAIN inst)
  BY PoolFacts DEF IInv, TypeOK
<1> QED BY <1>1, ValueCases

\* A change in place that replaces nothing keeps what is clean.
LEMMA CleanStays ==
    ASSUME IInv, NEW j \in DOMAIN inst, inst'[j].args = inst[j].args, Cleaned(inst, j),
           \A i \in DOMAIN inst : Replaced(inst', i) <=> Replaced(inst, i)
    PROVE  Cleaned(inst', j)
BY ArgumentsInPool DEF Cleaned

\* A step of the second pass on the pool only.
LEMMA PoolLists ==
    ASSUME IInv, ListInv, phase = "identities",
           UNCHANGED <<program, instructions, ssa_sealed, cursor, current, phase>>,
           DOMAIN inst' = DOMAIN inst,
           \A i \in DOMAIN inst : Replaced(inst', i) <=> Replaced(inst, i),
           \A i \in DOMAIN inst : inst'[i].op # inst[i].op => inst'[i].op = "Void" /\ AllListed,
           \A j \in DOMAIN inst : Cleaned(inst, j) => Cleaned(inst', j)
    PROVE  ListInv'
<1>1. Blocks' = Blocks /\ ListBlock' = ListBlock /\ AllListed' = AllListed
  BY DEF Blocks, ListBlock, AllListed
<1>2. ListBlock \in Blocks /\ \A n \in DOMAIN program.list : program.list[n] \in Blocks
  BY AtFacts, ProgramFacts DEF IInv, TypeOK
<1>3. Placed(inst, instructions)'
  BY <1>1 DEF ListInv, Placed
<1>4. VoidLater'
  BY <1>1 DEF ListInv, VoidLater
<1>5. CleanedSoFar'
  <2>1. \A b \in Blocks : \A j : Contains(instructions[b], j) => j \in DOMAIN inst
    BY ListedNow
  <2>2. \A n \in DOMAIN program.list :
                n < cursor => \A j : Contains(instructions[program.list[n]], j) => Cleaned(inst', j)
    BY <1>2, <2>1 DEF ListInv, CleanedSoFar
  <2>3. \A j : Contains(instructions[ListBlock], j) =>
                Cleaned(inst', j) \/ (current # 0 /\ Before(instructions[ListBlock], current, j))
    BY <1>2, <2>1 DEF ListInv, CleanedSoFar
  <2> QED BY <1>1, <2>2, <2>3 DEF CleanedSoFar
<1>6. GetsGone'
  <2>1. \A b \in ssa_sealed : \A j : Contains(instructions[b], j) =>
            j \in DOMAIN inst /\ inst[j].op # "Get"
    BY ListedNow DEF ListInv, GetsGone, IInv, TypeOK
  <2>2. \A j \in DOMAIN inst : inst[j].op # "Get" => inst'[j].op # "Get"
    OBVIOUS
  <2> QED BY <2>1, <2>2 DEF GetsGone
<1> QED BY <1>3, <1>4, <1>5, <1>6 DEF ListInv

\* An argument skips an identity: the instruction was not clean.
LEMMA SkipIdentityLists ==
    ASSUME IInv, EdgeInv, ListInv, IInv', SkipIdentity
    PROVE  ListInv'
<1>1. /\ phase = "identities"
      /\ UNCHANGED <<program, instructions, ssa_sealed, cursor, current, phase>>
      /\ DOMAIN inst' = DOMAIN inst
      /\ \A j \in DOMAIN inst : inst'[j].op = inst[j].op
      /\ IdentityArgs # {} /\ current \in DOMAIN inst
      /\ \A j \in DOMAIN inst : j # current => inst'[j].args = inst[j].args
  BY SkipIdentityEffect
<1>2. \A i \in DOMAIN inst : Replaced(inst', i) <=> Replaced(inst, i)
  BY <1>1 DEF Replaced
<1>3. ~Cleaned(inst, current)
  BY <1>1 DEF IdentityArgs, IsIdentity, Cleaned, Replaced
<1>4. ASSUME NEW j \in DOMAIN inst, Cleaned(inst, j)
      PROVE  Cleaned(inst', j)
  <2>1. inst'[j].args = inst[j].args
    BY <1>1, <1>3, <1>4
  <2> QED BY <1>2, <1>4, <2>1, CleanStays
<1> QED BY <1>1, <1>2, <1>4, PoolLists

\* What is invalidated was replaced, and has no arguments left.
LEMMA InvalidateErasedLists ==
    ASSUME IInv, EdgeInv, ListInv, IInv', InvalidateErased
    PROVE  ListInv'
<1> DEFINE i == Head(to_invalidate)
<1>1. /\ phase = "identities" /\ to_invalidate # <<>>
      /\ UNCHANGED <<program, instructions, ssa_sealed, cursor, current, phase>>
      /\ i \in DOMAIN inst /\ DOMAIN inst' = DOMAIN inst
      /\ \A j \in DOMAIN inst : j # i => inst'[j].op = inst[j].op /\ inst'[j].args = inst[j].args
      /\ inst'[i].op = "Void" /\ inst'[i].args = <<>>
  BY InvalidateErasedEffect
<1>2. inst[i].op \in {"Identity", "Void"}
  <2>1. to_invalidate \in Seq(DOMAIN inst)
    BY DEF IInv, TypeOK, PlacesOK
  <2>2. i = to_invalidate[1] /\ 1 \in DOMAIN to_invalidate
    BY <1>1, <2>1, HeadTailProperties, EmptySeq, LenProperties
  <2> QED BY <2>2 DEF EdgeInv, ErasedOK
<1> HIDE DEF i
<1>3. \A j \in DOMAIN inst : Replaced(inst', j) <=> Replaced(inst, j)
  BY <1>1, <1>2 DEF Replaced
<1>4. AllListed
  BY DEF InvalidateErased
<1>5. ASSUME NEW j \in DOMAIN inst, Cleaned(inst, j)
      PROVE  Cleaned(inst', j)
  <2>1. CASE j = i
    BY <1>1, <2>1 DEF Cleaned
  <2>2. CASE j # i
    BY <1>1, <1>3, <1>5, <2>2, CleanStays
  <2> QED BY <2>1, <2>2
<1>6. \A j \in DOMAIN inst : inst'[j].op # inst[j].op => inst'[j].op = "Void" /\ AllListed
  BY <1>1, <1>4
<1> QED BY <1>1, <1>3, <1>5, <1>6, PoolLists

\* The instruction names nothing that was replaced, and is erased if it was.
LEMMA EraseIdentityLists ==
    ASSUME IInv, EdgeInv, ListInv, IInv', EraseIdentity
    PROVE  ListInv'
<1> DEFINE list == instructions[ListBlock]
           rest == Erase(list, current)
           next == NextIn(list, current)
<1>1. /\ phase = "identities" /\ current # 0 /\ IdentityArgs = {}
      /\ current' = next
      /\ UNCHANGED <<program, inst, ssa_sealed, cursor, phase>>
      /\ \/ UNCHANGED instructions
         \/ /\ Replaced(inst, current)
            /\ instructions' = [instructions EXCEPT ![ListBlock] = rest]
  BY DEF EraseIdentity, Replaced
<1>2. /\ ListBlock \in Blocks /\ list \in Seq(DOMAIN inst) /\ 0 \notin DOMAIN inst
      /\ current \in DOMAIN inst /\ Contains(list, current) /\ Once(list)
  BY <1>1, AtFacts DEF IInv, TypeOK, PlacesOK, Listed, EdgeInv, OnePlace
<1>3. Blocks' = Blocks /\ ListBlock' = ListBlock
      /\ \A n \in DOMAIN program.list : program.list[n] \in Blocks
  BY <1>1, ProgramFacts DEF Blocks, ListBlock, IInv, TypeOK
<1>4. \A i \in DOMAIN inst : inst[i].op # "Void"
  BY <1>1 DEF ListInv, VoidLater, AllListed
<1>5. Cleaned(inst, current)
  <2> SUFFICES ASSUME NEW k \in DOMAIN inst[current].args, IsInst(inst[current].args[k])
               PROVE  ~Replaced(inst, inst[current].args[k][2])
    BY DEF Cleaned
  <2>1. inst[current].args[k][2] \in DOMAIN inst
    BY <1>2, ArgumentsInPool
  <2> QED BY <1>1, <1>4, <2>1 DEF IdentityArgs, IsIdentity, Replaced
<1>6. ASSUME NEW j, Contains(list, j), ~Cleaned(inst, j)
      PROVE  next # 0 /\ Before(list, next, j) /\ Before(rest, next, j)
  <2>1. j # current
    BY <1>5, <1>6
  <2>2. Before(list, current, j)
    BY <1>1, <1>6 DEF ListInv, CleanedSoFar
  <2> QED BY <1>2, <2>1, <2>2, NextBefore
<1>7. /\ \A j : Contains(rest, j) => Contains(list, j)
      /\ \A j : j # current /\ Contains(list, j) => Contains(rest, j)
  BY <1>2, EraseMembers
<1>8. /\ \/ instructions'[ListBlock] = list
         \/ instructions'[ListBlock] = rest /\ Replaced(inst, current)
      /\ \A b \in Blocks : b # ListBlock => instructions'[b] = instructions[b]
  BY <1>1, <1>2 DEF IInv, TypeOK, PlacesOK
<1> HIDE DEF list, rest, next
<1>9. \A b \in Blocks : \A j : Contains(instructions'[b], j) => Contains(instructions[b], j)
  BY <1>7, <1>8 DEF list
<1>10. Placed(inst, instructions)'
  <2> SUFFICES ASSUME NEW i \in DOMAIN inst, ~Replaced(inst, i)
               PROVE  \E b \in Blocks : Contains(instructions'[b], i)
    BY <1>1, <1>3 DEF Placed
  <2>1. PICK b \in Blocks : Contains(instructions[b], i)
    BY DEF ListInv, Placed
  <2>2. CASE b # ListBlock
    BY <1>8, <2>1, <2>2
  <2>3. CASE b = ListBlock
    BY <1>7, <1>8, <2>1, <2>3 DEF list
  <2> QED BY <2>2, <2>3
<1>11. VoidLater'
  BY <1>1, <1>4 DEF VoidLater
<1>12. CleanedSoFar'
  <2>1. \A n \in DOMAIN program.list :
                n < cursor => \A j : Contains(instructions'[program.list[n]], j) => Cleaned(inst, j)
    BY <1>1, <1>3, <1>9 DEF ListInv, CleanedSoFar
  <2>2. ASSUME NEW j, Contains(instructions'[ListBlock], j), ~Cleaned(inst, j)
        PROVE  next # 0 /\ Before(instructions'[ListBlock], next, j)
    <3>1. Contains(list, j)
      BY <1>2, <1>9, <2>2 DEF list
    <3> QED BY <1>6, <1>8, <2>2, <3>1
  <2> QED BY <1>1, <1>3, <2>1, <2>2 DEF CleanedSoFar
<1>13. GetsGone'
  <2>1. ssa_sealed \subseteq Blocks
    BY DEF IInv, TypeOK
  <2> QED BY <1>1, <1>9, <2>1 DEF ListInv, GetsGone
<1> QED BY <1>1, <1>10, <1>11, <1>12, <1>13 DEF ListInv

\* The block is done: everything in it is clean.
LEMMA NextListLists ==
    ASSUME IInv, EdgeInv, ListInv, IInv', NextList
    PROVE  ListInv'
<1>1. /\ phase = "identities" /\ current = 0
      /\ cursor' = cursor + 1
      /\ current' = FirstOf(instructions[program.list[cursor + 1]])
      /\ UNCHANGED <<program, inst, instructions, ssa_sealed, phase>>
  BY DEF NextList, ir
<1>2. Blocks' = Blocks /\ Placed(inst, instructions)'
  BY <1>1 DEF ListInv, Placed, Replaced, Blocks
<1>3. VoidLater'
  <2>1. cursor # Len(program.list)
    BY DEF NextList, IInv, TypeOK
  <2> QED BY <1>1, <2>1 DEF ListInv, VoidLater, AllListed
<1>4. /\ cursor \in DOMAIN program.list /\ cursor + 1 \in DOMAIN program.list
      /\ \A n \in DOMAIN program.list : n \in Nat /\ program.list[n] \in Blocks
      /\ cursor \in Nat
  <2>1. WellFormed(program) /\ cursor \in DOMAIN program.list
    BY <1>1 DEF IInv, TypeOK
  <2>2. WellFormed(program') /\ cursor' \in DOMAIN program'.list
    BY <1>1 DEF IInv, TypeOK
  <2> QED BY <1>1, <2>1, <2>2, ProgramFacts
<1>5. ASSUME NEW n \in DOMAIN program.list, n < cursor + 1,
             NEW j, Contains(instructions[program.list[n]], j)
      PROVE  Cleaned(inst, j)
  <2>1. n < cursor \/ program.list[n] = ListBlock
    BY <1>4, <1>5 DEF ListBlock
  <2> QED BY <1>1, <1>5, <2>1 DEF ListInv, CleanedSoFar
<1>6. ASSUME NEW j, Contains(instructions[ListBlock'], j)
      PROVE  current' # 0 /\ Before(instructions[ListBlock'], current', j)
  <2>1. current' = FirstOf(instructions[ListBlock']) /\ ListBlock' \in Blocks
    BY <1>1, <1>4 DEF ListBlock
  <2>2. instructions[ListBlock'] \in Seq(DOMAIN inst) /\ 0 \notin DOMAIN inst
    BY <2>1, AtFacts DEF IInv
  <2> QED BY <1>6, <2>1, <2>2, FirstBefore
<1>7. CleanedSoFar'
  BY <1>1, <1>5, <1>6 DEF CleanedSoFar
<1>8. GetsGone'
  BY <1>1 DEF ListInv, GetsGone
<1> QED BY <1>1, <1>2, <1>3, <1>7, <1>8 DEF ListInv

\* The passes end.
LEMMA FinishLists ==
    ASSUME IInv, EdgeInv, ListInv, IInv', Finish
    PROVE  ListInv'
<1>1. /\ phase = "identities" /\ phase' = "done" /\ current = 0 /\ cursor = Len(program.list)
      /\ UNCHANGED <<program, inst, instructions, ssa_sealed, cursor, current>>
  BY DEF Finish, AllListed, ir, place
<1>2. Blocks' = Blocks /\ ListBlock' = ListBlock
  BY <1>1 DEF Blocks, ListBlock
<1>3. Placed(inst, instructions)' /\ VoidLater'
  BY <1>1, <1>2 DEF ListInv, Placed, Replaced, VoidLater
<1>4. CleanedSoFar'
  BY <1>1, <1>2 DEF ListInv, CleanedSoFar
<1>5. GetsGone'
  BY <1>1 DEF ListInv, GetsGone
<1> QED BY <1>1, <1>3, <1>4, <1>5 DEF ListInv

\* Every step keeps what the lists hold.
LEMMA StepLists ==
    ASSUME IInv, EdgeInv, ListInv, [Next]_vars
    PROVE  ListInv'
<1>0. IInv'
  BY StepInv
<1>1. CASE VisitSet
  BY <1>0, <1>1, VisitSetLists
<1>2. CASE VisitOther
  BY <1>0, <1>2, VisitOtherLists
<1>3. CASE VisitGet \/ BeginSeal \/ ReadOperand
  BY <1>0, <1>3, CallLists
<1>4. CASE ReplaceGet
  BY <1>0, <1>4, ReplaceGetLists
<1>5. CASE PushOperand
  BY <1>0, <1>5, PushOperandLists
<1>6. CASE CompletePhi
  BY <1>0, <1>6, CompletePhiLists
<1>7. CASE SealBlock
  BY <1>0, <1>7, SealBlockLists
<1>8. CASE ReadDefined \/ ReadOnePredecessor \/ SetValue
  BY <1>0, <1>8, TurnLists
<1>9. CASE ReadUnsealed
  BY <1>0, <1>9, ReadUnsealedLists
<1>10. CASE ReadManyPredecessors
  BY <1>0, <1>10, ReadManyPredecessorsLists
<1>11. CASE PushPhiArgument
  BY <1>0, <1>11, PushPhiArgumentLists
<1>12. CASE SkipIdentity
  BY <1>0, <1>12, SkipIdentityLists
<1>13. CASE EraseIdentity
  BY <1>0, <1>13, EraseIdentityLists
<1>14. CASE NextList
  BY <1>0, <1>14, NextListLists
<1>15. CASE InvalidateErased
  BY <1>0, <1>15, InvalidateErasedLists
<1>16. CASE Finish
  BY <1>0, <1>16, FinishLists
<1>17. CASE UNCHANGED vars
  <2>1. UNCHANGED <<program, inst, instructions, ssa_sealed, cursor, current, phase>>
    BY <1>17 DEF vars, ir, place
  <2>2. Blocks' = Blocks /\ Block' = Block /\ ListBlock' = ListBlock /\ AllListed' = AllListed
    BY <2>1 DEF Blocks, Block, ListBlock, AllListed
  <2>3. Placed(inst, instructions)' /\ VoidLater'
    BY <2>1, <2>2 DEF ListInv, Placed, VoidLater
  <2>4. CleanedSoFar'
    BY <2>1, <2>2 DEF ListInv, CleanedSoFar
  <2>5. GetsGone'
    BY <2>1, <2>2 DEF ListInv, GetsGone
  <2> QED BY <2>1, <2>3, <2>4, <2>5 DEF ListInv
<1> QED BY <1>1, <1>2, <1>3, <1>4, <1>5, <1>6, <1>7, <1>8, <1>9, <1>10, <1>11, <1>12, <1>13,
           <1>14, <1>15, <1>16, <1>17
        DEF Next, Rewrite, Terminated

\* The program is given with nothing replaced and everything in a list.
LEMMA InitLists == Init => ListInv
<1> SUFFICES ASSUME Init PROVE ListInv
  OBVIOUS
<1>1. IInv
  BY InitInv
<1>2. /\ inst = program.inst /\ instructions = program.instructions
      /\ ssa_sealed = {} /\ phase = "rewrite" /\ WellFormed(program)
      /\ current = FirstOf(instructions[Block])
  BY ProgramsAssumption DEF Init, Block
<1>3. Placed(inst, instructions)
  BY <1>2 DEF WellFormed, Placed, Blocks
<1>4. VoidLater
  BY <1>2 DEF WellFormed, VoidLater
<1>5. Block \in Blocks /\ instructions[Block] \in Seq(DOMAIN inst) /\ 0 \notin DOMAIN inst
  BY <1>1, <1>2, AtFacts DEF IInv
<1>6. GetsGone
  <2>1. \A j : Contains(instructions[Block], j) =>
                    current # 0 /\ Before(instructions[Block], current, j)
    BY <1>2, <1>5, FirstBefore
  <2> QED BY <1>2, <2>1 DEF GetsGone
<1> QED BY <1>2, <1>3, <1>4, <1>6 DEF ListInv, CleanedSoFar

\* ListInv is kept with the invariants it rests on.
THEOREM ListsInductive == Spec => [](IInv /\ EdgeInv /\ ListInv)
<1>1. Init => IInv /\ EdgeInv /\ ListInv
  BY InitInv, InitEdges, InitLists
<1>2. (IInv /\ EdgeInv /\ ListInv) /\ [Next]_vars => (IInv /\ EdgeInv /\ ListInv)'
  BY StepInv, StepEdges, StepLists
<1> QED BY <1>1, <1>2, PTL DEF Spec

\* Whatever the program, when the passes end nothing in the lists refers to an
\* instruction that is not in them, and no read is left in a block that can be
\* reached.
THEOREM ArgumentsListed == Spec => []ArgumentsAreListed
<1>1. IInv /\ EdgeInv /\ ListInv => ArgumentsAreListed
  <2> DEFINE listed == UNION {ToSet(instructions[b]) : b \in DOMAIN instructions}
  <2> SUFFICES ASSUME IInv, EdgeInv, ListInv, phase = "done"
               PROVE  /\ \A i \in listed : \A k \in DOMAIN inst[i].args :
                            IsInst(inst[i].args[k]) => inst[i].args[k][2] \in listed
                      /\ \A b \in ToSet(program.order) : \A i \in ToSet(instructions[b]) :
                            inst[i].op # "Get"
    BY DEF ArgumentsAreListed
  <2>1. DOMAIN instructions = Blocks /\ WellFormed(program)
    BY DEF IInv, TypeOK, PlacesOK
  <2>2. \A b \in Blocks : \A j : j \in ToSet(instructions[b]) <=> Contains(instructions[b], j)
    <3>1. \A b \in Blocks : DOMAIN instructions[b] = 1 .. Len(instructions[b])
      BY AtFacts, LenProperties DEF IInv
    <3> QED BY <3>1 DEF ToSet, Contains
  <2>3. \A i : i \in listed <=> \E b \in Blocks : Contains(instructions[b], i)
    BY <2>1, <2>2
  <2> HIDE DEF listed
  <2>4. ASSUME NEW i \in listed, NEW k \in DOMAIN inst[i].args, IsInst(inst[i].args[k])
        PROVE  inst[i].args[k][2] \in listed
    <3>1. PICK b \in Blocks : Contains(instructions[b], i)
      BY <2>3, <2>4
    <3>2. i \in DOMAIN inst
      BY <3>1, ListedNow
    <3>3. Cleaned(inst, i)
      <4>1. PICK n \in DOMAIN program.list : program.list[n] = b
        <5>1. Contains(program.list, b)
          BY <2>1 DEF WellFormed, Blocks
        <5> QED BY <2>1, <5>1, ProgramFacts DEF Contains
      <4>2. n < cursor \/ b = ListBlock
        BY <2>1, <4>1, ProgramFacts DEF ListInv, ListBlock
      <4> QED BY <3>1, <4>1, <4>2 DEF ListInv, CleanedSoFar
    <3>4. inst[i].args[k][2] \in DOMAIN inst
      BY <2>4, <3>2, ArgumentsInPool
    <3>5. ~Replaced(inst, inst[i].args[k][2])
      BY <2>4, <3>3 DEF Cleaned
    <3> QED BY <2>3, <3>4, <3>5 DEF ListInv, Placed
  <2>5. ASSUME NEW b \in ToSet(program.order), NEW i \in ToSet(instructions[b])
        PROVE  inst[i].op # "Get"
    <3>1. PICK n \in DOMAIN program.order : program.order[n] = b
      BY DEF ToSet
    <3>2. b \in Blocks /\ b \in ssa_sealed
      BY <2>1, <3>1, ProgramFacts DEF EdgeInv, SealsInOrder
    <3> QED BY <2>2, <2>5, <3>2 DEF ListInv, GetsGone
  <2> QED BY <2>4, <2>5
<1>2. Spec => [](IInv /\ EdgeInv /\ ListInv)
  BY ListsInductive
<1> QED BY <1>1, <1>2, PTL
=============================================================================
