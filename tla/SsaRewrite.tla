------------------------------ MODULE SsaRewrite ------------------------------
(***************************************************************************)
(* SsaRewritePass and IdentityRemovalPass of ssa_rewrite_pass.cpp with the *)
(* instructions they work on.  Registers and goto variables are read and   *)
(* written by Get and Set instructions; the first pass replaces every Get  *)
(* by the value that reaches it, making phis where paths meet, the second  *)
(* rewrites the arguments that go through replaced instructions.           *)
(*                                                                         *)
(* inst is the instruction pool: a function from the instructions created  *)
(* so far to their fields, instructions[b] the list of block b.  One step  *)
(* is one instruction of VisitBlock, one turn of ReadVariable's loop, one  *)
(* operand of SealBlock or one argument of the identity removal.           *)
(***************************************************************************)
EXTENDS Integers, Sequences, FiniteSets, SequencesExt

CONSTANTS
    Programs,       \* the programs the passes are run on
    Variable,       \* registers and goto variables, numbered
    Opcode,         \* the kinds of instruction of the programs
    Immediate       \* the immediate values of the programs

VARIABLES
    program,            \* blocks, edges and orders; the passes do not change them
    inst,               \* the instruction pool
    instructions,       \* the list of each block
    current_def,        \* the value of each variable at the end of each block
    incomplete_phis,    \* of each unsealed block: the phi of each variable, or 0
    ssa_sealed,         \* the blocks all whose predecessors are known
    cursor,             \* the position of the current block in its order
    current,            \* the instruction the pass is at, 0 at the end of a block
    sealing,            \* 0, or which operand of the incomplete phis is next
    read,               \* the variable ReadVariable was called with, 0: not running
    stack,              \* its stack of ReadStates
    to_invalidate,      \* the instructions IdentityRemovalPass has erased and not
                        \*  yet invalidated
    phase

ir == <<inst, instructions>>
defs == <<current_def, incomplete_phis>>
place == <<cursor, current, sealing>>
vars == <<program, ir, defs, ssa_sealed, place, read, stack, to_invalidate, phase>>

Empty == <<"Void">>
Imm(n) == <<"Imm", n>>
InstValue(i) == <<"Inst", i>>

IsInst(v) == v[1] = "Inst"
IsIdentity(in, v) == IsInst(v) /\ in[v[2]].op = "Identity"

\* Value::Resolve: the value at the end of the identities.
Resolve(in, v) ==
    LET resolved[i \in DOMAIN in] ==
            IF in[i].op # "Identity" THEN InstValue(i)
            ELSE IF IsInst(in[i].args[1]) THEN resolved[in[i].args[1][2]] ELSE in[i].args[1]
    IN  IF IsInst(v) THEN resolved[v[2]] ELSE v

\* IsImmediate looks through identities; Use and UndoUse count at the
\* instruction the value names.
IsImmediate(in, v) == ~IsInst(Resolve(in, v))
Count(in, v, n) == IF IsImmediate(in, v) THEN in ELSE [in EXCEPT ![v[2]].use_count = @ + n]
Use(in, v) == Count(in, v, 1)
UndoUse(in, v) == Count(in, v, -1)

SetArg(in, i, k, v) ==
    [Use(UndoUse(in, in[i].args[k]), v) EXCEPT ![i].args[k] = v]

\* Mutant: the use is not counted.
AddPhiOperandUncounted(in, phi, pred, v) ==
    [in EXCEPT ![phi].args = Append(@, v), ![phi].preds = Append(@, pred)]

AddPhiOperand(in, phi, pred, v) ==
    [Use(in, v) EXCEPT ![phi].args = Append(@, v), ![phi].preds = Append(@, pred)]

\* UndoUse of each argument.
UndoUses(in, args) ==
    LET undone[k \in 0 .. Len(args)] == IF k = 0 THEN in ELSE UndoUse(undone[k - 1], args[k])
    IN  undone[Len(args)]

ClearArgs(in, i) ==
    [UndoUses(in, in[i].args) EXCEPT ![i].args = <<>>, ![i].preds = <<>>]
Invalidate(in, i) == [ClearArgs(in, i) EXCEPT ![i].op = "Void"]

\* The instruction becomes an Identity of its replacement.
ReplaceUsesWith(in, i, v) ==
    LET empty == [Invalidate(in, i) EXCEPT ![i].op = "Identity", ![i].args = <<Empty>>]
    IN  [Use(empty, v) EXCEPT ![i].args = <<v>>]

NewInst(op) == [op |-> op, var |-> 0, args |-> <<>>, preds |-> <<>>, use_count |-> 0]

Lowest(ns) == CHOOSE n \in ns : \A m \in ns : n <= m

\* An instruction is in its list once.
Place(list, i) == CHOOSE k \in DOMAIN list : list[k] = i
Erase(list, i) == RemoveAt(list, Place(list, i))
Insert(list, pos, i) == SubSeq(list, 1, pos - 1) \o <<i>> \o SubSeq(list, pos, Len(list))
FirstNonPhi(in, list) ==
    LET others == {k \in DOMAIN list : in[list[k]].op # "Phi"}
    IN  IF others = {} THEN Len(list) + 1 ELSE Lowest(others)

\* TryRemoveTrivialPhi: the pool, the list of the phi's block and the value that
\* stands for the phi.
TryRemoveTrivialPhi(in, list, phi) ==
    LET args == in[phi].args
        others == {k \in DOMAIN args : args[k] # InstValue(phi)}
        same == args[Lowest(others)]
        trivial == \A k \in others : Resolve(in, args[k]) = Resolve(in, same)
        rest == Erase(list, phi)
        point == FirstNonPhi(in, rest)
        undef == Len(in) + 1
    IN  CASE ~trivial ->
               [inst |-> in, list |-> list, result |-> InstValue(phi)]
          [] trivial /\ others # {} ->
               [inst |-> ReplaceUsesWith(in, phi, same),
                list |-> Insert(rest, point, phi), result |-> same]
          [] others = {} ->
               [inst |-> ReplaceUsesWith(Append(in, NewInst("Undef")), phi, InstValue(undef)),
                list |-> Insert(Insert(rest, point, undef), point + 1, phi),
                result |-> InstValue(undef)]

-----------------------------------------------------------------------------
\* What arguments can be and what instructions are, the pool being D.
Value(D) == {Empty} \cup Immediate \cup {InstValue(i) : i \in D}
Inst(D) == [op : Opcode \cup {"Phi", "Undef", "Identity", "Void"}, var : Variable \cup {0},
            args : Seq(Value(D)), preds : Seq(Nat), use_count : Int]

\* The arguments that name instruction i: of which instruction, and which.
UsesOf(in, i) ==
    UNION {{<<j, k>> : k \in {m \in DOMAIN in[j].args : in[j].args[m] = InstValue(i)}} :
           j \in DOMAIN in}

\* What the passes are given: lists of instructions that the emitter can make,
\* each in one place and with the uses it counts, and blocks linked and ordered.
WellFormed(p) ==
    /\ p.inst \in Seq(Inst(DOMAIN p.inst))
    /\ \A i \in DOMAIN p.inst :
            /\ p.inst[i].op \notin {"Phi", "Identity", "Void"}
            /\ p.inst[i].op \in {"Get", "Set"} => p.inst[i].var \in Variable
            /\ p.inst[i].op = "Set" => p.inst[i].args # <<>>
            /\ p.inst[i].use_count = Cardinality(UsesOf(p.inst, i))
            /\ \A k \in DOMAIN p.inst[i].args : p.inst[i].args[k] # Empty
    /\ p.instructions \in Seq(Seq(DOMAIN p.inst))
    /\ \A i \in DOMAIN p.inst : \E b \in DOMAIN p.instructions : Contains(p.instructions[b], i)
    /\ \A b, c \in DOMAIN p.instructions :
            \A k \in DOMAIN p.instructions[b], m \in DOMAIN p.instructions[c] :
                p.instructions[b][k] = p.instructions[c][m] => b = c /\ k = m
    /\ p.preds \in [DOMAIN p.instructions -> Seq(DOMAIN p.instructions)]
    /\ p.order \in Seq(DOMAIN p.instructions) /\ p.order # <<>>
    /\ p.list \in Seq(DOMAIN p.instructions) /\ p.list # <<>>
    /\ \A b \in DOMAIN p.instructions : Contains(p.list, b)

ASSUME ImmediateAssumption == \A v \in Immediate : ~IsInst(v) /\ v # Empty
ASSUME VariableAssumption == Variable \subseteq Nat \ {0}
ASSUME ProgramsAssumption == \A p \in Programs : WellFormed(p)

-----------------------------------------------------------------------------
Preds(b) == program.preds[b]

\* A frame of ReadVariable's stack.
ReadState(b) == [block |-> b, result |-> Empty, phi |-> 0, pred |-> 0, pc |-> "Start"]

FirstOf(list) == IF list = <<>> THEN 0 ELSE list[1]

Init ==
    /\ program \in Programs
    /\ inst = program.inst
    /\ instructions = program.instructions
    /\ current_def = [b \in DOMAIN instructions |-> [v \in Variable |-> Empty]]
    /\ incomplete_phis = [b \in DOMAIN instructions |-> [v \in Variable |-> 0]]
    /\ ssa_sealed = {}
    /\ cursor = 1
    /\ current = FirstOf(instructions[program.order[1]])
    /\ sealing = 0
    /\ read = 0
    /\ stack = <<>>
    /\ to_invalidate = <<>>
    /\ phase = "rewrite"

\* The instruction after i in its list, 0 if it is the last.
NextIn(list, i) ==
    LET k == Place(list, i)
    IN  IF k = Len(list) THEN 0 ELSE list[k + 1]

Block == program.order[cursor]

-----------------------------------------------------------------------------
(* VisitBlock                                                              *)

Visiting == phase = "rewrite" /\ read = 0 /\ sealing = 0 /\ current # 0

\* Mutant: emplace for insert_or_assign, the first definition stays.
VisitSetOnce ==
    /\ Visiting
    /\ inst[current].op = "Set"
    /\ current_def' = [current_def EXCEPT ![Block][inst[current].var] =
                            IF @ = Empty THEN inst[current].args[1] ELSE @]
    /\ current' = NextIn(instructions[Block], current)
    /\ UNCHANGED <<program, ir, incomplete_phis, ssa_sealed, cursor, sealing, read, stack,
                   to_invalidate, phase>>

VisitSet ==
    /\ Visiting
    /\ inst[current].op = "Set"
    /\ current_def' = [current_def EXCEPT ![Block][inst[current].var] = inst[current].args[1]]
    /\ current' = NextIn(instructions[Block], current)
    /\ UNCHANGED <<program, ir, incomplete_phis, ssa_sealed, cursor, sealing, read, stack,
                   to_invalidate, phase>>

VisitOther ==
    /\ Visiting
    /\ inst[current].op \notin {"Set", "Get"}
    /\ current' = NextIn(instructions[Block], current)
    /\ UNCHANGED <<program, ir, defs, ssa_sealed, cursor, sealing, read, stack,
                   to_invalidate, phase>>

\* ReadVariable is called for variable v in block b.
CallReadVariable(v, b) ==
    /\ read' = v
    /\ stack' = <<ReadState(0), ReadState(b)>>
    /\ UNCHANGED <<program, ir, defs, ssa_sealed, place, to_invalidate, phase>>

VisitGet ==
    /\ Visiting
    /\ inst[current].op = "Get"
    /\ CallReadVariable(inst[current].var, Block)

\* ReadVariable has returned to VisitInst.
ReplaceGet ==
    /\ Len(stack) = 1
    /\ sealing = 0
    /\ inst' = ReplaceUsesWith(inst, current, stack[1].result)
    /\ current' = NextIn(instructions[Block], current)
    /\ read' = 0
    /\ stack' = <<>>
    /\ UNCHANGED <<program, instructions, defs, ssa_sealed, cursor, sealing, to_invalidate,
                   phase>>

-----------------------------------------------------------------------------
(* SealBlock                                                               *)

\* The variables with an incomplete phi in b that are still to be completed.
Incomplete(b) == {v \in Variable : incomplete_phis[b][v] # 0}

BeginSeal ==
    /\ phase = "rewrite"
    /\ read = 0
    /\ sealing = 0
    /\ current = 0
    /\ sealing' = 1
    /\ UNCHANGED <<program, ir, defs, ssa_sealed, cursor, current, read, stack, to_invalidate,
                   phase>>

\* AddPhiOperands: the next predecessor of the block is read.
ReadOperand ==
    /\ sealing # 0
    /\ read = 0
    /\ Incomplete(Block) # {}
    /\ sealing <= Len(Preds(Block))
    /\ CallReadVariable(Lowest(Incomplete(Block)), Preds(Block)[sealing])

PushOperand ==
    /\ Len(stack) = 1
    /\ sealing # 0
    /\ inst' = AddPhiOperand(inst, incomplete_phis[Block][read], Preds(Block)[sealing],
                             stack[1].result)
    /\ sealing' = sealing + 1
    /\ read' = 0
    /\ stack' = <<>>
    /\ UNCHANGED <<program, instructions, defs, ssa_sealed, cursor, current, to_invalidate,
                   phase>>

\* The phi has its operands.
CompletePhi ==
    /\ sealing # 0
    /\ read = 0
    /\ Incomplete(Block) # {}
    /\ sealing > Len(Preds(Block))
    /\ LET v == Lowest(Incomplete(Block))
           tried == TryRemoveTrivialPhi(inst, instructions[Block], incomplete_phis[Block][v])
       IN  /\ inst' = tried.inst
           /\ instructions' = [instructions EXCEPT ![Block] = tried.list]
           /\ incomplete_phis' = [incomplete_phis EXCEPT ![Block][v] = 0]
    /\ sealing' = 1
    /\ UNCHANGED <<program, current_def, ssa_sealed, cursor, current, read, stack,
                   to_invalidate, phase>>

\* The block is sealed and the pass goes on to the next, or to the identities.
SealBlock ==
    /\ sealing # 0
    /\ read = 0
    /\ Incomplete(Block) = {}
    /\ ssa_sealed' = ssa_sealed \cup {Block}
    /\ sealing' = 0
    /\ IF cursor < Len(program.order)
       THEN /\ cursor' = cursor + 1
            /\ current' = FirstOf(instructions[program.order[cursor + 1]])
            /\ phase' = phase
       ELSE /\ cursor' = 1
            /\ current' = FirstOf(instructions[program.list[1]])
            /\ phase' = "identities"
    /\ UNCHANGED <<program, ir, defs, read, stack, to_invalidate>>

-----------------------------------------------------------------------------
(* ReadVariable: one turn of its loop.                                     *)

Top == Last(stack)
Reading(pc) == Len(stack) > 1 /\ Top.pc = pc

\* The frame on top is done with a result: the variable has that value at the
\* end of its block, and the frame below gets it.
Return(frames, result) ==
    /\ stack' = [Front(frames) EXCEPT ![Len(frames) - 1].result = result]
    /\ current_def' = [current_def EXCEPT ![Last(frames).block][read] = result]

\* A phi at the head of the block on top.
PrependPhi ==
    /\ inst' = Append(inst, NewInst("Phi"))
    /\ instructions' = [instructions EXCEPT ![Top.block] = <<Len(inst) + 1>> \o @]

KeepWhileReading == UNCHANGED <<program, ssa_sealed, place, read, to_invalidate, phase>>

ReadDefined ==
    /\ Reading("Start")
    /\ current_def[Top.block][read] # Empty
    /\ Return(stack, current_def[Top.block][read])
    /\ UNCHANGED <<ir, incomplete_phis>>
    /\ KeepWhileReading

\* Mutant: the phi is not remembered.
ReadUnsealedForgets ==
    /\ Reading("Start")
    /\ current_def[Top.block][read] = Empty
    /\ Top.block \notin ssa_sealed
    /\ PrependPhi
    /\ Return(stack, InstValue(Len(inst) + 1))
    /\ UNCHANGED incomplete_phis
    /\ KeepWhileReading

\* Incomplete CFG
ReadUnsealed ==
    /\ Reading("Start")
    /\ current_def[Top.block][read] = Empty
    /\ Top.block \notin ssa_sealed
    /\ PrependPhi
    /\ incomplete_phis' = [incomplete_phis EXCEPT ![Top.block][read] = Len(inst) + 1]
    /\ Return(stack, InstValue(Len(inst) + 1))
    /\ KeepWhileReading

\* "Optimize the common case of one predecessor: no phi needed"
ReadOnePredecessor ==
    /\ Reading("Start")
    /\ current_def[Top.block][read] = Empty
    /\ Top.block \in ssa_sealed
    /\ Len(Preds(Top.block)) = 1
    /\ stack' = Append([stack EXCEPT ![Len(stack)].pc = "SetValue"],
                       ReadState(Preds(Top.block)[1]))
    /\ UNCHANGED <<ir, defs>>
    /\ KeepWhileReading

\* prepare_phi_operand, on the stack, pool and lists it finds.
PreparePhiOperand(frames, in, lists) ==
    LET top == Last(frames)
        tried == TryRemoveTrivialPhi(in, lists[top.block], top.phi)
    IN  IF top.pred > Len(Preds(top.block))
        THEN /\ inst' = tried.inst
             /\ instructions' = [lists EXCEPT ![top.block] = tried.list]
             /\ Return(frames, tried.result)
        ELSE /\ inst' = in
             /\ instructions' = lists
             /\ stack' = Append([frames EXCEPT ![Len(frames)].pc = "PushPhiArgument"],
                                ReadState(Preds(top.block)[top.pred]))

\* Mutant: the phi is not the value of the variable while its operands are read.
ReadManyPredecessorsUnbroken ==
    /\ Reading("Start")
    /\ current_def[Top.block][read] = Empty
    /\ Top.block \in ssa_sealed
    /\ Len(Preds(Top.block)) # 1
    /\ LET phi == Len(inst) + 1
           frames == [stack EXCEPT ![Len(stack)].phi = phi, ![Len(stack)].pred = 1]
       IN  PreparePhiOperand(frames, Append(inst, NewInst("Phi")),
                             [instructions EXCEPT ![Top.block] = <<phi>> \o @])
    /\ Preds(Top.block) # <<>> => UNCHANGED current_def
    /\ UNCHANGED incomplete_phis
    /\ KeepWhileReading

\* "Break potential cycles with operandless phi"
ReadManyPredecessors ==
    /\ Reading("Start")
    /\ current_def[Top.block][read] = Empty
    /\ Top.block \in ssa_sealed
    /\ Len(Preds(Top.block)) # 1
    /\ LET phi == Len(inst) + 1
           frames == [stack EXCEPT ![Len(stack)].phi = phi, ![Len(stack)].pred = 1]
       IN  /\ PreparePhiOperand(frames, Append(inst, NewInst("Phi")),
                                [instructions EXCEPT ![Top.block] = <<phi>> \o @])
           /\ Preds(Top.block) # <<>> =>
                current_def' = [current_def EXCEPT ![Top.block][read] = InstValue(phi)]
    /\ UNCHANGED incomplete_phis
    /\ KeepWhileReading

SetValue ==
    /\ Reading("SetValue")
    /\ Return(stack, Top.result)
    /\ UNCHANGED <<ir, incomplete_phis>>
    /\ KeepWhileReading

PushPhiArgument ==
    /\ Reading("PushPhiArgument")
    /\ LET frames == [stack EXCEPT ![Len(stack)].pred = @ + 1]
       IN  /\ PreparePhiOperand(frames,
                AddPhiOperand(inst, Top.phi, Preds(Top.block)[Top.pred], Top.result),
                instructions)
           /\ Top.pred < Len(Preds(Top.block)) => UNCHANGED current_def
    /\ UNCHANGED incomplete_phis
    /\ KeepWhileReading

-----------------------------------------------------------------------------
(* IdentityRemovalPass                                                     *)

ListBlock == program.list[cursor]
\* Mutant: the loop over the arguments starts at the second.
IdentityArgsAfterFirst ==
    {k \in DOMAIN inst[current].args : k > 1 /\ IsIdentity(inst, inst[current].args[k])}

IdentityArgs == {k \in DOMAIN inst[current].args : IsIdentity(inst, inst[current].args[k])}

\* One turn of the innermost loop: an argument skips one identity.
SkipIdentity ==
    /\ phase = "identities"
    /\ current # 0
    /\ IdentityArgs # {}
    /\ LET k == Lowest(IdentityArgs)
       IN  inst' = SetArg(inst, current, k, inst[inst[current].args[k][2]].args[1])
    /\ UNCHANGED <<program, instructions, defs, ssa_sealed, place, read, stack, to_invalidate,
                   phase>>

\* The arguments of the instruction name no identity any more.
EraseIdentity ==
    /\ phase = "identities"
    /\ current # 0
    /\ IdentityArgs = {}
    /\ IF inst[current].op \in {"Identity", "Void"}
       THEN /\ to_invalidate' = Append(to_invalidate, current)
            /\ instructions' = [instructions EXCEPT ![ListBlock] =
                                    Erase(@, current)]
       ELSE UNCHANGED <<to_invalidate, instructions>>
    /\ current' = NextIn(instructions[ListBlock], current)
    /\ UNCHANGED <<program, inst, defs, ssa_sealed, cursor, sealing, read, stack, phase>>

NextList ==
    /\ phase = "identities"
    /\ current = 0
    /\ cursor < Len(program.list)
    /\ cursor' = cursor + 1
    /\ current' = FirstOf(instructions[program.list[cursor + 1]])
    /\ UNCHANGED <<program, ir, defs, ssa_sealed, sealing, read, stack, to_invalidate, phase>>

\* The lists are done: the erased instructions are invalidated in turn.
AllListed == phase = "identities" /\ current = 0 /\ cursor = Len(program.list)

InvalidateErased ==
    /\ AllListed
    /\ to_invalidate # <<>>
    /\ inst' = Invalidate(inst, Head(to_invalidate))
    /\ to_invalidate' = Tail(to_invalidate)
    /\ UNCHANGED <<program, instructions, defs, ssa_sealed, place, read, stack, phase>>

Finish ==
    /\ AllListed
    /\ to_invalidate = <<>>
    /\ phase' = "done"
    /\ UNCHANGED <<program, ir, defs, ssa_sealed, place, read, stack, to_invalidate>>

Rewrite ==
    \/ VisitSet \/ VisitOther \/ VisitGet \/ ReplaceGet
    \/ BeginSeal \/ ReadOperand \/ PushOperand \/ CompletePhi \/ SealBlock
    \/ ReadDefined \/ ReadUnsealed \/ ReadOnePredecessor \/ ReadManyPredecessors
    \/ SetValue \/ PushPhiArgument
    \/ SkipIdentity \/ EraseIdentity \/ NextList
    \/ InvalidateErased \/ Finish

Terminated == phase = "done" /\ UNCHANGED vars

Next == Rewrite \/ Terminated

Spec == Init /\ [][Next]_vars

-----------------------------------------------------------------------------
\* Every use of an instruction is counted and nothing else is: the count of an
\* instruction that was not replaced is the number of arguments that name it,
\* though IsImmediate looks through identities and Use and UndoUse do not.
UsesAreCounted ==
    \A i \in DOMAIN inst :
        inst[i].op \notin {"Identity", "Void"} =>
            inst[i].use_count = Cardinality(UsesOf(inst, i))

\* The phis of a block come first, and a phi of a block that can be reached has
\* one operand for each predecessor of the block, though the edges of a loop
\* are known before the values that come along them.
PhisMatchTheEdges ==
    phase # "rewrite" =>
        \A b \in DOMAIN instructions : \A k \in DOMAIN instructions[b] :
            inst[instructions[b][k]].op = "Phi" =>
                /\ \A m \in 1 .. k : inst[instructions[b][m]].op = "Phi"
                /\ Contains(program.order, b) => inst[instructions[b][k]].preds = Preds(b)

\* Nothing in the lists refers to an instruction that is not in them, and no
\* read is left in a block that can be reached.
ArgumentsAreListed ==
    phase = "done" =>
        LET listed == UNION {ToSet(instructions[b]) : b \in DOMAIN instructions}
        IN  /\ \A i \in listed : \A k \in DOMAIN inst[i].args :
                  IsInst(inst[i].args[k]) => inst[i].args[k][2] \in listed
            /\ \A b \in ToSet(program.order) : \A i \in ToSet(instructions[b]) : inst[i].op # "Get"

\* While the operands of a phi are read, no second phi is made for the same
\* block: the reads go round a loop of the program at most once.
OnePhiPerRead ==
    \A j, k \in DOMAIN stack :
        stack[j].pc = "PushPhiArgument" /\ stack[k].pc = "PushPhiArgument" /\
        stack[j].block = stack[k].block => j = k
=============================================================================
