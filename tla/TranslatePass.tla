----------------------------- MODULE TranslatePass -----------------------------
(***************************************************************************)
(* TranslatePass of structured_control_flow.cpp: it walks the tree that    *)
(* the goto pass left and makes IR blocks, the edges between them and the  *)
(* abstract syntax list.  Visit is recursive; calls is its call stack, and *)
(* one action is one case of its switch, or the end of one Visit with what *)
(* its caller does next.                                                   *)
(*                                                                         *)
(* An IR block is a position of irBlocks and keeps its successors and, in  *)
(* order, what was emitted into it: a guest instruction, an assignment to  *)
(* a goto variable, a reference to the condition it ends with.  A block of *)
(* the CFG stands for one instruction of inst_list, at its begin_index and *)
(* end_index; the indices are those the blocks should have.                *)
(***************************************************************************)
EXTENDS GotoPass

\* The constructor of the CFG makes a block of the first label: the syntax list is
\* never empty when its first node is looked at.
ASSUME NonEmptyAssumption == \A g \in Cfgs : g # <<>>

VARIABLES
    calls,          \* the active Visit calls, the innermost last
    irBlocks,       \* the blocks created so far
    syntax_list,    \* the nodes emitted so far
    ended           \* "no", "returned", or the exception that ended the pass

translateVars == <<calls, irBlocks, syntax_list, ended>>
allVars == <<vars, translateVars>>

\* dummy_flow_block is value-initialised: both its indices are 0.
BeginIndex(b) == IF b = Dummy THEN 0 ELSE b - 1
EndIndex(b) == IF b = Dummy THEN 0 ELSE b - 1

\* What the Code case translates for block b: end_index - begin_index + 1
\* instructions from begin_index on.
Translated(b) ==
    [i \in 1 .. EndIndex(b) - BeginIndex(b) + 1 |-> <<"Inst", BeginIndex(b) + i - 1>>]

\* Mutant: the two block arguments are swapped.
CallSwapped(s, break, fallthrough, locals) ==
    [parent |-> s, at |-> 1, current |-> 0, break |-> fallthrough,
     fallthrough |-> break, locals |-> locals]

\* A call of Visit on statement s.  header, continue, merge and node are the
\* locals of its caller's If or Loop case.
Call(s, break, fallthrough, locals) ==
    [parent |-> s, at |-> 1, current |-> 0, break |-> break,
     fallthrough |-> fallthrough, locals |-> locals]

NoLocals == [header |-> 0, continue |-> 0, merge |-> 0, node |-> 0]

NewBlock(ir) == Append(ir, [successors |-> <<>>, body |-> <<>>])
BlockNode(b) == [type |-> "Block", block |-> b]

TranslateInit ==
    /\ Init
    /\ calls = <<>>
    /\ irBlocks = <<>>
    /\ syntax_list = <<>>
    /\ ended = "no"

Structure == Next /\ UNCHANGED translateVars

\* The constructor calls Visit on the root when the goto pass is done.
VisitRoot ==
    /\ step = "done"
    /\ ended = "no"
    /\ calls = <<>>
    /\ calls' = <<Call(Root, 0, 0, NoLocals)>>
    /\ UNCHANGED <<vars, irBlocks, syntax_list, ended>>

-----------------------------------------------------------------------------
call == Last(calls)
AtEnd == call.at > Len(stmt[call.parent].children)
visited == stmt[call.parent].children[call.at]

\* Visit is at a statement of type t.
Visiting(t) == ended = "no" /\ calls # <<>> /\ ~AtEnd /\ stmt[visited].type = t

\* ensure_block: the current block, the blocks and the list after it.
Ensured == IF call.current # 0 THEN call.current ELSE Len(irBlocks) + 1
EnsuredBlocks == IF call.current # 0 THEN irBlocks ELSE NewBlock(irBlocks)
EnsuredList == IF call.current # 0 THEN syntax_list
               ELSE Append(syntax_list, BlockNode(Ensured))

\* The innermost call goes on to its next statement, in block b.
GoOn(b) == Append(Front(calls), [call EXCEPT !.at = @ + 1, !.current = b])

Emit(ir, b, effects) == [ir EXCEPT ![b].body = @ \o effects]
ConditionRef(cond) == <<<<"ConditionRef", cond>>>>

\* AddBranch throws on an edge that exists; edges are added in the order given.
CanBranch(ir, edges) ==
    \A i \in DOMAIN edges :
        /\ ~Contains(ir[edges[i][1]].successors, edges[i][2])
        /\ \A j \in 1 .. i - 1 : edges[i] # edges[j]
AddBranch(ir, b, c) == [ir EXCEPT ![b].successors = Append(@, c)]
AddBranches(ir, edges) ==
    LET added[n \in 0 .. Len(edges)] ==
            IF n = 0 THEN ir ELSE AddBranch(added[n - 1], edges[n][1], edges[n][2])
    IN  added[Len(edges)]

\* TryFindForwardBlock: a Code among the siblings after s, before any of them
\* has children.
FindsForwardBlock(s) ==
    LET after == After(stmt, s)
    IN  \E i \in DOMAIN after :
           /\ stmt[after[i]].type = "Code"
           /\ \A j \in 1 .. i : ~HasChildren(stmt, after[j])

\* MergeBlock: without a forward block a dummy Code is inserted after s.
StmtsMerged(s) ==
    IF FindsForwardBlock(s) THEN stmt
    ELSE LET s1 == Create(stmt, [type |-> "Code", up |-> call.parent, block |-> Dummy])
         IN  SetChildren(s1, call.parent,
                         Before(stmt, s) \o <<s, Len(s1)>> \o After(stmt, s))

\* What the switch does not touch.
KeepPass == UNCHANGED <<cfg, gotos, goto_stmt, goto_level, label_level, step>>
Throw(what) == ended' = what /\ UNCHANGED <<stmt, calls, irBlocks, syntax_list>>

-----------------------------------------------------------------------------
VisitLabel ==
    /\ Visiting("Label")
    /\ calls' = GoOn(call.current)
    /\ UNCHANGED <<vars, irBlocks, syntax_list, ended>>

VisitCode ==
    /\ Visiting("Code")
    /\ irBlocks' = Emit(EnsuredBlocks, Ensured, Translated(stmt[visited].block))
    /\ syntax_list' = EnsuredList
    /\ calls' = GoOn(Ensured)
    /\ UNCHANGED <<vars, ended>>

VisitSetVariable ==
    /\ Visiting("SetVariable")
    /\ irBlocks' = Emit(EnsuredBlocks, Ensured,
                        <<<<"SetGotoVariable", stmt[visited].id, stmt[visited].op>>>>)
    /\ syntax_list' = EnsuredList
    /\ calls' = GoOn(Ensured)
    /\ UNCHANGED <<vars, ended>>

\* The header of an If; its children are visited next.
VisitIf ==
    /\ Visiting("If")
    /\ LET merge == Len(EnsuredBlocks) + 1
           node == Len(EnsuredList) + 1
       IN  /\ stmt' = StmtsMerged(visited)
           /\ irBlocks' = Emit(NewBlock(EnsuredBlocks), Ensured,
                               ConditionRef(stmt[visited].cond))
           /\ syntax_list' = Append(EnsuredList, [type |-> "Pending"])
           /\ calls' = Append(GoOn(Ensured),
                         Call(visited, call.break, merge,
                              [NoLocals EXCEPT !.merge = merge, !.node = node]))
    /\ KeepPass
    /\ UNCHANGED ended

\* Mutant: the loop has no continue block of its own.
LoopContinueIsHeader(header) == header
LoopContinue(header) == header + 1

\* The header and continue blocks of a Loop; its children are visited next.
VisitLoop ==
    /\ Visiting("Loop")
    /\ LET header == Len(irBlocks) + 1
           continue == LoopContinue(header)
           merge == header + 2
           edges == IF call.current = 0 THEN <<>> ELSE <<<<call.current, header>>>>
           ir == NewBlock(NewBlock(NewBlock(irBlocks)))
       IN  IF CanBranch(ir, edges)
           THEN /\ stmt' = StmtsMerged(visited)
                /\ irBlocks' = AddBranches(ir, edges)
                /\ syntax_list' = syntax_list \o <<BlockNode(header), [type |-> "Pending"]>>
                /\ calls' = Append(GoOn(call.current),
                              Call(visited, merge, continue,
                                   [header |-> header, continue |-> continue,
                                    merge |-> merge, node |-> Len(syntax_list) + 2]))
                /\ UNCHANGED ended
           ELSE Throw("LogicError")
    /\ KeepPass

VisitBreak ==
    /\ Visiting("Break")
    /\ LET skip == Len(EnsuredBlocks) + 1
           ir == Emit(NewBlock(EnsuredBlocks), Ensured, ConditionRef(stmt[visited].cond))
           edges == <<<<Ensured, call.break>>, <<Ensured, skip>>>>
       IN  IF call.break # 0 /\ CanBranch(ir, edges)
           THEN /\ stmt' = StmtsMerged(visited)
                /\ irBlocks' = AddBranches(ir, edges)
                /\ syntax_list' = EnsuredList \o
                     <<[type |-> "Break", merge |-> call.break, skip |-> skip], BlockNode(skip)>>
                /\ calls' = GoOn(skip)
                /\ UNCHANGED ended
           ELSE Throw(IF call.break = 0 THEN "undefined" ELSE "LogicError")
    /\ KeepPass

\* Mutant: the block of the Epilogue is not listed.
VisitReturnUnlisted ==
    /\ Visiting("Return")
    /\ LET return == Len(EnsuredBlocks) + 1
       IN  /\ irBlocks' = AddBranches(Emit(NewBlock(EnsuredBlocks), return, <<<<"Epilogue">>>>),
                                      <<<<Ensured, return>>>>)
           /\ syntax_list' = Append(EnsuredList, [type |-> "Return"])
           /\ calls' = GoOn(0)
    /\ UNCHANGED <<vars, ended>>

\* Code after the Return starts in a block of its own.
VisitReturn ==
    /\ Visiting("Return")
    /\ LET return == Len(EnsuredBlocks) + 1
       IN  /\ irBlocks' = AddBranches(Emit(NewBlock(EnsuredBlocks), return, <<<<"Epilogue">>>>),
                                      <<<<Ensured, return>>>>)
           /\ syntax_list' = EnsuredList \o <<BlockNode(return), [type |-> "Return"]>>
           /\ calls' = GoOn(0)
    /\ UNCHANGED <<vars, ended>>

-----------------------------------------------------------------------------
(* The end of a Visit.                                                     *)

Ending(t) == ended = "no" /\ calls # <<>> /\ AtEnd /\ stmt[call.parent].type = t

\* Mutant: it is the caller's block that falls through.
FallthroughOfCaller ==
    LET caller == calls[Len(calls) - 1]
    IN  IF call.fallthrough # 0 /\ caller.current # 0
        THEN <<<<caller.current, call.fallthrough>>>> ELSE <<>>

\* A block that is still open falls through to where the caller said.
Fallthrough ==
    IF call.current # 0 /\ call.fallthrough # 0
    THEN <<<<call.current, call.fallthrough>>>> ELSE <<>>

\* syntax_list.at(body_block_index): the node after the one the If or Loop has
\* reserved, a block node if a child opened a block.
BodyNode == call.locals.node + 1
BodyExists == BodyNode <= Len(syntax_list)

\* The caller's loop goes on after its If or Loop, in its merge block.
Caller == calls[Len(calls) - 1]
ReturnToCaller(b) ==
    Append(SubSeq(calls, 1, Len(calls) - 2), [Caller EXCEPT !.current = b])

EndIf ==
    /\ Ending("If")
    /\ IF BodyExists
       THEN LET merge == call.locals.merge
                then == syntax_list[BodyNode].block
                edges == Fallthrough \o <<<<Caller.current, then>>, <<Caller.current, merge>>>>
            IN  IF CanBranch(irBlocks, edges)
                THEN /\ irBlocks' = AddBranches(irBlocks, edges)
                     /\ syntax_list' =
                          [syntax_list EXCEPT ![call.locals.node] =
                              [type |-> "If", body |-> then, merge |-> merge]]
                          \o <<[type |-> "EndIf", merge |-> merge], BlockNode(merge)>>
                     /\ calls' = ReturnToCaller(merge)
                     /\ UNCHANGED <<stmt, ended>>
                ELSE Throw("LogicError")
       ELSE Throw("out_of_range")
    /\ KeepPass

EndLoop ==
    /\ Ending("Loop")
    /\ IF BodyExists
       THEN LET loc == call.locals
                body == syntax_list[BodyNode].block
                ir == Emit(irBlocks, loc.continue, ConditionRef(stmt[call.parent].cond))
                edges == Fallthrough \o <<<<loc.header, body>>, <<loc.continue, loc.header>>,
                                          <<loc.continue, loc.merge>>>>
            IN  IF CanBranch(ir, edges)
                THEN /\ irBlocks' = AddBranches(ir, edges)
                     /\ syntax_list' =
                          [syntax_list EXCEPT ![loc.node] =
                              [type |-> "Loop", body |-> body,
                               continue |-> loc.continue, merge |-> loc.merge]]
                          \o <<BlockNode(loc.continue),
                               [type |-> "Repeat", header |-> loc.header, merge |-> loc.merge],
                               BlockNode(loc.merge)>>
                     /\ calls' = ReturnToCaller(loc.merge)
                     /\ UNCHANGED <<stmt, ended>>
                ELSE Throw("LogicError")
       ELSE Throw("out_of_range")
    /\ KeepPass

\* The root has been visited; Prologue goes to the front of the first block.
EndRoot ==
    /\ Ending("Function")
    /\ LET first == syntax_list[1].block
       IN  irBlocks' = [irBlocks EXCEPT ![first].body = <<<<"Prologue">>>> \o @]
    /\ syntax_list' = IF call.current = 0 THEN syntax_list
                      ELSE Append(syntax_list, [type |-> "Unreachable"])
    /\ calls' = <<>>
    /\ ended' = "returned"
    /\ UNCHANGED vars

TranslateTerminated == ended # "no" /\ UNCHANGED allVars

Translate ==
    \/ VisitRoot
    \/ VisitLabel
    \/ VisitCode
    \/ VisitSetVariable
    \/ VisitIf
    \/ VisitLoop
    \/ VisitBreak
    \/ VisitReturn
    \/ EndIf
    \/ EndLoop
    \/ EndRoot
    \/ TranslateTerminated

TranslateNext == Structure \/ Translate

TranslateSpec == TranslateInit /\ [][TranslateNext]_allVars

-----------------------------------------------------------------------------
\* The pass throws nothing on what the goto pass leaves: no edge is added
\* twice, every Break has a block to break to and every If and Loop begins with
\* a statement that opens a block, so that syntax_list.at finds its body.
TranslateNeverThrows == ended \in {"no", "returned"}

BlockNodes == {i \in DOMAIN syntax_list : syntax_list[i].type = "Block"}
PlaceOf(b) == CHOOSE i \in BlockNodes : syntax_list[i].block = b

\* GenerateBlocks takes the blocks from the syntax list, PostOrder from the
\* edges: every block made is in the list exactly once, so IdentityRemovalPass
\* misses none of those SsaRewritePass changed.
EveryBlockListedOnce ==
    ended = "returned" =>
        \A b \in DOMAIN irBlocks : Cardinality({i \in BlockNodes : syntax_list[i].block = b}) = 1

\* The SSA pass reads a variable in a block it has not visited only through an
\* edge that goes back in the list.  Such an edge comes from the continue block
\* of a loop to its header, and a continue block writes no variable.
BackEdgesWriteNothing ==
    ended = "returned" =>
        \A b \in DOMAIN irBlocks : \A c \in ToSet(irBlocks[b].successors) :
            PlaceOf(c) <= PlaceOf(b) =>
                /\ \E i \in DOMAIN syntax_list :
                      /\ syntax_list[i].type = "Repeat"
                      /\ syntax_list[i].header = c
                      /\ syntax_list[i - 1] = BlockNode(b)
                /\ \A e \in ToSet(irBlocks[b].body) : e[1] = "ConditionRef"

\* The list begins with a block, or PostOrder throws, and no edge enters that
\* block: a read that reaches it ends the search of the SSA pass.
FirstBlockIsEntry ==
    ended = "returned" =>
        /\ syntax_list[1].type = "Block"
        /\ \A b \in DOMAIN irBlocks :
              syntax_list[1].block \notin ToSet(irBlocks[b].successors)

\* What ReadVariable relies on to end, and to end at the right definition.
FitForSsa == BackEdgesWriteNothing /\ FirstBlockIsEntry

\* The edges and the syntax list are made apart and say the same: a block goes
\* where the node after its own says, with no edge missing and none too many.
NodeGoesTo(node) ==
    CASE node.type = "Block" -> {node.block}
      [] node.type = "If" -> {node.body, node.merge}
      [] node.type = "EndIf" -> {node.merge}
      [] node.type = "Loop" -> {node.body}
      [] node.type = "Repeat" -> {node.header, node.merge}
      [] node.type = "Break" -> {node.merge, node.skip}
      [] OTHER -> {}
EdgesFollowTheList ==
    ended = "returned" =>
        \A i \in BlockNodes :
            /\ i < Len(syntax_list)
            /\ ToSet(irBlocks[syntax_list[i].block].successors) = NodeGoesTo(syntax_list[i + 1])

\* "Create a merge block we can visit later": the Code that stands for a merge
\* block adds no guest code, each instruction is translated in one place.
InstructionsTranslatedOnce ==
    \A b, c \in DOMAIN irBlocks : \A i \in DOMAIN irBlocks[b].body, j \in DOMAIN irBlocks[c].body :
        /\ irBlocks[b].body[i] = irBlocks[c].body[j]
        /\ irBlocks[b].body[i][1] = "Inst"
        => b = c /\ i = j
=============================================================================
