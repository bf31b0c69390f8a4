------------------------------- MODULE GotoPass -------------------------------
(***************************************************************************)
(* The goto elimination of structured_control_flow.cpp.  BuildTree turns a *)
(* control flow graph into a flat list of labels, code and gotos; then the *)
(* gotos are removed, the last one first: each is moved until it is a      *)
(* sibling of its label and replaced there by an If or a Loop.             *)
(*                                                                         *)
(* stmt is the statement pool: a function from the statements created so   *)
(* far to their fields; "children" is a Tree, "up" the parent (0: none).   *)
(* A statement unlinked from its Tree stays in the pool, as in the code.   *)
(* The children list and the up pointers are separate state and can        *)
(* disagree.  Expression statements (Identity, Not, Or, Variable) have no  *)
(* place in a Tree and never change: they are values, <<operator, operands *)
(* ...>>.  A CFG is a sequence of blocks in address order; a Block* is a   *)
(* position of it.                                                         *)
(***************************************************************************)
EXTENDS Integers, Sequences, FiniteSets, SequencesExt, FiniteSetsExt

CONSTANT Cfgs   \* the control flow graphs the pass is run on

\* The blocks a block can branch to are blocks of its graph.
TargetsAreBlocks(g) ==
    /\ g \in Seq([end_class : {"Branch", "Exit"}, cond : {"True", "False", "Guest"},
                  branch_true : 0 .. Len(g), branch_false : 0 .. Len(g)])
    /\ \A b \in 1 .. Len(g) : g[b].end_class = "Branch" =>
          /\ g[b].cond # "False" => g[b].branch_true # 0
          /\ g[b].cond # "True" => g[b].branch_false # 0

ASSUME CfgsAssumption == \A g \in Cfgs : TargetsAreBlocks(g)

VARIABLES
    cfg,            \* the graph being structured
    stmt,           \* the statement pool
    gotos,          \* gotos still to be removed; the last one is next
    goto_stmt,      \* the goto RemoveGoto is working on (0: none)
    goto_level,     \* RemoveGoto's locals: how deep the goto ...
    label_level,    \* ... and its label are, counted once per goto
    step            \* where RemoveGoto is, or how the pass ended

vars == <<cfg, stmt, gotos, goto_stmt, goto_level, label_level, step>>

Root == 1
True == <<"True">>
False == <<"False">>
Guest == <<"Guest">>            \* Identity of a condition of the shader
Not(e) == <<"Not", e>>
Or(a, b) == <<"Or", a, b>>
Variable(id) == <<"Variable", id>>

\* dummy_flow_block, the block of a Code that stands for no guest code.
Dummy == 0

HasChildren(st, s) == st[s].type \in {"If", "Loop", "Function"}
Children(st, s) == IF HasChildren(st, s) THEN st[s].children ELSE <<>>

\* pool.Create: the new statement is the last of the pool.
Create(st, fields) == Append(st, fields)

Position(st, s) == SelectInSeq(st[st[s].up].children, LAMBDA x : x = s)

\* The siblings on either side of s; From includes s.
Before(st, s) == SubSeq(st[st[s].up].children, 1, Position(st, s) - 1)
From(st, s) == LET body == st[st[s].up].children
               IN  SubSeq(body, Position(st, s), Len(body))
After(st, s) == Tail(From(st, s))
\* The siblings from s to the one before t.
Span(st, s, t) == SubSeq(st[st[s].up].children, Position(st, s), Position(st, t) - 1)

SetChildren(st, s, body) ==
    [x \in DOMAIN st |-> IF x = s THEN [st[x] EXCEPT !.children = body] ELSE st[x]]

\* UpdateTreeUp: every child of s points to s.
UpdateTreeUp(st, s) ==
    [x \in DOMAIN st |-> IF Contains(st[s].children, x) THEN [st[x] EXCEPT !.up = s]
                                                       ELSE st[x]]

Level(st, s) ==
    LET level[x \in DOMAIN st] == IF st[x].up = 0 THEN 0 ELSE 1 + level[st[x].up]
    IN  level[s]

\* The ancestor of s (or s) that is n levels above it.
Ancestor(st, s, n) ==
    LET above[i \in 0 .. n] == IF i = 0 THEN s ELSE st[above[i - 1]].up
    IN  above[n]

\* A statement and all it is inside of.
Chain(st, s) == {Ancestor(st, s, n) : n \in 0 .. Level(st, s)}

IsDirectlyRelated(st, g, l) ==
    LET gl == Level(st, g)
        ll == Level(st, l)
    IN  IF ll < gl THEN st[l].up = st[Ancestor(st, g, gl - ll)].up
                   ELSE st[g].up = st[Ancestor(st, l, ll - gl)].up

IsIndirectlyRelated(st, g, l) == st[g].up # st[l].up /\ ~IsDirectlyRelated(st, g, l)

AreSiblings(st, g, l) == Contains(st[st[g].up].children, l)

\* The ancestor of the nephew that is a sibling of the uncle.
SiblingFromNephew(st, uncle, nephew) ==
    Ancestor(st, nephew, Level(st, nephew) - Level(st, uncle))

\* left is not at or after right.
AreOrdered(st, left, right) == ~Contains(From(st, right), left)

NeedsLift(st, g, l) == AreOrdered(st, SiblingFromNephew(st, g, l), g)

\* SanitizeNoBreaks lets the statements pass.
NoBreaks(st, body) == \A i \in DOMAIN body : st[body[i]].type # "Break"

-----------------------------------------------------------------------------
(* BuildTree                                                               *)

\* Block b ends with two gotos.
TwoWay(g, b) == g[b].end_class = "Branch" /\ g[b].cond \notin {"True", "False"}

\* The gotos and the Return that end block b, in order.  Label l of the graph
\* is statement at[l].
Terminators(g, b, at) ==
    LET Goto(cond, t) == [type |-> "Goto", up |-> Root, cond |-> cond, label |-> at[t]]
    IN  CASE g[b].end_class = "Exit" -> <<[type |-> "Return", up |-> Root]>>
          [] TwoWay(g, b) -> <<Goto(Guest, g[b].branch_true), Goto(True, g[b].branch_false)>>
          [] g[b].end_class = "Branch" /\ g[b].cond = "True" ->
                <<Goto(True, g[b].branch_true)>>
          [] g[b].end_class = "Branch" /\ g[b].cond = "False" ->
                <<Goto(True, g[b].branch_false)>>

ResetVariable(b) == [type |-> "SetVariable", up |-> Root, id |-> b - 1, op |-> False]

\* What BuildTree inserts for block b: its label, the reset of its variable, the
\* code, the end.
BlockStmts(g, b, at) ==
    <<[type |-> "Label", up |-> Root, id |-> b - 1], ResetVariable(b),
      [type |-> "Code", up |-> Root, block |-> b]>> \o Terminators(g, b, at)

\* The statements are numbered in the order they are listed in: the root, the
\* resets before the first block, then those of block b from its label
\* LabelStmts(g)[b] on.
LabelStmts(g) ==
    [b \in 1 .. Len(g) + 1 |->
        Root + Len(g) + 1 + 4 * (b - 1) + Cardinality({c \in 1 .. b - 1 : TwoWay(g, c)})]

\* The pool of all these statements, those after the first "skipped" in the root's
\* list.  push_front puts the reset of a later block before that of an earlier one.
FlatTree(g, skipped) ==
    LET at == LabelStmts(g)
        size == at[Len(g) + 1] - 1
        BlockOf(s) == CHOOSE b \in 1 .. Len(g) : s \in at[b] .. at[b + 1] - 1
    IN  [s \in 1 .. size |->
            CASE s = Root -> [type |-> "Function", up |-> 0,
                              children |-> [i \in 1 .. size - skipped |-> i + skipped]]
              [] s # Root /\ s < at[1] -> ResetVariable(at[1] - s)
              [] OTHER -> LET b == BlockOf(s) IN BlockStmts(g, b, at)[s - at[b] + 1]]

\* Mutant: no variable is reset at the front of the root.
BuildTreeNoReset(g) == FlatTree(g, Root + Len(g))

BuildTree(g) == FlatTree(g, Root)

\* In ascending order: the k-th one has k - 1 below it.
Ascending(set) ==
    [k \in 1 .. Cardinality(set) |->
        CHOOSE a \in set : Cardinality({b \in set : b < a}) = k - 1]

\* The gotos in the order BuildTree pushes them.
BuildGotos(st) == Ascending({s \in DOMAIN st : st[s].type = "Goto"})

Init ==
    /\ cfg \in Cfgs
    /\ stmt = BuildTree(cfg)
    /\ gotos = BuildGotos(stmt)
    /\ goto_stmt = 0
    /\ goto_level = 0
    /\ label_level = 0
    /\ step = "next"

-----------------------------------------------------------------------------
(* The transformations: the statement pool after each, the goto being g.   *)

\* The If that skips what is between goto g and its label.
SkipIf(st, g) == [type |-> "If", up |-> st[g].up, cond |-> Not(st[g].cond),
                  children |-> Tail(Span(st, g, st[g].label))]

\* Mutants: the If goes to the end of the list; its children keep their parent.
ConditionalAtEnd(st, g) ==
    LET s1 == Create(st, SkipIf(st, g))
    IN  SetChildren(UpdateTreeUp(s1, Len(s1)), st[g].up,
                    Before(st, g) \o From(st, st[g].label) \o <<Len(s1)>>)
ConditionalOldParent(st, g) ==
    LET s1 == Create(st, SkipIf(st, g))
    IN  SetChildren(s1, st[g].up, Before(st, g) \o <<Len(s1)>> \o From(st, st[g].label))

EliminateAsConditional(st, g) ==
    LET s1 == Create(st, SkipIf(st, g))
        if == Len(s1)
    IN  SetChildren(UpdateTreeUp(s1, if), st[g].up,
                    Before(st, g) \o <<if>> \o From(st, st[g].label))

EliminateAsLoop(st, g) ==
    LET l == st[g].label
        p == st[g].up
        s1 == Create(st, [type |-> "Loop", up |-> p, cond |-> st[g].cond,
                          children |-> Span(st, l, g)])
        loop == Len(s1)
    IN  SetChildren(UpdateTreeUp(s1, loop), p, Before(st, l) \o <<loop>> \o After(st, g))

\* pop_front on an empty boost::intrusive::list unlinks its header node from
\* itself and so changes nothing.
PopFront(body) == IF body = <<>> THEN body ELSE Tail(body)

\* goto_L<label> := the condition of goto g, as a statement below up.
SetVariable(st, g, up) ==
    [type |-> "SetVariable", up |-> up, id |-> st[st[g].label].id, op |-> st[g].cond]

\* Mutant: the new goto is given the old one for a label.
NewGotoToGoto(st, g, up) ==
    [type |-> "Goto", up |-> up, cond |-> Variable(st[st[g].label].id), label |-> g]

\* The goto that replaces g below up, on the variable of its label.
NewGoto(st, g, up) ==
    [type |-> "Goto", up |-> up, cond |-> Variable(st[st[g].label].id),
     label |-> st[g].label]

\* Insert a goto in place of g after its parent, the last statement created.
GotoAfterParent(s, st, g) ==
    LET p == st[g].up
        s1 == Create(s, NewGoto(st, g, st[p].up))
    IN  SetChildren(s1, st[p].up, Before(st, p) \o <<p, Len(s1)>> \o After(st, p))

MoveOutwardIf(st, g) ==
    LET p == st[g].up
        s1 == Create(st, SetVariable(st, g, p))
        set == Len(s1)
        s2 == Create(s1, [type |-> "If", up |-> p,
                          cond |-> Not(Variable(st[st[g].label].id)),
                          children |-> PopFront(After(st, g))])
        if == Len(s2)
        s3 == SetChildren(UpdateTreeUp(s2, if), p, Before(st, g) \o <<set, if>>)
    IN  GotoAfterParent(s3, st, g)

MoveOutwardLoop(st, g) ==
    LET p == st[g].up
        s1 == Create(st, SetVariable(st, g, p))
        set == Len(s1)
        s2 == Create(s1, [type |-> "Break", up |-> p,
                          cond |-> Variable(st[st[g].label].id)])
        break == Len(s2)
        s3 == SetChildren(s2, p, Before(st, g) \o <<set, break>> \o After(st, g))
    IN  GotoAfterParent(s3, st, g)

\* Mutant: the condition of the nested If stays as it is.
EnterNestedIfHeld(st, nested, variable) == st

\* The nested statement of the label is entered too when the goto is taken.
EnterNested(st, nested, variable) ==
    [x \in DOMAIN st |-> IF x = nested /\ st[x].type = "If"
                         THEN [st[x] EXCEPT !.cond = Or(variable, @)] ELSE st[x]]

\* The new goto, first in the nested statement, is the last created.
MoveInward(st, g) ==
    LET p == st[g].up
        nested == SiblingFromNephew(st, g, st[g].label)
        skipped == Tail(Span(st, g, nested))
        variable == Variable(st[st[g].label].id)
        s1 == Create(st, SetVariable(st, g, p))
        set == Len(s1)
        s2 == Create(s1, [type |-> "If", up |-> p, cond |-> Not(variable),
                          children |-> skipped])
        if == Len(s2)
        s3 == IF skipped = <<>>
              THEN SetChildren(s1, p, Before(st, g) \o <<set>> \o From(st, nested))
              ELSE SetChildren(UpdateTreeUp(s2, if), p,
                               Before(st, g) \o <<set, if>> \o From(st, nested))
        s4 == Create(EnterNested(s3, nested, variable), NewGoto(st, g, nested))
    IN  SetChildren(s4, nested, <<Len(s4)>> \o st[nested].children)

\* The new goto, first in the loop, is the last but one created.
Lift(st, g) ==
    LET p == st[g].up
        nested == SiblingFromNephew(st, g, st[g].label)
        body == Span(st, nested, g)
        s1 == Create(st, [type |-> "Loop", up |-> p,
                          cond |-> Variable(st[st[g].label].id), children |-> body])
        loop == Len(s1)
        s2 == Create(UpdateTreeUp(s1, loop), NewGoto(st, g, loop))
        s3 == Create(s2, SetVariable(st, g, loop))
        s4 == SetChildren(s3, loop, <<Len(s2)>> \o body \o <<Len(s3)>>)
    IN  SetChildren(s4, p, Before(st, nested) \o <<loop>> \o After(st, g))

-----------------------------------------------------------------------------
(* RemoveGoto.  An exception ends the pass: step names it.                 *)

label_stmt == stmt[goto_stmt].label

\* Mutant: the gotos are removed first to last.
NextGotoInOrder ==
    /\ step = "next"
    /\ gotos # <<>>
    /\ goto_stmt' = Head(gotos)
    /\ gotos' = Tail(gotos)
    /\ step' = IF IsIndirectlyRelated(stmt, goto_stmt', stmt[goto_stmt'].label)
               THEN "relate" ELSE "level"
    /\ UNCHANGED <<cfg, stmt, goto_level, label_level>>

NextGoto ==
    /\ step = "next"
    /\ gotos # <<>>
    /\ goto_stmt' = Last(gotos)
    /\ gotos' = Front(gotos)
    /\ step' = IF IsIndirectlyRelated(stmt, goto_stmt', stmt[goto_stmt'].label)
               THEN "relate" ELSE "level"
    /\ UNCHANGED <<cfg, stmt, goto_level, label_level>>

\* MoveOutward: the new goto is the last statement created.
MoveOutward ==
    LET parent == stmt[stmt[goto_stmt].up]
    IN  /\ stmt' = CASE parent.type = "If" -> MoveOutwardIf(stmt, goto_stmt)
                      [] parent.type = "Loop" -> MoveOutwardLoop(stmt, goto_stmt)
                      [] OTHER -> stmt
        /\ IF parent.type \in {"If", "Loop"}
           THEN goto_stmt' = Len(stmt') /\ step' = step
           ELSE goto_stmt' = goto_stmt /\ step' = "LogicError"

\* First loop: outward until goto and label are directly related.
OutwardToRelate ==
    /\ step = "relate"
    /\ ~IsDirectlyRelated(stmt, goto_stmt, label_stmt)
    /\ MoveOutward
    /\ UNCHANGED <<cfg, gotos, goto_level, label_level>>

Related ==
    /\ step = "relate"
    /\ IsDirectlyRelated(stmt, goto_stmt, label_stmt)
    /\ step' = "level"
    /\ UNCHANGED <<cfg, stmt, gotos, goto_stmt, goto_level, label_level>>

\* Count the levels, once, and choose the direction.
CountLevels ==
    /\ step = "level"
    /\ goto_level' = Level(stmt, goto_stmt)
    /\ label_level' = Level(stmt, label_stmt)
    /\ step' = IF goto_level' > label_level' THEN "outward"
               ELSE IF NeedsLift(stmt, goto_stmt, label_stmt) THEN "lift" ELSE "inward"
    /\ UNCHANGED <<cfg, stmt, gotos, goto_stmt>>

\* Mutant: the level is not counted down.
OutwardToLevelUncounted ==
    /\ step = "outward"
    /\ goto_level > label_level
    /\ MoveOutward
    /\ UNCHANGED <<cfg, gotos, goto_level, label_level>>

\* Mutant: one move too many.
OutwardToLevelTooFar ==
    /\ step = "outward"
    /\ goto_level >= label_level
    /\ MoveOutward
    /\ goto_level' = goto_level - 1
    /\ UNCHANGED <<cfg, gotos, label_level>>

OutwardToLevel ==
    /\ step = "outward"
    /\ goto_level > label_level
    /\ MoveOutward
    /\ goto_level' = goto_level - 1
    /\ UNCHANGED <<cfg, gotos, label_level>>

\* SanitizeNoBreaks throws before anything is moved but the spliced body.
GotoLifting ==
    /\ step = "lift"
    /\ IF NoBreaks(stmt, Span(stmt, SiblingFromNephew(stmt, goto_stmt, label_stmt), goto_stmt))
       THEN /\ stmt' = Lift(stmt, goto_stmt)
            /\ goto_stmt' = Len(stmt') - 1
            /\ step' = "inward"
       ELSE /\ step' = "NotImplemented"
            /\ UNCHANGED <<stmt, goto_stmt>>
    /\ UNCHANGED <<cfg, gotos, goto_level, label_level>>

InwardToLevel ==
    /\ step = "inward"
    /\ goto_level < label_level
    /\ IF HasChildren(stmt, SiblingFromNephew(stmt, goto_stmt, label_stmt))
       THEN /\ stmt' = MoveInward(stmt, goto_stmt)
            /\ goto_stmt' = Len(stmt')
            /\ step' = step
       ELSE /\ step' = "LogicError"
            /\ UNCHANGED <<stmt, goto_stmt>>
    /\ goto_level' = goto_level + 1
    /\ UNCHANGED <<cfg, gotos, label_level>>

\* The loop of moves has ended: goto and label should be siblings.
AtLabelLevel ==
    \/ step = "outward" /\ goto_level <= label_level
    \/ step = "inward" /\ goto_level >= label_level

NextToLabel ==
    /\ After(stmt, goto_stmt) # <<>>
    /\ Head(After(stmt, goto_stmt)) = label_stmt

\* Mutant: the goto stays in front of its label.
EraseGotoNot ==
    /\ AreSiblings(stmt, goto_stmt, label_stmt)
    /\ NextToLabel
    /\ stmt' = stmt
    /\ step' = "next"

EraseGoto ==
    /\ AreSiblings(stmt, goto_stmt, label_stmt)
    /\ NextToLabel
    /\ stmt' = SetChildren(stmt, stmt[goto_stmt].up,
                           Before(stmt, goto_stmt) \o After(stmt, goto_stmt))
    /\ step' = "next"

EliminateForward ==
    /\ AreSiblings(stmt, goto_stmt, label_stmt)
    /\ ~NextToLabel
    /\ AreOrdered(stmt, goto_stmt, label_stmt)
    /\ stmt' = EliminateAsConditional(stmt, goto_stmt)
    /\ step' = "next"

\* The two ways that are left: a loop for a backward goto, or no sibling.
EliminateBackward ==
    /\ ~NextToLabel
    /\ AreSiblings(stmt, goto_stmt, label_stmt) => ~AreOrdered(stmt, goto_stmt, label_stmt)
    /\ IF AreSiblings(stmt, goto_stmt, label_stmt)
       THEN stmt' = EliminateAsLoop(stmt, goto_stmt) /\ step' = "next"
       ELSE step' = "LogicError" /\ UNCHANGED stmt

Eliminate ==
    /\ AtLabelLevel
    /\ EraseGoto \/ EliminateForward \/ EliminateBackward
    /\ goto_stmt' = 0
    /\ UNCHANGED <<cfg, gotos, goto_level, label_level>>

Finish ==
    /\ step = "next"
    /\ gotos = <<>>
    /\ step' = "done"
    /\ UNCHANGED <<cfg, stmt, gotos, goto_stmt, goto_level, label_level>>

\* The constructor has returned or thrown.
Terminated ==
    /\ step \in {"done", "LogicError", "NotImplemented"}
    /\ UNCHANGED vars

Next ==
    \/ NextGoto
    \/ OutwardToRelate
    \/ Related
    \/ CountLevels
    \/ OutwardToLevel
    \/ GotoLifting
    \/ InwardToLevel
    \/ Eliminate
    \/ Finish
    \/ Terminated

Spec == Init /\ [][Next]_vars

-----------------------------------------------------------------------------
Types == {"Function", "Label", "Code", "Goto", "If", "Loop", "Break", "Return",
          "SetVariable"}
Steps == {"next", "relate", "level", "outward", "lift", "inward", "done",
          "LogicError", "NotImplemented"}

\* Statements refer to statements of the pool and gotos to labels; the level
\* counters, which RemoveGoto updates apart from the moves, stay natural numbers.
TypeOK ==
    /\ \A b \in DOMAIN cfg : {cfg[b].branch_true, cfg[b].branch_false} \subseteq 0 .. Len(cfg)
    /\ \A s \in DOMAIN stmt :
          /\ stmt[s].type \in Types
          /\ stmt[s].up \in 0 .. Len(stmt)
          /\ \A i \in DOMAIN Children(stmt, s) : Children(stmt, s)[i] \in DOMAIN stmt
          /\ stmt[s].type = "Goto" => stmt[stmt[s].label].type = "Label"
    /\ gotos \in Seq(DOMAIN stmt)
    /\ goto_stmt \in 0 .. Len(stmt)
    /\ goto_level \in Nat /\ label_level \in Nat
    /\ step \in Steps

\* A list of statements with every Tree replaced by its children.
Unfold(list) ==
    LET unfold[i \in 0 .. Len(list)] ==
            IF i = 0 THEN <<>>
            ELSE unfold[i - 1] \o (IF HasChildren(stmt, list[i])
                                   THEN stmt[list[i]].children ELSE <<list[i]>>)
    IN  unfold[Len(list)]

\* The statements of the program in the order of its text: the root unfolded
\* as often as the pool has Trees.
Text ==
    LET trees == Cardinality({s \in DOMAIN stmt : HasChildren(stmt, s)})
        text[n \in 0 .. trees] == IF n = 0 THEN <<Root>> ELSE Unfold(text[n - 1])
    IN  text[trees]

\* Splicing lists moves whole ranges and never the order of the program: at
\* every step the code blocks, read from top to bottom, are the blocks of the
\* CFG in address order, each once, and none is lost by a move or by a merge
\* block that TranslatePass puts between them.
CodeInOrder ==
    LET text == Text
        code == {i \in DOMAIN text : stmt[text[i]].type = "Code" /\ stmt[text[i]].block # Dummy}
    IN  /\ {stmt[text[i]].block : i \in code} = 1 .. Len(cfg)
        /\ \A i, j \in code : i < j => stmt[text[i]].block < stmt[text[j]].block

\* Every child points up to the list it is in (UpdateTreeUp is called after
\* each splice), and each list is in one place, so Level, SiblingFromNephew
\* and the moves that go through "up" reach the list the statement is in.
UpIsTheContainer ==
    \A p \in DOMAIN stmt : \A i \in DOMAIN Children(stmt, p) :
        /\ stmt[stmt[p].children[i]].up = p
        /\ \A j \in DOMAIN stmt[p].children : stmt[p].children[i] = stmt[p].children[j] => i = j

\* The iterators the pass still holds are valid: the gotos in the lists are the
\* one being moved and those waiting, and the label of each is in a list.  The text
\* of the program has the waiting ones in the order BuildTree pushed them: none
\* is behind a later one, nor behind anything a later one is in.
PendingInTree ==
    LET held == ToSet(gotos) \cup ({goto_stmt} \ {0})
        Listed(s) == Contains(stmt[stmt[s].up].children, s)
    IN  /\ {s \in DOMAIN stmt : stmt[s].type = "Goto" /\ Listed(s)} = held
        /\ \A s \in held : Listed(stmt[s].label)
        /\ \A i, j \in DOMAIN gotos : i < j =>
              \A x \in Chain(stmt, gotos[j]) \ {Root}, e \in Chain(stmt, gotos[i]) :
                 ~Contains(After(stmt, x), e)

\* After every move the tree is one that the next move can start from.
TreeIsConsistent == TypeOK /\ UpIsTheContainer /\ PendingInTree

\* A goto waiting for its turn is never inside an If, because the last goto is
\* removed first and an If only takes statements that follow a goto.  So
\* MoveOutwardIf, whose pop_front loses a statement, is never reached.
WaitingOutsideIfs ==
    \A i \in DOMAIN gotos : \A x \in Chain(stmt, gotos[i]) : stmt[x].type # "If"

\* RemoveGoto throws none of its LogicErrors, and SanitizeNoBreaks never meets
\* a Break in the body of a lifted loop, whatever the CFG.
NeverThrows == step \notin {"LogicError", "NotImplemented"}

\* What TranslatePass needs of the tree: no Goto is left (Visit throws on one)
\* and every Break is inside a Loop (Visit dereferences its break_block).
Structured ==
    step = "done" =>
        \A p \in DOMAIN stmt : \A i \in DOMAIN Children(stmt, p) :
            LET s == stmt[p].children[i]
            IN  /\ stmt[s].type # "Goto"
                /\ stmt[s].type = "Break" =>
                      \E t \in Chain(stmt, s) : stmt[t].type = "Loop"

\* How far the pass is from its end: gotos waiting, stage of RemoveGoto, moves
\* left in that stage.
Stage ==
    CASE step = "relate" -> 5
      [] step = "level" -> 4
      [] step = "lift" -> 3
      [] step \in {"outward", "inward"} -> 2
      [] step = "next" -> 1
      [] OTHER -> 0
MovesLeft ==
    CASE step = "relate" -> Level(stmt, goto_stmt)
      [] step = "outward" -> goto_level - label_level
      [] step = "inward" -> label_level - goto_level
      [] OTHER -> 0

\* The pass ends: every turn of RemoveGoto's loops brings it nearer to its end
\* in the order of Left, and the moves left never go below 0.  A lifted goto has
\* gone one level down without goto_level saying so, and so has its label: the
\* inward loop still makes the right number of moves.
Left == <<Len(gotos), Stage, MovesLeft>>
Closer ==
    /\ MovesLeft' >= 0
    /\ \/ Left'[1] < Left[1]
       \/ Left'[1] = Left[1] /\ Left'[2] < Left[2]
       \/ Left'[1] = Left[1] /\ Left'[2] = Left[2] /\ Left'[3] < Left[3]
ComesToAnEnd == [][step = "done" \/ Closer]_vars
=============================================================================
