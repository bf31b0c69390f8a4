-------------------------- MODULE StructuredExecution --------------------------
(***************************************************************************)
(* The structured program the goto pass leaves, run next to the control    *)
(* flow graph it came from.  Trees mean what TranslatePass::Visit makes of *)
(* them: an If runs its children when its condition holds, a Loop runs     *)
(* them and then tests its condition, a Break leaves the innermost Loop.   *)
(*                                                                         *)
(* The shader's own conditions (SCC, VCC, EXEC) are computed by the code   *)
(* of the blocks: every executed block leaves a new arbitrary value, which *)
(* every Identity reads until the next block runs.                         *)
(***************************************************************************)
EXTENDS GotoPass

CONSTANT Fuel       \* silent steps after which a run counts as divergent

VARIABLES
    run,        \* what the structured program does next, or "idle"
    due         \* what the control flow graph says it must do

execVars == <<run, due>>

Ids == 0 .. Len(cfg) - 1

RECURSIVE Eval(_, _, _)
Eval(e, var, guest) ==
    CASE e[1] = "True" -> TRUE
      [] e[1] = "False" -> FALSE
      [] e[1] = "Guest" -> guest
      [] e[1] = "Variable" -> var[e[2]]
      [] e[1] = "Not" -> ~Eval(e[2], var, guest)
      [] e[1] = "Or" -> Eval(e[2], var, guest) \/ Eval(e[3], var, guest)

\* The innermost Loop around the children of c, 0 if there is none.
RECURSIVE LoopAround(_)
LoopAround(c) ==
    IF c = 0 THEN 0 ELSE IF stmt[c].type = "Loop" THEN c ELSE LoopAround(stmt[c].up)

\* A point of the program: the pos-th child of "in", with the goto variables.
Point(c, pos, var) == [in |-> c, pos |-> pos, var |-> var]
Follows(s, var) == Point(stmt[s].up, Position(stmt, s) + 1, var)

Event(what, at) == [event |-> what, at |-> at]

\* What happens at a point after the last child of its Tree.
AfterLast(at, guest) ==
    LET c == at.in
    IN  CASE stmt[c].type = "Function" -> Event("falls off", at)
          [] stmt[c].type = "Loop" /\ Eval(stmt[c].cond, at.var, guest) ->
                Event("silent", Point(c, 1, at.var))
          [] OTHER -> Event("silent", Follows(c, at.var))

\* What the child at a point does.
AtChild(at, guest) ==
    LET s == stmt[at.in].children[at.pos]
        next == [at EXCEPT !.pos = @ + 1]
        Holds == Eval(stmt[s].cond, at.var, guest)
    IN  CASE stmt[s].type = "Code" -> Event("code", at)
          [] stmt[s].type = "Return" -> Event("return", at)
          [] stmt[s].type = "Label" -> Event("silent", next)
          [] stmt[s].type = "SetVariable" ->
                Event("silent", [next EXCEPT !.var[stmt[s].id] =
                                    Eval(stmt[s].op, at.var, guest)])
          [] stmt[s].type = "Loop" -> Event("silent", Point(s, 1, at.var))
          [] stmt[s].type = "If" ->
                Event("silent", IF Holds THEN Point(s, 1, at.var) ELSE next)
          [] stmt[s].type = "Break" ->
                Event("silent", IF Holds THEN Follows(LoopAround(at.in), at.var) ELSE next)

\* The next block or return the program reaches from a point.
RECURSIVE RunFrom(_, _, _)
RunFrom(at, guest, fuel) ==
    LET now == IF at.pos > Len(stmt[at.in].children) THEN AfterLast(at, guest)
                                                    ELSE AtChild(at, guest)
    IN  IF now.event # "silent" THEN now
        ELSE IF fuel = 0 THEN Event("diverges", at)
        ELSE RunFrom(now.at, guest, fuel - 1)

\* The block the program is at.
CodeAt(at) == stmt[stmt[at.in].children[at.pos]].block

\* Where the control flow graph goes from block b when the condition is guest.
CfgNext(b, guest) ==
    CASE cfg[b].end_class = "Exit" -> <<"return">>
      [] cfg[b].end_class = "Branch" /\ cfg[b].cond = "False" -> <<"code", cfg[b].branch_false>>
      [] cfg[b].end_class = "Branch" /\ cfg[b].cond = "True" -> <<"code", cfg[b].branch_true>>
      [] OTHER -> <<"code", IF guest THEN cfg[b].branch_true ELSE cfg[b].branch_false>>

ExecInit == run = Event("idle", 0) /\ due = <<"idle">>

\* The structured program is entered, its variables holding anything.
Enter ==
    /\ step = "done"
    /\ run.event = "idle"
    /\ \E guest \in BOOLEAN, init \in [Ids -> BOOLEAN] :
          run' = RunFrom(Point(Root, 1, init), guest, Fuel)
    /\ due' = <<"code", 1>>
    /\ UNCHANGED vars

\* The block the program is at runs, and the program goes on to the next.
ExecuteBlock ==
    /\ run.event = "code"
    /\ \E guest \in BOOLEAN :
          /\ run' = RunFrom([run.at EXCEPT !.pos = @ + 1], guest, Fuel)
          /\ due' = CfgNext(CodeAt(run.at), guest)
    /\ UNCHANGED vars

Execute == Enter \/ ExecuteBlock

Observed == IF run.event = "code" THEN <<"code", CodeAt(run.at)>> ELSE <<run.event>>

\* Removing the gotos does not change what the shader does: whatever values its
\* conditions take, the structured program executes the blocks the control flow
\* graph executes, one for one, and returns when it does.
SameTrace == Observed = due
=============================================================================
