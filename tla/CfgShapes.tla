------------------------------- MODULE CfgShapes -------------------------------
(***************************************************************************)
(* The control flow graphs that go from the CFG constructor to the goto    *)
(* pass: what a Block says of its end.  ControlFlowGraph shows that it     *)
(* builds nothing else, GotoPass is checked on all of them.                *)
(***************************************************************************)
EXTENDS Integers, Sequences

Exit == [end_class |-> "Exit", cond |-> "True", branch_true |-> 0, branch_false |-> 0]
Jump(t) == [end_class |-> "Branch", cond |-> "True", branch_true |-> t, branch_false |-> 0]
Cond(t, f) == [end_class |-> "Branch", cond |-> "Guest", branch_true |-> t, branch_false |-> f]

\* How the b-th of n blocks can end: a guest condition falls through to the
\* next block and so cannot end the last one.
EndsOf(n, b) ==
    {Exit} \cup {Jump(t) : t \in 1 .. n}
           \cup (IF b < n THEN {Cond(t, b + 1) : t \in 1 .. n} ELSE {})

IsCfg(g) == g # <<>> /\ \A b \in 1 .. Len(g) : g[b] \in EndsOf(Len(g), b)

\* A condition that goes to block t or falls through.
FallsThrough(t) == Cond(t, 0)
Placed(g) == [b \in DOMAIN g |-> IF g[b].cond = "Guest" THEN Cond(g[b].branch_true, b + 1)
                                                       ELSE g[b]]
EndsFor(n) == UNION {{Jump(t), FallsThrough(t)} : t \in 1 .. n}

CfgsOf(n) ==
    {Placed(g) : g \in {h \in [1 .. n -> {Exit} \cup EndsFor(n)] : h[n].cond # "Guest"}}

\* The graphs that end the program in their last block and nowhere else.
OneExitCfgsOf(n) == {Append(Placed(g), Exit) : g \in [1 .. n - 1 -> EndsFor(n)]}
=============================================================================
