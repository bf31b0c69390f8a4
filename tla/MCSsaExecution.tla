---------------------------- MODULE MCSsaExecution ----------------------------
(***************************************************************************)
(* Instances of SsaExecution: graphs of the kinds TranslatePass makes,     *)
(* filled with short runs of reads and writes of two variables.  A graph   *)
(* is the successor set of each block; blocks are numbered in an order     *)
(* PostOrder gives, read backwards.                                        *)
(***************************************************************************)
EXTENDS SsaExecution

\* Without loops: every graph of four blocks, some of which may be unreachable
\* (the code after a Return), with a return among them.
Reached(g) ==
    LET After(r) == r \cup UNION {g[a] : a \in r}
        reached[n \in 0 .. Len(g)] == IF n = 0 THEN {1} ELSE After(reached[n - 1])
    IN  reached[Len(g)]

LoopFree ==
    {g \in [1 .. 4 -> {s \in SUBSET (2 .. 4) : Cardinality(s) <= 2}] :
        \A b \in 1 .. 4 : IF b \in Reached(g) THEN \A c \in g[b] : b < c
                          ELSE g[b] # {} /\ g[b] \subseteq Reached(g)}

\* A Loop is an empty header, a body, a continue block that goes back and a
\* merge block: around plain code, an If, a Break, a Return, another Loop.
Plain == <<{2}, {3}, {4}, {2, 5}, {}>>
AroundIf == <<{2}, {3}, {4, 5}, {5}, {6}, {2, 7}, {}>>
AroundBreak == <<{2}, {3}, {4, 6}, {5}, {2, 6}, {}>>
AroundReturn == <<{2}, {3}, {4, 5}, {}, {6}, {2, 7}, {}, {5}>>
AroundLoop == <<{2}, {3}, {4}, {5}, {6}, {4, 7}, {8}, {2, 9}, {}>>
WithLoops == {Plain, AroundIf, AroundBreak, AroundReturn, AroundLoop}

\* Instructions of a block; an argument is a value or the place of an
\* instruction in the block.
Get(v) == [op |-> "Get", var |-> v, arg |-> Empty]
Set(v, arg) == [op |-> "Set", var |-> v, arg |-> arg]
Ref(arg) == [op |-> "Ref", var |-> 0, arg |-> arg]
Def == [op |-> "Def", var |-> 0, arg |-> Empty]
At(k) == <<"At", k>>

WriteResult == <<Def, Set(1, At(1))>>
WriteImmediate == <<Set(1, Imm(1))>>
Swap == <<Get(1), Get(2), Set(1, At(2)), Set(2, At(1))>>
Test == <<Get(1), Ref(At(1))>>
TestBoth == <<Get(1), Get(2), Ref(At(1)), Ref(At(2))>>

\* What a block holds: headers nothing, continue blocks no write, exits a test.
CodesOf(g, b) ==
    CASE b = 1 -> {WriteResult}
      [] b # 1 /\ g[b] = {} -> {TestBoth}
      [] b # 1 /\ \E c \in g[b] : c <= b /\ b \in Reached(g) -> {<<>>, Test}
      [] b # 1 /\ \E a \in Reached(g) : a >= b /\ b \in g[a] -> {<<>>}
      [] b # 1 /\ b \notin Reached(g) -> {<<>>, Swap}
      [] OTHER -> {<<>>, WriteResult, WriteImmediate, Swap}

Codes(g) ==
    LET upTo[b \in 0 .. Len(g)] ==
            IF b = 0 THEN {<<>>}
            ELSE {Append(c, code) : c \in upTo[b - 1], code \in CodesOf(g, b)}
    IN  upTo[Len(g)]

InOrder(blocks, n) == SelectSeq([b \in 1 .. n |-> b], LAMBDA b : b \in blocks)

\* The program of graph g with code c, its instructions numbered block by block.
Assemble(g, order, c) ==
    LET base[b \in 0 .. Len(g)] == IF b = 0 THEN 0 ELSE base[b - 1] + Len(c[b])
        blockOf(i) == CHOOSE b \in 1 .. Len(g) : base[b - 1] < i /\ i <= base[b]
        made(i) == LET b == blockOf(i) IN c[b][i - base[b - 1]]
        argsOf(i) == LET arg == made(i).arg
                     IN  CASE arg = Empty -> <<>>
                           [] arg[1] = "At" -> <<InstValue(base[blockOf(i) - 1] + arg[2])>>
                           [] arg[1] = "Imm" -> <<arg>>
        pool == 1 .. base[Len(g)]
    IN  [order |-> order,
         list |-> [b \in 1 .. Len(g) |-> b],
         preds |-> [b \in 1 .. Len(g) |-> InOrder({a \in DOMAIN g : b \in g[a]}, Len(g))],
         instructions |-> [b \in 1 .. Len(g) |-> [k \in 1 .. Len(c[b]) |-> base[b - 1] + k]],
         inst |-> [i \in pool |->
            [op |-> made(i).op, var |-> made(i).var, args |-> argsOf(i), preds |-> <<>>,
             use_count |-> Cardinality({j \in pool : argsOf(j) = <<InstValue(i)>>})]]]

MCOpcode == {"Get", "Set", "Def", "Ref"}
MCImmediate == {Imm(1)}
MCPrograms ==
    UNION {LET order == InOrder(Reached(g), Len(g)) IN {Assemble(g, order, c) : c \in Codes(g)} :
           g \in LoopFree \cup WithLoops}
=============================================================================
