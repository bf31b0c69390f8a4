----------------------------- MODULE SsaExecution -----------------------------
(***************************************************************************)
(* The program SsaRewrite leaves, run next to the program it was given.    *)
(* One step executes a block.  Before, Get reads and Set writes a          *)
(* variable; after, a value is what its instruction last computed, and a   *)
(* phi what its operand for the block just left was.  A Def stands for any *)
(* instruction with a result of its own, a Ref for any that uses one.      *)
(***************************************************************************)
EXTENDS SsaRewrite

VARIABLE
    run     \* [from, block: where control is; regs: the variables before the
            \*  rewriting; env: the results after it; agree: whether every use
            \*  saw the same value], or "idle"

Undefined == 2      \* what a variable holds before it is written
Never == 3          \* the result of an instruction that was not executed

SuccsOf(b) == {c \in DOMAIN instructions : Contains(Preds(c), b)}

\* The value of v when the results are env.
ValueIn(v, env) == IF IsInst(v) THEN env[v[2]] ELSE v[2]

\* The original code of block b on the variables in regs, the Defs giving d:
\* the variables after it and the results of its instructions.
Original(b, regs, d) ==
    LET code == program.instructions[b]
        Do(s, i) ==
            LET in == program.inst[i]
            IN  CASE in.op = "Def" -> [s EXCEPT !.env[i] = d[i]]
                  [] in.op = "Get" -> [s EXCEPT !.env[i] = s.regs[in.var]]
                  [] in.op = "Set" -> [s EXCEPT !.regs[in.var] = ValueIn(in.args[1], s.env)]
                  [] OTHER -> s
    IN  FoldLeft(Do, [regs |-> regs, env |-> [i \in DOMAIN program.inst |-> Never]], code)

\* The results after block b is entered from block "from".
Rewritten(from, b, env, d) ==
    LET Operand(i) == inst[i].args[SelectInSeq(inst[i].preds, LAMBDA p : p = from)]
    IN  [i \in DOMAIN inst |->
            IF ~Contains(instructions[b], i) THEN env[i]
            ELSE CASE inst[i].op = "Phi" -> ValueIn(Operand(i), env)
                   [] inst[i].op = "Undef" -> Undefined
                   [] inst[i].op = "Def" -> d[i]
                   [] OTHER -> Never]

DefsOf(b) == {i \in ToSet(program.instructions[b]) : program.inst[i].op = "Def"}
UsersOf(b) == {i \in ToSet(program.instructions[b]) : program.inst[i].op \in {"Set", "Ref"}}

\* Block b is executed after block "from", the variables being regs and the
\* results env.
Execute(from, b, regs, env) ==
    \E d \in [DefsOf(b) -> {0, 1}] :
        LET before == Original(b, regs, d)
            after == Rewritten(from, b, env, d)
        IN  run' = [block |-> b, regs |-> before.regs, env |-> after,
                    agree |-> \A i \in UsersOf(b) :
                        ValueIn(program.inst[i].args[1], before.env) =
                        ValueIn(inst[i].args[1], after)]

ExecInit == Init /\ run = [block |-> 0]

Enter ==
    /\ phase = "done"
    /\ run.block = 0
    /\ Execute(0, program.order[1], [v \in Variable |-> Undefined],
               [i \in DOMAIN inst |-> Never])
    /\ UNCHANGED vars

Continue ==
    /\ run.block # 0
    /\ \E b \in SuccsOf(run.block) : Execute(run.block, b, run.regs, run.env)
    /\ UNCHANGED vars

\* The shader has ended.
Exit ==
    /\ run.block # 0
    /\ SuccsOf(run.block) = {}
    /\ UNCHANGED <<vars, run>>

ExecNext == (Rewrite /\ UNCHANGED run) \/ Enter \/ Continue \/ Exit
ExecSpec == ExecInit /\ [][ExecNext]_<<vars, run>>

\* Whatever path control takes, every use sees after the rewriting what it saw
\* before: the value the variable was last given on that very path.
SameReads == run.block # 0 => run.agree
=============================================================================
