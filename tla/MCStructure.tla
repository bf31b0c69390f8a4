----------------------------- MODULE MCStructure -----------------------------
(***************************************************************************)
(* The goto pass on every control flow graph of at most AnyExit blocks and *)
(* on those of OneExit blocks whose last block, and no other, is an exit.  *)
(* What it leaves is executed next to the graph it came from or, of the    *)
(* former graphs, taken by TranslatePass.                                  *)
(***************************************************************************)
EXTENDS TranslatePass, StructuredExecution, CfgShapes

CONSTANTS AnyExit, OneExit

MCCfgs == UNION {CfgsOf(n) : n \in 1 .. AnyExit} \cup OneExitCfgsOf(OneExit)

MCInit == TranslateInit /\ ExecInit
MCNext ==
    \/ Structure /\ UNCHANGED execVars
    \/ run.event = "idle" /\ Len(cfg) <= AnyExit /\ Translate /\ UNCHANGED execVars
    \/ calls = <<>> /\ ended = "no" /\ Execute /\ UNCHANGED translateVars
MCSpec == MCInit /\ [][MCNext]_<<allVars, execVars>>
=============================================================================
