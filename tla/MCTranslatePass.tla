---------------------------- MODULE MCTranslatePass ----------------------------
(***************************************************************************)
(* Instances of TranslatePass: every control flow graph of N blocks.       *)
(***************************************************************************)
EXTENDS TranslatePass, CfgShapes

CONSTANT N

MCCfgs == CfgsOf(N)
=============================================================================
