---------------------------- MODULE MCTaskGroup ----------------------------
(***************************************************************************)
(* Instances of TaskGroup: a root task with one group, and one more scope  *)
(* that any task may enter.                                                *)
(***************************************************************************)
EXTENDS TaskGroup, TLC

CONSTANTS a, b, g, w

MCWaitScope == g :> w

\* The children are alike.
MCChildren == Permutations({a, b})
=============================================================================
