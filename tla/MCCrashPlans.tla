---------------------------- MODULE MCCrashPlans ----------------------------
(***************************************************************************)
(* Instances of CrashPlans for TLC: every trace of at most MaxTrace events *)
(* over two cache lines.                                                   *)
(***************************************************************************)
EXTENDS CrashPlans

TwoLines == {1, 2}
=============================================================================
