---------------------------- MODULE MCRunMetrics ----------------------------
(***************************************************************************)
(* A motion that gets harder under the force, one that is tight already,   *)
(* and one the force relieves; periods of two units of time, so that a     *)
(* cycle may come half a period late.                                      *)
(***************************************************************************)
EXTENDS RunMetrics
At(state, push) == [state |-> state, push |-> push]
MCMotions ==
  {<<At(1, 0), At(3, 1), At(2, 3), At(4, 1)>>,
   <<At(-5, 0), At(-8, -1), At(-2, 3), At(-7, 0)>>}
MCSlope == -1
=============================================================================
