-------------------- MODULE MCHorizonTrajectoryOperator ---------------------
(***************************************************************************)
(* Routes of up to two and a half control steps and a stall timeout of     *)
(* three ticks: a stall can span cycles, segments and resets, and a route  *)
(* can end off the step grid.                                              *)
(***************************************************************************)
EXTENDS HorizonTrajectoryOperator

\* Three targets in the longest route, the last of them a clipped step away.
ASSUME RouteAssumption == 2 * Dt < MaxDuration /\ MaxDuration < 3 * Dt
=============================================================================
