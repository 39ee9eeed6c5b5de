-------------------------- MODULE MCLocalPlanner ----------------------------
(***************************************************************************)
(* Two goals, three routes of up to two and a half control steps, a        *)
(* horizon of two samples.  A route can arrive before its goal, replace    *)
(* the one being tracked or come while the robot is braked, and the force  *)
(* can change the margins at any time.                                     *)
(***************************************************************************)
EXTENDS LocalPlanner

ASSUME HorizonAssumption == HorizonSteps >= 2
=============================================================================
