--------------------------- MODULE MCRetimeSearch ---------------------------
(***************************************************************************)
(* Every feasible set over 13 dilations: three grid cells of four ticks,   *)
(* two bisection steps, so that a step halves a whole number of ticks on   *)
(* both paths and the scan has interior points to find.                    *)
(***************************************************************************)
EXTENDS RetimeSearch

MidpointsAreTicks == Cell = 2^Iterations
ASSUME ResolutionAssumption == MidpointsAreTicks
=============================================================================
