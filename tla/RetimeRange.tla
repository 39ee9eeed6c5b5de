---------------------------- MODULE RetimeRange -----------------------------
(***************************************************************************)
(* What the two retime searches of fr3_b3_local_planner promise their      *)
(* caller, the route-level cascade: searchRetimeLambda (absolute margin    *)
(* against m_safe) and searchRetimeLambdaRelative (relative margin against *)
(* pretrack_relative_margin).                                              *)
(*                                                                         *)
(* Dilations lambda in [1, lam_max] are counted in ticks above 1: tick 0   *)
(* is lambda = 1 (the route as planned) and tick LastTick is lam_max.  A   *)
(* tick is feasible when the route retimed by it clears the target margin; *)
(* nothing is assumed about which ticks are, since the margin need not be  *)
(* monotonic in lambda.                                                    *)
(***************************************************************************)
EXTENDS Integers

CONSTANTS
  GridCells,  \* kGridPoints - 1: cells of the dense scan over [1, lam_max]
  Cell        \* ticks in one cell

ASSUME GridAssumption ==
  /\ GridCells \in Nat \ {0}
  /\ Cell \in Nat \ {0}

LastTick == GridCells * Cell
Ticks == 0 .. LastTick

\* grid[i] of the scan.
GridTick(i) == i * Cell

NoLambda == -1  \* std::nullopt
Pending  == -2  \* the search has not returned

(***************************************************************************)
(* The dilations a search may return for a feasible set.  The scan runs    *)
(* only when lam_max itself fails, and then the result lies in the cell    *)
(* that ends at the first feasible grid point; no feasible grid point      *)
(* means no result.                                                        *)
(***************************************************************************)
FirstFeasibleCell(feasible, k) ==
  /\ GridTick(k) \in feasible
  /\ \A j \in 0 .. k - 1 : GridTick(j) \notin feasible

Results(feasible) ==
  IF LastTick \in feasible
  THEN feasible
  ELSE IF \A k \in 0 .. GridCells : GridTick(k) \notin feasible
       THEN { NoLambda }
       ELSE { t \in feasible : \E k \in 0 .. GridCells :
                                 /\ FirstFeasibleCell(feasible, k)
                                 /\ GridTick(k - 1) < t
                                 /\ t <= GridTick(k) }
=============================================================================
