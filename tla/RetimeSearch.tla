---------------------------- MODULE RetimeSearch ----------------------------
(***************************************************************************)
(* searchRetimeLambda (route_retime_search.cpp), one step per certificate  *)
(* evaluation: probe lam_max, then either bisect [1, lam_max] or scan the  *)
(* grid and bisect the cell before its first feasible point.               *)
(* searchRetimeLambdaRelative has the same control with another margin, so *)
(* this module stands for both: `feasible' is the set of dilations whose   *)
(* margin, whichever it is, reaches the target.                            *)
(*                                                                         *)
(* A tick is chosen fine enough for every midpoint the code computes to be *)
(* a tick (Cell = 2^Iterations), so integer bisection is the code's own.   *)
(***************************************************************************)
EXTENDS RetimeRange

CONSTANT Iterations   \* bisection steps (20 in the code)

ASSUME IterationsAssumption == Iterations \in Nat

VARIABLES
  feasible,        \* margin_at(lambda) >= target, as a set of ticks
  pc,              \* "probe", "scan", "bisect" or "done"
  lo, hi,          \* the bracket of the bisection
  iter,            \* bisection steps taken
  i,               \* next grid point to scan
  first_feasible,  \* first feasible grid index met, -1 if none yet
  result           \* what the call returned

vars == <<feasible, pc, lo, hi, iter, i, first_feasible, result>>

\* margin_at(lambda) >= m_safe.
MarginClears(t) == t \in feasible

\* Is grid point k the first that clears?
IsHit(k) == MarginClears(GridTick(k))
IsFirstHit(k) == first_feasible < 0 /\ MarginClears(GridTick(k))

\* The loop bound of the bisection.
OneIterationLess == iter < Iterations - 1
OneIterationMore == iter <= Iterations
MoreIterations == iter < Iterations

\* The grid index whose point the refined bracket starts from:
\* std::max(first_feasible - 1, 0).
BracketStart(k) == IF k = 0 THEN 0 ELSE k - 1

\* The end of the bracket the search returns.
LowerEnd == lo
Returned == hi

-----------------------------------------------------------------------------
Init ==
  /\ feasible \in SUBSET Ticks
  /\ pc = "probe"
  /\ lo = 0 /\ hi = 0
  /\ iter = 0
  /\ i = 0
  /\ first_feasible = -1
  /\ result = Pending

\* The fast path's bracket is the whole interval.
ProbeLamMaxClears ==
  /\ pc = "probe"
  /\ MarginClears(LastTick)
  /\ lo' = 0 /\ hi' = LastTick
  /\ pc' = "bisect"
  /\ UNCHANGED <<feasible, iter, i, first_feasible, result>>

ProbeLamMaxFails ==
  /\ pc = "probe"
  /\ ~MarginClears(LastTick)
  /\ pc' = "scan"
  /\ UNCHANGED <<feasible, lo, hi, iter, i, first_feasible, result>>

\* One turn of the dense scan; the scan does not stop at the first hit.
ScanGridPoint ==
  /\ pc = "scan"
  /\ i <= GridCells
  /\ first_feasible' = IF IsFirstHit(i) THEN i ELSE first_feasible
  /\ i' = i + 1
  /\ UNCHANGED <<feasible, pc, lo, hi, iter, result>>

ScanExhausted ==
  /\ pc = "scan"
  /\ i > GridCells
  /\ first_feasible < 0
  /\ result' = NoLambda
  /\ pc' = "done"
  /\ UNCHANGED <<feasible, lo, hi, iter, i, first_feasible>>

ScanBracket ==
  /\ pc = "scan"
  /\ i > GridCells
  /\ first_feasible >= 0
  /\ lo' = GridTick(BracketStart(first_feasible))
  /\ hi' = GridTick(first_feasible)
  /\ pc' = "bisect"
  /\ UNCHANGED <<feasible, iter, i, first_feasible, result>>

Bisect ==
  LET mid == (lo + hi) \div 2 IN
  /\ pc = "bisect"
  /\ MoreIterations
  /\ IF MarginClears(mid)
     THEN hi' = mid /\ lo' = lo
     ELSE lo' = mid /\ hi' = hi
  /\ iter' = iter + 1
  /\ UNCHANGED <<feasible, pc, i, first_feasible, result>>

ReturnHi ==
  /\ pc = "bisect"
  /\ ~MoreIterations
  /\ result' = Returned
  /\ pc' = "done"
  /\ UNCHANGED <<feasible, lo, hi, iter, i, first_feasible>>

Next ==
  \/ ProbeLamMaxClears \/ ProbeLamMaxFails
  \/ ScanGridPoint \/ ScanExhausted \/ ScanBracket
  \/ Bisect \/ ReturnHi

Spec == Init /\ [][Next]_vars

-----------------------------------------------------------------------------
(* The type invariant. *)
TypeOK ==
  /\ feasible \in SUBSET Ticks
  /\ pc \in {"probe", "scan", "bisect", "done"}
  /\ lo \in Ticks /\ hi \in Ticks
  /\ iter \in 0 .. Iterations
  /\ i \in 0 .. GridCells + 1
  /\ first_feasible \in -1 .. GridCells
  /\ result \in Ticks \cup {NoLambda, Pending}

(***************************************************************************)
(* The bracket: from the moment there is one, its upper end clears the     *)
(* target and its lower end does not, unless it is still the untested      *)
(* lambda = 1.  Level 1 installs the route retimed by the result without   *)
(* comparing its margin m1 with m_safe, so this is all that makes it safe. *)
(***************************************************************************)
Bracket ==
  /\ pc = "bisect" =>
       /\ hi \in feasible
       /\ lo <= hi
       /\ lo = 0 \/ lo \notin feasible
  /\ result \in Ticks => result \in feasible

(***************************************************************************)
(* The scan looks at every grid point before it gives up: first_feasible   *)
(* is the least feasible index met so far.                                 *)
(***************************************************************************)
ScanIsLeast ==
  pc = "scan" =>
    /\ LastTick \notin feasible
    /\ IF first_feasible < 0
       THEN \A k \in 0 .. i - 1 : GridTick(k) \notin feasible
       ELSE first_feasible < i /\ FirstFeasibleCell(feasible, first_feasible)

(***************************************************************************)
(* "The smallest lambda in [1, lam_max]" (route_retime_search.hpp:25-29),  *)
(* under the condition the comment there adds: when every dilation above a *)
(* feasible one is feasible, no feasible dilation lies more than one final *)
(* bracket below the result.                                               *)
(***************************************************************************)
Monotonic == \A t \in feasible : \A u \in t .. LastTick : u \in feasible

SmallestIfMonotonic ==
  Monotonic /\ result \in Ticks =>
    \A t \in feasible : result <= t + LastTick \div 2^Iterations

(* The search implements its contract. *)
Contract == INSTANCE RetimeContract
RefinesContract == Contract!Spec
=============================================================================
