---------------------------- MODULE RouteCascade ----------------------------
(***************************************************************************)
(* HorizonTrajectoryOperator::addTrajectorySegment: what becomes of a      *)
(* planned route before it is tracked.  It is slowed until it keeps enough *)
(* relative torque margin (pretrack), and, if its margin is then still     *)
(* below m_safe, retimed (Level 1), reshaped (Level 2) or replaced by the  *)
(* caller's via-point route, itself retimed or reshaped (Level 3).         *)
(*                                                                         *)
(* A route is a geometry and the dilation of its time law relative to the  *)
(* planner's.  The certificate is an oracle: which routes clear m_safe,    *)
(* and which the relative target, is chosen when they are first asked for, *)
(* and nothing relates one dilation to another, the margin being monotonic *)
(* in none.  The searches are used through the results their contract      *)
(* allows, with dilations between the points they probe: whatever clears   *)
(* only there they may find or miss as the code does.                      *)
(*                                                                         *)
(* A call starts with reset() and a fresh copy, so it owes nothing to the  *)
(* calls before it: a behaviour is one call.                               *)
(***************************************************************************)
EXTENDS Integers

CONSTANTS
  LamMax,     \* b3.lam_max
  GridCells,  \* cells of the searches' grid over [1, lam_max]
  Cell        \* ticks in one cell

ASSUME LamMaxAssumption ==
  /\ LamMax \in Nat \ {0, 1}
  /\ GridCells \in Nat \ {0}
  /\ Cell \in Nat \ {0}

Search == INSTANCE RetimeRange

\* A factor lambda is counted in units of 1 / Unit, so that tick t of the
\* search's range, lambda = 1 + t * (lam_max - 1) / LastTick, is a whole
\* number of them.
Unit == Search!LastTick
LambdaAt(t) == Unit + t * (LamMax - 1)

Lambdas == { LambdaAt(t) : t \in Search!Ticks }

\* A route's dilation is counted in units of 1 / Unit^2: a route is retimed
\* twice at most, and then its dilation is the product of both factors.
Dilations == { a * b : a \in Lambdas, b \in Lambdas }
Geometries == {"planned", "planned_reshaped", "via", "via_reshaped"}
Routes == [geometry : Geometries, dilation : Dilations]
Route(g, d) == [geometry |-> g, dilation |-> d]

VARIABLES
  roomy,          \* the routes whose relative margin reaches pretrack_relative_margin
  safe,           \* the routes, of those asked for, whose margin reaches m_safe
  roomy_is_safe,  \* does the first imply the second in this configuration?
  via_point_offset,  \* is a via-point candidate configured?
  pc,          \* the stage reached
  reference,   \* reference_trajectory_
  alt,         \* the via-point candidate
  level        \* what settled the route: "0", "1", "2", "3" or "exhausted"

vars == <<roomy, safe, roomy_is_safe, via_point_offset, pc, reference, alt, level>>

-----------------------------------------------------------------------------
\* retimeTrajectory: durations are multiplied by lambda, accelerations
\* divided by its square.
DurationsSquared(r, lambda) == [r EXCEPT !.dilation = (@ * lambda * lambda) \div (Unit * Unit)]
Retimed(r, lambda) == [r EXCEPT !.dilation = (@ * lambda) \div Unit]
Retimings(r) == { Retimed(r, l) : l \in Lambdas }

\* What a search on route r may return, for a set of routes that clear.
SearchGivesUpAtLamMax(r, clears) ==
  IF Retimed(r, LamMax) \in clears
  THEN { t \in Search!Ticks : Retimed(r, LambdaAt(t)) \in clears }
  ELSE { Search!NoLambda }
SearchRetimeLambda(r, clears) ==
  Search!Results({ t \in Search!Ticks : Retimed(r, LambdaAt(t)) \in clears })

\* tryReshape may fail to solve, and what it solves may still be tight: it
\* targets tau_max - delta_tau, not m_safe.
ReshapeOutcomes == {"unsolved", "tight", "clear"}

\* The re-check that a reshaped route must pass before it is installed.
AcceptedOnceSolved(outcome) == outcome # "unsolved"
ReshapeAccepted(outcome) == outcome = "clear"

Reshaped(r) ==
  [r EXCEPT !.geometry = IF @ = "planned" THEN "planned_reshaped" ELSE "via_reshaped"]

\* The route m0 is measured on: the pretracked one.
PlannedRoute == Route("planned", Unit * Unit)
MeasuredRoute == reference

\* Which retimings of route r clear m_safe; nothing was known of them before.
\* roomy_is_safe is (pretrack_relative_margin - delta_tau_fraction) * tau_max
\* >= m_safe, for every joint: a matter of the configuration.
ChooseSafe(r) ==
  \E s \in SUBSET Retimings(r) :
    /\ roomy_is_safe => roomy \cap Retimings(r) \subseteq s
    /\ safe' = safe \cup s

Settle(r, l) ==
  /\ reference' = r
  /\ level' = l
  /\ pc' = "done"

Continue(stage) ==
  /\ pc' = stage
  /\ UNCHANGED <<reference, level>>

-----------------------------------------------------------------------------
Init ==
  /\ roomy \in SUBSET Retimings(PlannedRoute)
  /\ safe = {}
  /\ roomy_is_safe \in BOOLEAN
  /\ via_point_offset \in BOOLEAN
  /\ pc = "pretrack"
  /\ reference = PlannedRoute
  /\ alt = PlannedRoute
  /\ level = "none"

PretrackNotNeeded ==
  /\ pc = "pretrack"
  /\ reference \in roomy
  /\ ChooseSafe(reference)
  /\ Continue("margin")
  /\ UNCHANGED <<roomy, roomy_is_safe, via_point_offset, alt>>

\* An exhausted pretrack proceeds with the un-slowed reference.
Pretrack ==
  /\ pc = "pretrack"
  /\ reference \notin roomy
  /\ \E t \in SearchRetimeLambda(reference, roomy) :
       reference' = IF t = Search!NoLambda THEN reference
                                           ELSE Retimed(reference, LambdaAt(t))
  /\ ChooseSafe(reference')
  /\ pc' = "margin"
  /\ UNCHANGED <<roomy, roomy_is_safe, via_point_offset, alt, level>>

Level0 ==
  /\ pc = "margin"
  /\ IF MeasuredRoute \in safe THEN Settle(reference, "0") ELSE Continue("retime")
  /\ UNCHANGED <<roomy, safe, roomy_is_safe, via_point_offset, alt>>

\* The retimed route is installed without comparing its margin m1.
Level1 ==
  /\ pc = "retime"
  /\ \E t \in SearchRetimeLambda(reference, safe) :
       IF t = Search!NoLambda THEN Continue("reshape")
                              ELSE Settle(Retimed(reference, LambdaAt(t)), "1")
  /\ UNCHANGED <<roomy, safe, roomy_is_safe, via_point_offset, alt>>

Level2 ==
  /\ pc = "reshape"
  /\ \E outcome \in ReshapeOutcomes :
       /\ safe' = IF outcome = "clear" THEN safe \cup { Reshaped(reference) } ELSE safe
       /\ IF ReshapeAccepted(outcome) THEN Settle(Reshaped(reference), "2")
                                      ELSE Continue("reroute")
  /\ UNCHANGED <<roomy, roomy_is_safe, via_point_offset, alt>>

NoCandidate ==
  /\ pc = "reroute"
  /\ ~via_point_offset
  /\ Settle(reference, "exhausted")
  /\ UNCHANGED <<roomy, safe, roomy_is_safe, via_point_offset, alt>>

\* The candidate takes as long as the reference it would replace.
BuildViaPoint ==
  /\ pc = "reroute"
  /\ via_point_offset
  /\ alt' = Route("via", reference.dilation)
  /\ ChooseSafe(alt')
  /\ Continue("sublevel0")
  /\ UNCHANGED <<roomy, roomy_is_safe, via_point_offset>>

SubLevel0 ==
  /\ pc = "sublevel0"
  /\ IF alt \in safe THEN Settle(alt, "3") ELSE Continue("sublevel1")
  /\ UNCHANGED <<roomy, safe, roomy_is_safe, via_point_offset, alt>>

SubLevel1 ==
  /\ pc = "sublevel1"
  /\ \E t \in SearchRetimeLambda(alt, safe) :
       IF t = Search!NoLambda THEN Continue("sublevel2")
                              ELSE Settle(Retimed(alt, LambdaAt(t)), "3")
  /\ UNCHANGED <<roomy, safe, roomy_is_safe, via_point_offset, alt>>

SubLevel2 ==
  /\ pc = "sublevel2"
  /\ \E outcome \in ReshapeOutcomes :
       /\ safe' = IF outcome = "clear" THEN safe \cup { Reshaped(alt) } ELSE safe
       /\ IF ReshapeAccepted(outcome) THEN Settle(Reshaped(alt), "3")
                                      ELSE Settle(reference, "exhausted")
  /\ UNCHANGED <<roomy, roomy_is_safe, via_point_offset, alt>>

Next ==
  \/ PretrackNotNeeded \/ Pretrack
  \/ Level0 \/ Level1 \/ Level2
  \/ NoCandidate \/ BuildViaPoint \/ SubLevel0 \/ SubLevel1 \/ SubLevel2

Spec == Init /\ [][Next]_vars

-----------------------------------------------------------------------------
(* The type invariant. *)
TypeOK ==
  /\ roomy \in SUBSET Routes
  /\ safe \in SUBSET Routes
  /\ roomy_is_safe \in BOOLEAN
  /\ via_point_offset \in BOOLEAN
  /\ pc \in {"pretrack", "margin", "retime", "reshape", "reroute",
             "sublevel0", "sublevel1", "sublevel2", "done"}
  /\ reference \in Routes
  /\ alt \in Routes
  /\ level \in {"none", "0", "1", "2", "3", "exhausted"}

(* None of the dilations the searches are sure to probe, the points of     *)
(* their grid, makes route r clear m_safe.  Others may: the code gives up  *)
(* after these.                                                            *)
GridLambdas == { LambdaAt(Search!GridTick(k)) : k \in 0 .. GridCells }

NoProbeClears(r) == \A l \in GridLambdas : Retimed(r, l) \notin safe

(***************************************************************************)
(* A route below m_safe is tracked only as the last resort: it is then the *)
(* planned geometry, no probed retiming of it or of a configured candidate *)
(* clears, and neither reshaped route does.  The levels that install a     *)
(* route without looking at its margin (Level 1, sub-level 1) rest on the  *)
(* search for this.                                                        *)
(***************************************************************************)
UncertifiedOnlyWhenExhausted ==
  pc = "done" /\ reference \notin safe =>
    /\ level = "exhausted"
    /\ reference.geometry = "planned"
    /\ NoProbeClears(reference)
    /\ Route("planned_reshaped", reference.dilation) \notin safe
    /\ via_point_offset =>
         /\ NoProbeClears(Route("via", reference.dilation))
         /\ Route("via_reshaped", reference.dilation) \notin safe

(***************************************************************************)
(* "Tried only if the previous one didn't fix things": the robot leaves    *)
(* the planned path only when none of the dilations that are probed makes  *)
(* it clear, and takes the via point only when reshaping the planned path  *)
(* did not either.  That no dilation in [1, lam_max] would have done, as   *)
(* the log has it (horizon_trajectory_operator.cpp:281-282), is more than  *)
(* the search finds out.                                                   *)
(***************************************************************************)
DeviationIsJustified ==
  pc = "done" /\ reference.geometry # "planned" =>
    LET d == IF reference.geometry = "planned_reshaped" THEN reference.dilation
                                                        ELSE alt.dilation IN
    /\ NoProbeClears(Route("planned", d))
    /\ reference.geometry # "planned_reshaped" =>
         Route("planned_reshaped", d) \notin safe

(***************************************************************************)
(* The two searches multiply: a route slowed by the pretrack and again by  *)
(* Level 1 would run up to lam_max^2 times slower.  It never does, provided *)
(* a roomy route is a safe one, which every shipped configuration ensures. *)
(***************************************************************************)
DilationBounded == roomy_is_safe => reference.dilation <= LamMax * Unit * Unit
=============================================================================
