----------------------------- MODULE ForceWarning -----------------------------
(***************************************************************************)
(* An external force ramps up while the arm follows its route.  Who        *)
(* notices when?  The simulator applies the force, B2 checks the waypoint  *)
(* commanded now under the force of now, B3 certifies every waypoint of    *)
(* its horizon under the force at the time the waypoint is due.  Each      *)
(* counts from the moment the start message reached it.  B2 and B3 are     *)
(* alternatives: they are compared on the same motion and delivery.        *)
(*                                                                         *)
(* The motion is the nominal one, as in the offline analysis of the        *)
(* experiment: the first detections and the first overload are recorded    *)
(* and nothing reacts.  Time is in control periods, torque in integers;    *)
(* one joint stands for the arm, since every check is joint by joint.      *)
(***************************************************************************)
EXTENDS ForceSchedule

CONSTANTS
  HorizonSteps,    \* b3.horizon_steps
  TauMax, DeltaTau, MSafe,
  Loads,           \* torques a waypoint may need without the force
  LastWaypoint,    \* the route has waypoints 0 .. LastWaypoint
  MaxSkew,         \* bound: periods between the two deliveries of the start message
  MaxTime          \* bound: periods

ASSUME HorizonAssumption == HorizonSteps \in Nat \ {0}
ASSUME LimitsAssumption ==
  TauMax \in Nat /\ DeltaTau \in Nat /\ MSafe \in Nat /\ Loads \subseteq Int
ASSUME BoundsAssumption ==
  LastWaypoint \in Nat /\ MaxSkew \in Nat \ {0} /\ MaxTime \in Nat

NotYet == MaxTime + 1   \* later than every time
Moments == 0 .. NotYet

VARIABLES
  now,
  sent,          \* was the start message published?
  simulator_t0,  \* when the simulator began to count
  force_t0,      \* when the local planner's solver did
  begun,         \* when the motion began
  load,          \* the route: the torque each waypoint needs without the force
  b2_detects, b3_detects,  \* when each first found fault
  crossing       \* when the nominal motion first needed more than the joint has

vars == <<now, sent, simulator_t0, force_t0, begun, load, b2_detects, b3_detects, crossing>>

-----------------------------------------------------------------------------
\* What waypoint w needs of the joint under that force.
Torque(w, t) == Magnitude(load[w] - Sample(t))

Started(t0) == t0 <= now
Moving == begun <= now /\ now - begun <= LastWaypoint
Target == now - begun

\* B2 finds fault, whether or not its projection then succeeds.  Its force is
\* none until the start message has come.
B2Exceeds ==
  IF Started(force_t0) THEN Torque(Target, now - force_t0) > TauMax
  ELSE Magnitude(load[Target]) > TauMax

\* B3's clock stands at zero until then.
ForceTimeNow == IF Started(force_t0) THEN now - force_t0 ELSE 0

\* Plausible bug: every waypoint under the force of now.
DueNow(j) == ForceTimeNow + 1

\* Plausible bug: a period too many.
DueLate(j) == ForceTimeNow + j + 2

\* Horizon waypoint j is due j+1 periods from now: every waypoint of the
\* horizon, the first included, is added with a duration of one period.
Due(j) == ForceTimeNow + j + 1

\* Plausible bug: the margin takes the torque with its sign.
SignedMargin(w, t) == TauMax - (load[w] - Sample(t)) - DeltaTau

Margin(w, t) == TauMax - Torque(w, t) - DeltaTau

B3Tight ==
  \E j \in 0 .. HorizonSteps - 1 : Margin(Least(Target + j, LastWaypoint), Due(j)) < MSafe

\* The waypoint commanded now is reached when the next period begins.
Overloaded ==
  IF simulator_t0 <= now + 1 THEN Torque(Target, now + 1 - simulator_t0) > TauMax
  ELSE Magnitude(load[Target]) > TauMax

First(moment, happens) == IF moment = NotYet /\ happens THEN now ELSE moment

-----------------------------------------------------------------------------
Init ==
  /\ now = 0
  /\ sent = FALSE
  /\ simulator_t0 = NotYet /\ force_t0 = NotYet
  /\ begun = NotYet
  /\ load \in [0 .. LastWaypoint -> Loads]
  /\ b2_detects = NotYet /\ b3_detects = NotYet /\ crossing = NotYet

\* The goal was accepted.
PublishForceStart ==
  /\ ~sent
  /\ sent' = TRUE
  /\ UNCHANGED <<now, simulator_t0, force_t0, begun, load, b2_detects, b3_detects, crossing>>

SimulatorStarts ==
  /\ sent /\ simulator_t0 = NotYet
  /\ simulator_t0' = now
  /\ UNCHANGED <<now, sent, force_t0, begun, load, b2_detects, b3_detects, crossing>>

SolverStarts ==
  /\ sent /\ force_t0 = NotYet
  /\ force_t0' = now
  /\ UNCHANGED <<now, sent, simulator_t0, begun, load, b2_detects, b3_detects, crossing>>

\* The global solution reached the local planner.
BeginMotion ==
  /\ begun = NotYet
  /\ begun' = now
  /\ UNCHANGED <<now, sent, simulator_t0, force_t0, load, b2_detects, b3_detects, crossing>>

SkewKept ==
  /\ simulator_t0 # NotYet /\ force_t0 = NotYet => now - simulator_t0 < MaxSkew
  /\ force_t0 # NotYet /\ simulator_t0 = NotYet => now - force_t0 < MaxSkew

\* A period goes by; in motion, it begins with a control cycle.
Period ==
  /\ now < MaxTime
  /\ SkewKept
  /\ now' = now + 1
  /\ b2_detects' = First(b2_detects, Moving /\ B2Exceeds)
  /\ b3_detects' = First(b3_detects, Moving /\ B3Tight)
  /\ crossing' = First(crossing, Moving /\ Overloaded)
  /\ UNCHANGED <<sent, simulator_t0, force_t0, begun, load>>

Next == PublishForceStart \/ SimulatorStarts \/ SolverStarts \/ BeginMotion \/ Period

Spec == Init /\ [][Next]_vars

-----------------------------------------------------------------------------
\* Every variable holds a value of its kind, and a detection is of the past.
WarningTypeOK ==
  /\ now \in 0 .. MaxTime
  /\ sent \in BOOLEAN
  /\ {simulator_t0, force_t0, begun} \subseteq 0 .. now \cup {NotYet}
  /\ load \in [0 .. LastWaypoint -> Loads]
  /\ {b2_detects, b3_detects, crossing} \subseteq 0 .. now - 1 \cup {NotYet}

\* The margin B3 keeps covers what the force can change within the skew.
SkewCovered == MaxSkew * Magnitude(Slope) <= MSafe + DeltaTau

\* B3 is never later than B2 on the same motion, whether the force loads the
\* joint or relieves it and whenever it starts, although B3 never looks at the
\* force of now: its kept margin covers one period of the ramp.
NeverLaterThanB2 == SkewCovered => b3_detects <= b2_detects

\* When the overloaded waypoint first came into the horizon.
FirstSight == crossing - Least(HorizonSteps - 1, crossing - begun)

\* The warning: if the solver had its start message by the time the overloaded
\* waypoint came into B3's horizon, B3 found fault at that time at the latest,
\* a horizon ahead of the overload (or at the beginning of the motion), as far
\* apart as the two clocks may be.
WarnsAHorizonAhead ==
  SkewCovered /\ crossing # NotYet /\ force_t0 <= FirstSight => b3_detects <= FirstSight

\* No false alarm: with an onset at or past the horizon's end (as the
\* interaction-force experiment has it) a force that nobody has started yet
\* makes B3 react only where it would without any force.
NoAlarmBeforeStart ==
  Onset >= HorizonSteps /\ b3_detects < force_t0 =>
    \E w \in 0 .. LastWaypoint : TauMax - Magnitude(load[w]) - DeltaTau < MSafe

=============================================================================
