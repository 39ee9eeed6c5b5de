------------------------- MODULE ForceWarning_proofs -------------------------
(***************************************************************************)
(* Theorems about who notices an external force, and when.                 *)
(*                                                                         *)
(* The warning rests on a record of the past: in every cycle of the motion *)
(* with a started force either B3 had found fault by then, or every        *)
(* waypoint of that cycle's horizon cleared at the time it was due.        *)
(***************************************************************************)
EXTENDS ForceWarning, TLAPS

USE HorizonAssumption, RampAssumption, LimitsAssumption, BoundsAssumption

\* The force changes by at most Slope a period.
LEMMA RampSteps ==
  ASSUME NEW a \in Int, NEW b \in Int, NEW k \in Nat, Magnitude(a - b) <= k
  PROVE  Ramp(a) \in Int /\ Ramp(b) \in Int /\ Magnitude(Ramp(a) - Ramp(b)) <= k
BY DEF Ramp, Least, Magnitude

LEMMA SampleType ==
  ASSUME NEW a \in Int
  PROVE  Sample(a) \in Int
<1>1. Ramp(a) \in Int BY DEF Ramp, Least
<1> QED BY <1>1 DEF Sample

LEMMA Scaled ==
  ASSUME NEW s \in Int, NEW d \in Int, NEW k \in Nat, Magnitude(d) <= k
  PROVE  Magnitude(s * d) <= k * Magnitude(s)
<1>1. CASE s >= 0 /\ d >= 0
  BY <1>1, s * d >= 0, s * d <= k * s DEF Magnitude
<1>2. CASE s >= 0 /\ d < 0
  <2>1. (k + d) * s >= 0 /\ (-d) * s >= 0 BY <1>2 DEF Magnitude
  <2>2. (k + d) * s = k * s + s * d /\ (-d) * s = -(s * d) BY <1>2
  <2> QED BY <1>2, <2>1, <2>2 DEF Magnitude
<1>3. CASE s < 0 /\ d >= 0
  <2>1. (k - d) * (-s) >= 0 /\ d * (-s) >= 0 BY <1>3 DEF Magnitude
  <2>2. (k - d) * (-s) = k * (-s) + s * d /\ d * (-s) = -(s * d) BY <1>3
  <2> QED BY <1>3, <2>1, <2>2 DEF Magnitude
<1>4. CASE s < 0 /\ d < 0
  <2>1. (k + d) * (-s) >= 0 /\ (-d) * (-s) >= 0 BY <1>4 DEF Magnitude
  <2>2. (k + d) * (-s) = k * (-s) - s * d /\ (-d) * (-s) = s * d BY <1>4
  <2> QED BY <1>4, <2>1, <2>2 DEF Magnitude
<1> QED BY <1>1, <1>2, <1>3, <1>4

\* Two readings of the schedule that are at most k periods apart.
LEMMA ForceSteps ==
  ASSUME NEW a \in Int, NEW b \in Int, NEW k \in Nat, Magnitude(a - b) <= k
  PROVE  Sample(a) \in Int /\ Sample(b) \in Int
         /\ Magnitude(Sample(a) - Sample(b)) <= k * Magnitude(Slope)
<1>1. Ramp(a) \in Int /\ Ramp(b) \in Int /\ Magnitude(Ramp(a) - Ramp(b)) <= k
  BY RampSteps
<1>2. Sample(a) \in Int /\ Sample(b) \in Int
  BY SampleType
<1>3. Sample(a) - Sample(b) = Slope * (Ramp(a) - Ramp(b))
  BY <1>1 DEF Sample
<1>4. Magnitude(Slope * (Ramp(a) - Ramp(b))) <= k * Magnitude(Slope)
  BY <1>1, Scaled, Ramp(a) - Ramp(b) \in Int, Slope \in Int
<1> QED BY <1>2, <1>3, <1>4

\* A torque too large under one force is nearly so under one nearby.
LEMMA Nearby ==
  ASSUME NEW x \in Int, NEW a \in Int, NEW b \in Int, NEW d \in Int, NEW limit \in Int,
         Magnitude(a - b) <= d, Magnitude(x - a) > limit
  PROVE  Magnitude(x - b) > limit - d
BY DEF Magnitude

-----------------------------------------------------------------------------
LEMMA TypeAtStart == Init => WarningTypeOK
<1> SUFFICES ASSUME Init PROVE WarningTypeOK OBVIOUS
<1>1. now = 0 /\ now \in 0 .. MaxTime BY DEF Init
<1>2. {simulator_t0, force_t0, begun} = {NotYet} /\ {b2_detects, b3_detects, crossing} = {NotYet}
  BY DEF Init
<1>3. sent \in BOOLEAN /\ load \in [0 .. LastWaypoint -> Loads] BY DEF Init
<1> QED BY <1>1, <1>2, <1>3 DEF WarningTypeOK

LEMMA TypeKept == WarningTypeOK /\ [Next]_vars => WarningTypeOK'
<1> SUFFICES ASSUME WarningTypeOK, [Next]_vars PROVE WarningTypeOK'
  OBVIOUS
<1> USE DEF WarningTypeOK, NotYet
<1>1. CASE PublishForceStart BY <1>1 DEF PublishForceStart
<1>2. CASE SimulatorStarts BY <1>2 DEF SimulatorStarts
<1>3. CASE SolverStarts BY <1>3 DEF SolverStarts
<1>4. CASE BeginMotion BY <1>4 DEF BeginMotion
<1>5. CASE Period
  <2>1. {b2_detects, b3_detects, crossing}' \subseteq 0 .. now \cup {NotYet}
    BY <1>5 DEF Period, First
  <2> QED BY <1>5, <2>1 DEF Period
<1>6. CASE UNCHANGED vars BY <1>6 DEF vars
<1> QED BY <1>1, <1>2, <1>3, <1>4, <1>5, <1>6 DEF Next

\* Type correctness, for every schedule, route and skew.
THEOREM TypeCorrect == Spec => []WarningTypeOK
BY TypeAtStart, TypeKept, PTL DEF Spec

-----------------------------------------------------------------------------
\* A cycle in which B2 finds fault is one in which B3 does: its first waypoint
\* is the same, and due a period later.
LEMMA FirstWaypointSuffices ==
  ASSUME WarningTypeOK, SkewCovered, Moving, B2Exceeds
  PROVE  B3Tight
<1> USE DEF WarningTypeOK, NotYet
<1>1. now \in Nat /\ begun \in Nat /\ force_t0 \in Nat /\ Target \in 0 .. LastWaypoint
  BY DEF Moving, Target
<1>2. load[Target] \in Int
  BY <1>1
<1>3. Magnitude(Slope) \in Nat /\ Magnitude(Slope) <= MSafe + DeltaTau
  <2>1. Magnitude(Slope) \in Nat BY DEF Magnitude
  <2>2. (MaxSkew - 1) * Magnitude(Slope) >= 0 BY <2>1
  <2>3. (MaxSkew - 1) * Magnitude(Slope) = MaxSkew * Magnitude(Slope) - Magnitude(Slope) BY <2>1
  <2>4. MaxSkew * Magnitude(Slope) \in Int BY <2>1
  <2> QED BY <2>1, <2>2, <2>3, <2>4 DEF SkewCovered
<1> DEFINE t == IF Started(force_t0) THEN now - force_t0 ELSE 0
<1>4. t \in Int /\ Due(0) = t + 1
  BY <1>1 DEF Due, ForceTimeNow, Started
<1>5. ~Started(force_t0) => Sample(t) = 0
  BY DEF Sample, Ramp, Least
<1>6. Sample(t) \in Int /\ Sample(Due(0)) \in Int
      /\ Magnitude(Sample(t) - Sample(Due(0))) <= Magnitude(Slope)
  <2>1. Magnitude(t - Due(0)) <= 1 BY <1>4 DEF Magnitude
  <2>2. Magnitude(Sample(t) - Sample(Due(0))) <= 1 * Magnitude(Slope)
        /\ Sample(t) \in Int /\ Sample(Due(0)) \in Int
    BY <1>4, <2>1, ForceSteps, Due(0) \in Int, 1 \in Nat
  <2> QED BY <1>3, <2>2
<1>7. Magnitude(load[Target] - Sample(t)) > TauMax
  BY <1>2, <1>5, <1>6 DEF B2Exceeds, Torque
<1>8. Margin(Target, Due(0)) < MSafe
  <2>1. Magnitude(load[Target] - Sample(Due(0))) > TauMax - Magnitude(Slope)
    <3> HIDE DEF t
    <3> QED BY <1>2, <1>3, <1>6, <1>7, Nearby, Magnitude(Slope) \in Int, TauMax \in Int
  <2>2. Magnitude(load[Target] - Sample(Due(0))) \in Int BY <1>2, <1>6 DEF Magnitude
  <2> QED BY <1>3, <2>1, <2>2 DEF Margin, Torque
<1>9. Least(Target + 0, LastWaypoint) = Target
  BY <1>1 DEF Least
<1> QED BY <1>8, <1>9 DEF B3Tight

\* B3 is never later than B2, for every ramp the kept margin covers.
THEOREM NeverLater == Spec => []NeverLaterThanB2
<1>1. Init => NeverLaterThanB2
  BY DEF Init, NeverLaterThanB2, NotYet
<1>2. WarningTypeOK /\ NeverLaterThanB2 /\ [Next]_vars => NeverLaterThanB2'
  <2> SUFFICES ASSUME WarningTypeOK, NeverLaterThanB2, [Next]_vars, SkewCovered
               PROVE  (b3_detects <= b2_detects)'
    BY DEF NeverLaterThanB2, SkewCovered
  <2>1. b3_detects <= b2_detects BY DEF NeverLaterThanB2
  <2>2. CASE UNCHANGED <<b2_detects, b3_detects>> BY <2>1, <2>2
  <2>3. CASE Period
    <3>1. now \in Nat /\ now < NotYet /\ NotYet \in Nat
          /\ (b2_detects = NotYet \/ b2_detects \in 0 .. now - 1)
          /\ (b3_detects = NotYet \/ b3_detects \in 0 .. now - 1)
      BY DEF WarningTypeOK, NotYet
    <3>2. CASE Moving /\ B2Exceeds
      <4>1. Moving /\ B3Tight BY <3>2, FirstWaypointSuffices
      <4>2. b3_detects' = IF b3_detects = NotYet THEN now ELSE b3_detects
        BY <2>3, <4>1 DEF Period, First
      <4>3. b2_detects' = IF b2_detects = NotYet THEN now ELSE b2_detects
        BY <2>3, <3>2 DEF Period, First
      <4>4. CASE b2_detects = NotYet BY <2>1, <3>1, <4>2, <4>3, <4>4
      <4>5. CASE b2_detects # NotYet BY <2>1, <3>1, <4>2, <4>3, <4>5
      <4> QED BY <4>4, <4>5
    <3>3. CASE ~(Moving /\ B2Exceeds)
      <4>1. b3_detects' = b3_detects \/ (b3_detects = NotYet /\ b3_detects' = now)
        BY <2>3 DEF Period, First
      <4>2. b2_detects' = b2_detects
        BY <2>3, <3>3 DEF Period, First
      <4> QED BY <2>1, <3>1, <4>1, <4>2
    <3> QED BY <3>2, <3>3
  <2> QED
    BY <2>2, <2>3 DEF Next, PublishForceStart, SimulatorStarts, SolverStarts, BeginMotion, vars
<1> QED BY <1>1, <1>2, TypeCorrect, PTL DEF Spec

-----------------------------------------------------------------------------
\* A force nobody has started raises no alarm of its own, if its onset is at
\* the horizon's end or later.
THEOREM NoFalseAlarm == Spec => []NoAlarmBeforeStart
<1> DEFINE Tight == \E w \in 0 .. LastWaypoint : TauMax - Magnitude(load[w]) - DeltaTau < MSafe
<1>1. Init => NoAlarmBeforeStart
  BY DEF Init, NoAlarmBeforeStart, NotYet
<1>2. WarningTypeOK /\ NoAlarmBeforeStart /\ [Next]_vars => NoAlarmBeforeStart'
  <2> SUFFICES ASSUME WarningTypeOK, NoAlarmBeforeStart, [Next]_vars,
                      Onset >= HorizonSteps, (b3_detects < force_t0)'
               PROVE  Tight'
    BY DEF NoAlarmBeforeStart
  <2> USE DEF WarningTypeOK, NotYet
  <2>1. b3_detects < force_t0 => Tight
    BY DEF NoAlarmBeforeStart
  <2>2. CASE UNCHANGED <<b3_detects, force_t0, load>> BY <2>1, <2>2
  <2>3. CASE SolverStarts BY <2>1, <2>3 DEF SolverStarts
  <2>4. CASE Period
    <3>1. CASE b3_detects # NotYet BY <2>1, <2>4, <3>1 DEF Period, First
    <3>2. CASE b3_detects = NotYet
      <4>1. Moving /\ B3Tight /\ now < force_t0
        BY <2>4, <3>2 DEF Period, First
      <4>2. PICK j \in 0 .. HorizonSteps - 1 : Margin(Least(Target + j, LastWaypoint), Due(j)) < MSafe
        BY <4>1 DEF B3Tight
      <4> DEFINE w == Least(Target + j, LastWaypoint)
      <4>3. w \in 0 .. LastWaypoint
        BY <4>1 DEF Moving, Target, Least
      <4>4. Due(j) \in Int /\ Due(j) <= Onset
        BY <4>1 DEF Due, ForceTimeNow, Started
      <4>5. Sample(Due(j)) = 0
        BY <4>4 DEF Sample, Ramp, Least
      <4>6. load[w] \in Int BY <4>3
      <4>7. TauMax - Magnitude(load[w]) - DeltaTau < MSafe
        BY <4>2, <4>5, <4>6 DEF Margin, Torque
      <4> QED BY <2>4, <4>3, <4>7 DEF Period
    <3> QED BY <3>1, <3>2
  <2> QED BY <2>2, <2>3, <2>4 DEF Next, PublishForceStart, SimulatorStarts, BeginMotion, vars
<1> QED BY <1>1, <1>2, TypeCorrect, PTL DEF Spec

-----------------------------------------------------------------------------
\* What B3 made of cycle c: horizon waypoint j cleared at the time it was due.
ClearedAt(c, j) ==
  TauMax - Magnitude(load[Least(c - begun + j, LastWaypoint)] - Sample(c - force_t0 + j + 1))
    - DeltaTau >= MSafe

Watched ==
  \A c \in Nat :
    begun <= c /\ c < now /\ c - begun <= LastWaypoint /\ force_t0 <= c =>
      b3_detects <= c \/ \A j \in 0 .. HorizonSteps - 1 : ClearedAt(c, j)

SkewBounded ==
  /\ simulator_t0 # NotYet /\ force_t0 # NotYet => Magnitude(simulator_t0 - force_t0) <= MaxSkew
  /\ simulator_t0 = NotYet /\ force_t0 # NotYet => now - force_t0 <= MaxSkew
  /\ simulator_t0 # NotYet /\ force_t0 = NotYet => now - simulator_t0 <= MaxSkew

\* What the overload was: too much torque under the force at a time near
\* the one on the solver's clock.
CrossingKnown ==
  crossing # NotYet =>
    /\ begun <= crossing /\ crossing - begun <= LastWaypoint
    /\ \E a \in Int :
         /\ Magnitude(load[crossing - begun] - Sample(a)) > TauMax
         /\ force_t0 <= crossing => Magnitude(a - (crossing + 1 - force_t0)) <= MaxSkew

Record == WarningTypeOK /\ SkewBounded /\ Watched /\ CrossingKnown

LEMMA Past ==
  ASSUME WarningTypeOK
  PROVE  /\ now \in Nat /\ now < NotYet /\ NotYet \in Nat
         /\ simulator_t0 = NotYet \/ simulator_t0 \in 0 .. now
         /\ force_t0 = NotYet \/ force_t0 \in 0 .. now
         /\ begun = NotYet \/ begun \in 0 .. now
         /\ b3_detects = NotYet \/ b3_detects \in 0 .. now - 1
         /\ crossing = NotYet \/ crossing \in 0 .. now - 1
         /\ \A w \in 0 .. LastWaypoint : load[w] \in Int
<1>1. now \in Nat /\ now < NotYet /\ NotYet \in Nat
  BY DEF WarningTypeOK, NotYet
<1>2. /\ simulator_t0 = NotYet \/ simulator_t0 \in 0 .. now
      /\ force_t0 = NotYet \/ force_t0 \in 0 .. now
      /\ begun = NotYet \/ begun \in 0 .. now
  BY DEF WarningTypeOK
<1>3. /\ b3_detects = NotYet \/ b3_detects \in 0 .. now - 1
      /\ crossing = NotYet \/ crossing \in 0 .. now - 1
  BY DEF WarningTypeOK
<1>4. \A w \in 0 .. LastWaypoint : load[w] \in Int
  BY DEF WarningTypeOK
<1> QED BY <1>1, <1>2, <1>3, <1>4

LEMMA SkewStaysBounded ==
  ASSUME WarningTypeOK, SkewBounded, Next
  PROVE  SkewBounded'
<1> USE Past DEF SkewBounded
<1>1. CASE UNCHANGED <<now, simulator_t0, force_t0>>
  BY <1>1, NotYet' = NotYet DEF NotYet
<1>2. CASE SimulatorStarts BY <1>2 DEF SimulatorStarts, NotYet, Magnitude
<1>3. CASE SolverStarts BY <1>3 DEF SolverStarts, NotYet, Magnitude
<1>4. CASE Period BY <1>4 DEF Period, SkewKept, NotYet, Magnitude
<1> QED BY <1>1, <1>2, <1>3, <1>4 DEF Next, PublishForceStart, BeginMotion

LEMMA StaysWatched ==
  ASSUME WarningTypeOK, Watched, Next
  PROVE  Watched'
<1> SUFFICES ASSUME NEW c \in Nat,
                    (begun <= c /\ c < now /\ c - begun <= LastWaypoint /\ force_t0 <= c)'
             PROVE  (b3_detects <= c \/ \A j \in 0 .. HorizonSteps - 1 : ClearedAt(c, j))'
  BY DEF Watched
<1> USE Past
<1>1. CASE UNCHANGED <<now, force_t0, begun, load, b3_detects>>
  BY <1>1 DEF Watched, ClearedAt
<1>2. CASE SolverStarts
  BY <1>2 DEF SolverStarts
<1>3. CASE BeginMotion
  BY <1>3 DEF BeginMotion
<1>4. CASE Period
  <2>1. UNCHANGED <<force_t0, begun, load>> /\ now' = now + 1
    BY <1>4 DEF Period
  <2>2. b3_detects' = b3_detects \/ (b3_detects = NotYet /\ b3_detects' = now)
    BY <1>4 DEF Period, First
  <2>3. CASE c < now
    <3>1. b3_detects <= c \/ \A j \in 0 .. HorizonSteps - 1 : ClearedAt(c, j)
      BY <2>1, <2>3 DEF Watched
    <3>2. b3_detects <= c => b3_detects' = b3_detects
      BY <2>2, <2>3
    <3> QED BY <2>1, <3>1, <3>2 DEF ClearedAt
  <2>4. CASE c = now
    <3>1. Moving /\ Started(force_t0)
      BY <2>1, <2>4 DEF Moving, Started
    <3>2. CASE B3Tight
      BY <1>4, <2>4, <3>1, <3>2 DEF Period, First
    <3>3. CASE ~B3Tight
      <4> SUFFICES ASSUME NEW j \in 0 .. HorizonSteps - 1 PROVE ClearedAt(c, j)'
        OBVIOUS
      <4> DEFINE w == Least(c - begun + j, LastWaypoint)
      <4>1. Due(j) = c - force_t0 + j + 1 /\ Target = c - begun
        BY <2>4, <3>1 DEF Due, ForceTimeNow, Target
      <4>2. ~(Margin(w, Due(j)) < MSafe)
        BY <3>3, <4>1 DEF B3Tight
      <4>3. c - force_t0 + j + 1 \in Int /\ w \in 0 .. LastWaypoint
        BY <2>1, <2>4, <3>1 DEF Started, Moving, Least
      <4>4. Sample(c - force_t0 + j + 1) \in Int
        BY <4>3, SampleType
      <4>5. ClearedAt(c, j)
        BY <4>1, <4>2, <4>3, <4>4 DEF Margin, Torque, ClearedAt, Magnitude
      <4> QED BY <2>1, <4>5 DEF ClearedAt
    <3> QED BY <3>2, <3>3
  <2> QED BY <2>1, <2>3, <2>4
<1> QED BY <1>1, <1>2, <1>3, <1>4 DEF Next, PublishForceStart, SimulatorStarts

LEMMA CrossingStaysKnown ==
  ASSUME WarningTypeOK, SkewBounded, CrossingKnown, Next
  PROVE  CrossingKnown'
<1> USE Past
<1>1. CASE UNCHANGED <<force_t0, begun, load, crossing>>
  BY <1>1 DEF CrossingKnown, NotYet
<1>2. CASE SolverStarts
  <2>1. UNCHANGED <<begun, load, crossing>> /\ force_t0' = now
    BY <1>2 DEF SolverStarts
  <2>2. crossing # NotYet => ~(force_t0 <= crossing)' BY <2>1
  <2> QED BY <2>1, <2>2 DEF CrossingKnown, NotYet
<1>3. CASE BeginMotion
  BY <1>3 DEF BeginMotion, CrossingKnown, NotYet
<1>4. CASE Period
  <2>1. UNCHANGED <<simulator_t0, force_t0, begun, load>> /\ SkewKept /\ now < MaxTime
    BY <1>4 DEF Period
  <2>2. CASE crossing' = crossing
    BY <2>1, <2>2 DEF CrossingKnown, NotYet
  <2>3. CASE crossing' # crossing
    <3>1. crossing' = now /\ Moving /\ Overloaded
      BY <1>4, <2>3 DEF Period, First
    <3> DEFINE a == IF simulator_t0 <= now + 1 THEN now + 1 - simulator_t0 ELSE 0
    <3>2. a \in Int /\ now - begun \in 0 .. LastWaypoint
      BY <3>1 DEF Moving
    <3>3. Sample(0) = 0
      BY DEF Sample, Ramp, Least
    <3>4. Magnitude(load[now - begun] - Sample(a)) > TauMax
      BY <3>1, <3>2, <3>3 DEF Overloaded, Torque, Target
    <3>5. force_t0 <= now => Magnitude(a - (now + 1 - force_t0)) <= MaxSkew
      BY <2>1 DEF SkewBounded, SkewKept, Magnitude, NotYet
    <3> HIDE DEF a
    <3> QED BY <2>1, <3>1, <3>2, <3>4, <3>5 DEF CrossingKnown, Moving
  <2> QED BY <2>2, <2>3
<1> QED BY <1>1, <1>2, <1>3, <1>4 DEF Next, PublishForceStart, SimulatorStarts

LEMMA RecordWarns ==
  ASSUME Record
  PROVE  WarnsAHorizonAhead
<1> SUFFICES ASSUME SkewCovered, crossing # NotYet, force_t0 <= FirstSight
             PROVE  b3_detects <= FirstSight
  BY DEF WarnsAHorizonAhead
<1> USE Past DEF Record
<1>1. crossing \in 0 .. now - 1 /\ begun \in 0 .. crossing /\ crossing - begun \in 0 .. LastWaypoint
  BY DEF CrossingKnown
<1>2. FirstSight \in begun .. crossing /\ crossing - FirstSight \in 0 .. HorizonSteps - 1
  BY <1>1 DEF FirstSight, Least
<1> DEFINE j == crossing - FirstSight
           due == crossing + 1 - force_t0
<1>3. b3_detects <= FirstSight \/ ClearedAt(FirstSight, j)
  BY <1>1, <1>2 DEF Watched
<1>4. force_t0 \in Int /\ force_t0 <= crossing /\ due \in Int
  BY <1>1, <1>2
<1>5. PICK a \in Int : /\ Magnitude(load[crossing - begun] - Sample(a)) > TauMax
                       /\ Magnitude(a - due) <= MaxSkew
  BY <1>4 DEF CrossingKnown
<1>6. /\ Sample(a) \in Int /\ Sample(due) \in Int
      /\ Magnitude(Sample(a) - Sample(due)) <= MaxSkew * Magnitude(Slope)
  BY <1>4, <1>5, ForceSteps, MaxSkew \in Nat
<1>7. load[crossing - begun] \in Int /\ MaxSkew * Magnitude(Slope) \in Int
  BY <1>1 DEF Magnitude
<1>8. Magnitude(load[crossing - begun] - Sample(due)) > TauMax - MaxSkew * Magnitude(Slope)
  BY <1>5, <1>6, <1>7, Nearby, TauMax \in Int
<1>9. ~ClearedAt(FirstSight, j)
  <2>1. Least(FirstSight - begun + j, LastWaypoint) = crossing - begun
    BY <1>1, <1>2 DEF Least
  <2>2. FirstSight - force_t0 + j + 1 = due
    BY <1>1, <1>2, <1>4
  <2>3. Magnitude(load[crossing - begun] - Sample(due)) \in Int
    BY <1>6, <1>7 DEF Magnitude
  <2> HIDE DEF due, j
  <2> QED BY <1>7, <1>8, <2>1, <2>2, <2>3 DEF ClearedAt, SkewCovered
<1> QED BY <1>3, <1>9

\* B3 warns a horizon ahead of the overload, for every schedule, route and
\* horizon, whatever skew its kept margin covers.
THEOREM WarnsAhead == Spec => []WarnsAHorizonAhead
<1>1. Init => Record
  <2> SUFFICES ASSUME Init PROVE SkewBounded /\ Watched /\ CrossingKnown
    BY TypeAtStart DEF Record
  <2> QED BY DEF Init, SkewBounded, Watched, CrossingKnown
<1>2. Record /\ [Next]_vars => Record'
  <2>1. CASE Next
    BY <2>1, TypeKept, SkewStaysBounded, StaysWatched, CrossingStaysKnown DEF Record
  <2>2. CASE UNCHANGED vars
    BY <2>2 DEF vars, Record, WarningTypeOK, SkewBounded, Watched, ClearedAt, CrossingKnown, NotYet
  <2> QED BY <2>1, <2>2
<1>3. Record => WarnsAHorizonAhead
  BY RecordWarns
<1> QED BY <1>1, <1>2, <1>3, PTL DEF Spec
=============================================================================
