-------------------------- MODULE RunMetrics_proofs --------------------------
(***************************************************************************)
(* Theorems about what the offline scripts report, for every motion, ramp, *)
(* period, horizon, run length and number of lost samples.                 *)
(*                                                                         *)
(* Every cycle publishes a genuine sample: one that tells what the solver  *)
(* did and found.  The scripts' properties follow sample by sample.        *)
(***************************************************************************)
EXTENDS RunMetrics, TLAPS, FiniteSetTheorems, SequenceTheorems

USE RampAssumption, CyclesAssumption, TorqueAssumption

Samples ==
  IF controller = "b3"
    THEN [stamp : Nat, level : {"0", "2", "4"}, m_phys : Int \cup {NaN},
          binding_step : Steps \cup {-1}, m_phys_observed : Int \cup {NaN},
          at : [target : Nat \ {0}, measured : Nat \ {0}]]
    ELSE [stamp : Nat, min_margin_nm : Int \cup {NaN}, intervened : BOOLEAN]

Tallies ==
  [samples : Nat, episodes : Nat, was : BOOLEAN, least : Int \cup {NaN, None}]

MetricsTypeOK ==
  /\ controller \in {"b2", "b3"} /\ motion \in Motions
  /\ now \in Nat /\ force_t0 \in {NotYet} \cup 0 .. now
  /\ target \in Nat \ {0} /\ braked \in BOOLEAN
  /\ bag \in Seq(Samples) /\ interventions \in Seq(BOOLEAN) /\ lost \in Nat
  /\ tally \in Tallies

\* The force the arm feels at time t, as far as can be told now.
Pull(t) == IF Started THEN Sample(t - force_t0) ELSE 0

OnsetPastHorizon == Onset >= HorizonSteps * Dt

\* The margins of sample s are what its waypoints leave under the forces of the
\* times they stand for.
Explained(s) ==
  LET w == s.at.target + s.binding_step IN
  /\ s.stamp <= now /\ s.binding_step \in Steps
  /\ s.m_phys = Margin(TorqueAt(w, w) - Pull(s.stamp + (s.binding_step + 1) * Dt))
  /\ s.m_phys_observed = Margin(TorqueAt(s.at.measured, s.at.target) - Pull(s.stamp + Dt))

\* A sample this cycle can publish.
Genuine(s) ==
  IF controller = "b3"
    THEN /\ IsNumber(s.m_phys) => /\ B3Intervenes(s) <=> s.m_phys < MSafe
                                  /\ OnsetPastHorizon => Explained(s)
         /\ ~IsNumber(s.m_phys) => braked
         /\ braked' => B3Intervenes(s)
    ELSE s.intervened => IsNumber(s.min_margin_nm) /\ s.min_margin_nm < 0

-----------------------------------------------------------------------------
(* Torques *)

LEMMA WaypointType ==
  ASSUME motion \in Motions, NEW w \in Nat \ {0}
  PROVE  Waypoint(w) \in [state : Int, push : Int]
<1>1. motion \in Seq([state : Int, push : Int]) /\ Len(motion) >= 2
  OBVIOUS
<1>2. Least(w, Len(motion)) \in 1 .. Len(motion)
  BY <1>1, LenProperties DEF Least
<1> QED BY <1>1, <1>2, ElementOfSeq DEF Waypoint

LEMMA TorqueType ==
  ASSUME motion \in Motions, NEW v \in Nat \ {0}, NEW w \in Nat \ {0}
  PROVE  TorqueAt(v, w) \in Int
BY WaypointType DEF TorqueAt

LEMMA RampType ==
  ASSUME NEW t \in Int
  PROVE  Ramp(t) \in Int /\ Sample(t) \in Int
<1>1. Ramp(t) \in Int BY DEF Ramp, Least
<1> QED BY <1>1 DEF Sample

\* The force is not felt before its onset.
LEMMA NoPullBefore ==
  ASSUME NEW t \in Int, t <= Onset
  PROVE  Sample(t) = 0
<1>1. Ramp(t) = 0 BY DEF Ramp, Least
<1> QED BY <1>1 DEF Sample

LEMMA MarginType ==
  ASSUME NEW x \in Int, NEW y \in Int
  PROVE  Margin(x - y) \in Int
BY DEF Margin, Magnitude

\* The waypoints of the horizon are due within it.
LEMMA DueWithinHorizon ==
  ASSUME NEW j \in Steps
  PROVE  (j + 1) * Dt \in Int /\ (j + 1) * Dt <= HorizonSteps * Dt /\ Dt <= (j + 1) * Dt
<1>1. j \in Int /\ 0 <= j /\ 0 <= HorizonSteps - 1 - j BY DEF Steps
<1>2. 0 <= j * Dt /\ 0 <= (HorizonSteps - 1 - j) * Dt
  <2>1. \A m \in Nat : 0 <= m * Dt OBVIOUS
  <2> QED BY <1>1, <2>1
<1>3. (j + 1) * Dt = j * Dt + Dt
      /\ (HorizonSteps - 1 - j) * Dt = HorizonSteps * Dt - (j + 1) * Dt
  BY <1>1
<1> QED BY <1>1, <1>2, <1>3

-----------------------------------------------------------------------------
(* What a step does *)

\* The force predicted for waypoint j, and the one of the observation, are what
\* will be felt: not even a start later on is felt before the horizon's end.
LEMMA ForeseenForce ==
  ASSUME MetricsTypeOK, OnsetPastHorizon, NEW j \in Steps
  PROVE  /\ Sample(ForceTimeNow + (j + 1) * Dt) = Pull(now + (j + 1) * Dt)
         /\ Sample(ForceTimeNow + Dt) = Pull(now + Dt)
<1>1. (j + 1) * Dt \in Int /\ (j + 1) * Dt <= Onset /\ Dt <= Onset
  BY DueWithinHorizon DEF OnsetPastHorizon
<1> DEFINE due == (j + 1) * Dt
<1> HIDE DEF due
<1>2. due \in Int /\ due <= Onset BY <1>1 DEF due
<1>3. CASE Started
  <2>1. ForceTimeNow + due = (now + due) - force_t0
        /\ ForceTimeNow + Dt = (now + Dt) - force_t0
    BY <1>2, <1>3 DEF ForceTimeNow, MetricsTypeOK, NotYet
  <2> QED BY <1>3, <2>1 DEF Pull, due
<1>4. CASE ~Started
  <2>1. ForceTimeNow + due = due /\ ForceTimeNow + Dt = Dt
    BY <1>2, <1>4 DEF ForceTimeNow
  <2>2. Sample(due) = 0 /\ Sample(Dt) = 0
    BY <1>1, <1>2, NoPullBefore
  <2> QED BY <1>4, <2>1, <2>2 DEF Pull, due
<1> QED BY <1>3, <1>4

LEMMA MarginTypes ==
  ASSUME MetricsTypeOK
  PROVE  /\ \A j \in Steps : Predicted(j) \in Int
         /\ \A measured \in Measured : Observed(measured) \in Int
<1>1. ForceTimeNow \in Int BY DEF ForceTimeNow, MetricsTypeOK, NotYet
<1>2. ASSUME NEW j \in Steps PROVE Predicted(j) \in Int
  <2>1. target + j \in Nat \ {0} BY DEF MetricsTypeOK, Steps
  <2>2. TorqueAt(target + j, target + j) \in Int
    BY <2>1, TorqueType DEF MetricsTypeOK
  <2>3. ForceTimeNow + (j + 1) * Dt \in Int BY <1>1, DueWithinHorizon
  <2>4. Sample(ForceTimeNow + (j + 1) * Dt) \in Int BY <2>3, RampType
  <2> QED BY <2>2, <2>4, MarginType DEF Predicted
<1>3. ASSUME NEW measured \in Measured PROVE Observed(measured) \in Int
  <2>1. measured \in Nat \ {0} /\ target \in Nat \ {0} BY DEF MetricsTypeOK, Measured
  <2>2. TorqueAt(measured, target) \in Int
    BY <2>1, TorqueType DEF MetricsTypeOK
  <2>3. ForceTimeNow + Dt \in Int BY <1>1
  <2>4. Sample(ForceTimeNow + Dt) \in Int BY <2>3, RampType
  <2> QED BY <2>2, <2>4, MarginType DEF Observed
<1> QED BY <1>2, <1>3

LEMMA CertifiedSample ==
  ASSUME MetricsTypeOK, CertifiedCycle
  PROVE  \E s \in Samples : Publish(s) /\ Genuine(s)
<1>1. PICK measured \in Measured, j \in Steps, level \in {"0", "2", "4"} :
        /\ level = "0" <=> Predicted(j) >= MSafe
        /\ Publish(B3Diagnostics(level, Predicted(j), j, Observed(measured), measured))
        /\ braked' = (level = "4")
  BY DEF CertifiedCycle
<1> DEFINE s == B3Diagnostics(level, Predicted(j), j, Observed(measured), measured)
<1>2. measured \in Nat \ {0} /\ target \in Nat \ {0} /\ now \in Nat /\ controller = "b3"
  BY DEF MetricsTypeOK, Measured, CertifiedCycle
<1>3. Predicted(j) \in Int /\ Observed(measured) \in Int BY MarginTypes
<1>4. s \in Samples BY <1>2, <1>3 DEF B3Diagnostics, Samples
<1>5. B3Intervenes(s) <=> s.m_phys < MSafe
  BY <1>1, <1>3 DEF B3Diagnostics, B3Intervenes
<1>6. ASSUME OnsetPastHorizon PROVE Explained(s)
  <2>1. /\ s.stamp = now /\ s.binding_step = j /\ s.m_phys = Predicted(j)
        /\ s.m_phys_observed = Observed(measured)
        /\ s.at.target = target /\ s.at.measured = measured
    BY DEF B3Diagnostics
  <2>2. /\ Sample(ForceTimeNow + (j + 1) * Dt) = Pull(now + (j + 1) * Dt)
        /\ Sample(ForceTimeNow + Dt) = Pull(now + Dt)
    BY <1>6, ForeseenForce
  <2>3. Predicted(j) = Margin(TorqueAt(target + j, target + j) - Pull(now + (j + 1) * Dt))
    BY <2>2 DEF Predicted
  <2>4. Observed(measured) = Margin(TorqueAt(measured, target) - Pull(now + Dt))
    BY <2>2 DEF Observed
  <2> QED BY <1>2, <2>1, <2>3, <2>4 DEF Explained
<1>7. braked' => B3Intervenes(s)
  BY <1>1 DEF B3Diagnostics, B3Intervenes
<1>8. Genuine(s)
  BY <1>2, <1>3, <1>5, <1>6, <1>7 DEF Genuine, IsNumber, B3Diagnostics
<1> QED BY <1>1, <1>4, <1>8

LEMMA BrakedSample ==
  ASSUME MetricsTypeOK, BrakedCycle
  PROVE  \E s \in Samples : Publish(s) /\ Genuine(s)
<1>1. PICK measured \in Measured : Publish(B3Diagnostics("4", NaN, -1, NaN, measured))
  BY DEF BrakedCycle
<1> DEFINE s == B3Diagnostics("4", NaN, -1, NaN, measured)
<1>2. controller = "b3" /\ braked /\ measured \in Nat \ {0} /\ target \in Nat \ {0} /\ now \in Nat
  BY DEF MetricsTypeOK, Measured, BrakedCycle
<1>3. s \in Samples BY <1>2 DEF B3Diagnostics, Samples
<1>4. Genuine(s) BY <1>2 DEF Genuine, B3Diagnostics, IsNumber, B3Intervenes
<1> QED BY <1>1, <1>3, <1>4

LEMMA B2Sample ==
  ASSUME MetricsTypeOK, B2Cycle
  PROVE  \E s \in Samples : Publish(s) /\ Genuine(s)
<1>1. controller = "b2" /\ target \in Nat \ {0} /\ now \in Nat
  BY DEF MetricsTypeOK, B2Cycle
<1> DEFINE pull == IF Started THEN Sample(now - force_t0) ELSE 0
           margin == TauMax - Magnitude(TorqueAt(target, target) - pull)
<1>2. margin \in Int
  <2>1. pull \in Int
    <3>1. Started => Sample(now - force_t0) \in Int
      BY RampType DEF MetricsTypeOK, Started, NotYet
    <3> QED BY <3>1
  <2>2. TorqueAt(target, target) \in Int
    BY <1>1, TorqueType DEF MetricsTypeOK
  <2> DEFINE torque == TorqueAt(target, target) - pull
  <2> HIDE DEF pull
  <2>3. torque \in Int BY <2>1, <2>2
  <2> HIDE DEF torque
  <2>4. TauMax - Magnitude(torque) \in Int BY <2>3 DEF Magnitude
  <2> QED BY <2>4 DEF torque
<1> HIDE DEF pull, margin
<1>3. PICK m \in Int \cup {NaN}, intervened \in BOOLEAN :
        /\ intervened => m \in Int /\ m < 0
        /\ Publish(B2Diagnostics(m, intervened))
  BY <1>2 DEF B2Cycle, pull, margin
<1>4. B2Diagnostics(m, intervened) \in Samples
  BY <1>1 DEF B2Diagnostics, Samples
<1>5. Genuine(B2Diagnostics(m, intervened))
  BY <1>1, <1>3 DEF Genuine, B2Diagnostics, IsNumber
<1> QED BY <1>3, <1>4, <1>5

\* Between two cycles the force may start.
Waits ==
  /\ UNCHANGED <<controller, motion, now, target, braked, bag, interventions, lost, tally>>
  /\ force_t0' \in {force_t0, now} /\ (Started => force_t0' = force_t0)

Cycles ==
  /\ \E s \in Samples : Publish(s) /\ Genuine(s)
  /\ UNCHANGED <<controller, motion, force_t0>>
  /\ now' \in Nat /\ now <= now' /\ target' \in Nat \ {0} /\ braked' \in BOOLEAN

LEMMA Shape ==
  ASSUME MetricsTypeOK, [Next]_vars
  PROVE  Waits \/ Cycles
<1>1. CASE ForceStarts BY <1>1 DEF ForceStarts, Waits
<1>2. CASE UNCHANGED vars BY <1>2 DEF vars, Waits
<1>3. Period =>
        /\ UNCHANGED <<controller, motion, force_t0>>
        /\ now' \in Nat /\ now <= now' /\ target' \in Nat \ {0}
  BY DEF Period, MetricsTypeOK
<1>4. CASE CertifiedCycle
  <2>1. Period /\ braked' \in BOOLEAN BY <1>4 DEF CertifiedCycle
  <2> QED BY <1>3, <1>4, <2>1, CertifiedSample DEF Cycles
<1>5. CASE BrakedCycle
  <2>1. Period /\ braked' \in BOOLEAN BY <1>5 DEF BrakedCycle, MetricsTypeOK
  <2> QED BY <1>3, <1>5, <2>1, BrakedSample DEF Cycles
<1>6. CASE B2Cycle
  <2>1. Period /\ braked' \in BOOLEAN BY <1>6 DEF B2Cycle, MetricsTypeOK
  <2> QED BY <1>3, <1>6, <2>1, B2Sample DEF Cycles
<1> QED BY <1>1, <1>2, <1>4, <1>5, <1>6 DEF Next

LEMMA SampleFacts ==
  ASSUME MetricsTypeOK, NEW s \in Samples
  PROVE  /\ Intervenes(s) \in BOOLEAN
         /\ MarginOf(s) \in Int \cup {NaN} /\ HasMargin(s) \in BOOLEAN
         /\ s.stamp \in Nat
<1>1. CASE controller = "b3"
  BY <1>1 DEF Samples, Intervenes, B3Intervenes, MarginOf, HasMargin, IsNumber
<1>2. CASE controller # "b3"
  BY <1>2 DEF Samples, Intervenes, MarginOf, HasMargin
<1> QED BY <1>1, <1>2

LEMMA CountFacts ==
  ASSUME MetricsTypeOK, NEW s \in Samples
  PROVE  /\ Count(tally, s) \in Tallies
         /\ Count(tally, s).samples = tally.samples + (IF Intervenes(s) THEN 1 ELSE 0)
         /\ Count(tally, s).episodes
              = tally.episodes + (IF Intervenes(s) /\ ~tally.was THEN 1 ELSE 0)
         /\ Count(tally, s).was = Intervenes(s)
         /\ Count(tally, s).least =
              IF HasMargin(s) THEN PythonMin(tally.least, MarginOf(s)) ELSE tally.least
<1>1. PythonMin(tally.least, MarginOf(s)) \in Int \cup {NaN, None}
  BY SampleFacts DEF PythonMin, MetricsTypeOK, Tallies
<1>2. tally.samples \in Nat /\ tally.episodes \in Nat /\ tally.least \in Int \cup {NaN, None}
  BY DEF MetricsTypeOK, Tallies
<1>3. Intervenes(s) \in BOOLEAN BY SampleFacts
<1> DEFINE samples  == tally.samples + (IF Intervenes(s) THEN 1 ELSE 0)
           episodes == tally.episodes + (IF Intervenes(s) /\ ~tally.was THEN 1 ELSE 0)
           least == IF HasMargin(s) THEN PythonMin(tally.least, MarginOf(s)) ELSE tally.least
<1>4. samples \in Nat /\ episodes \in Nat BY <1>2
<1>5. least \in Int \cup {NaN, None} BY <1>1, <1>2
<1>6. Count(tally, s) = [samples |-> samples, episodes |-> episodes,
                         was |-> Intervenes(s), least |-> least]
  BY DEF Count
<1> HIDE DEF samples, episodes, least
<1>7. Count(tally, s) \in Tallies BY <1>3, <1>4, <1>5, <1>6 DEF Tallies
<1>8. /\ Count(tally, s).samples = samples /\ Count(tally, s).episodes = episodes
      /\ Count(tally, s).was = Intervenes(s) /\ Count(tally, s).least = least
  BY <1>6
<1> QED BY <1>7, <1>8 DEF samples, episodes, least

LEMMA TypeAtStart == Init => MetricsTypeOK
<1> SUFFICES ASSUME Init PROVE MetricsTypeOK OBVIOUS
<1>1. bag \in Seq(Samples) /\ interventions \in Seq(BOOLEAN) BY EmptySeq DEF Init
<1>2. tally \in Tallies BY DEF Init, Tallies
<1>3. controller \in {"b2", "b3"} /\ motion \in Motions BY DEF Init
<1>4. now \in Nat /\ force_t0 = NotYet /\ target \in Nat \ {0} /\ lost \in Nat BY DEF Init
<1>5. braked \in BOOLEAN BY DEF Init
<1> QED BY <1>1, <1>2, <1>3, <1>4, <1>5 DEF MetricsTypeOK

LEMMA TypeKept == MetricsTypeOK /\ [Next]_vars => MetricsTypeOK'
<1> SUFFICES ASSUME MetricsTypeOK, [Next]_vars PROVE MetricsTypeOK'
  OBVIOUS
<1>1. controller' = controller => Samples' = Samples
  BY DEF Samples, Steps
<1>2. CASE Waits
  BY <1>1, <1>2 DEF Waits, MetricsTypeOK, NotYet, Tallies
<1>3. CASE Cycles
  <2>1. PICK s \in Samples : Publish(s) BY <1>3 DEF Cycles
  <2>2. bag' \in Seq(Samples)
    <3>1. bag \in Seq(Samples) BY DEF MetricsTypeOK
    <3>2. Append(bag, s) \in Seq(Samples) BY <3>1, AppendProperties
    <3> QED BY <2>1, <3>1, <3>2 DEF Publish
  <2>3. interventions' \in Seq(BOOLEAN)
    BY <2>1, SampleFacts, AppendProperties DEF Publish, MetricsTypeOK
  <2>4. tally' \in Tallies BY <2>1, CountFacts DEF Publish, MetricsTypeOK
  <2>5. lost' \in Nat BY <2>1 DEF Publish, MetricsTypeOK
  <2>6. /\ UNCHANGED <<controller, motion, force_t0>>
        /\ now' \in Nat /\ now <= now' /\ target' \in Nat \ {0} /\ braked' \in BOOLEAN
    BY <1>3 DEF Cycles
  <2> QED BY <1>1, <2>2, <2>3, <2>4, <2>5, <2>6 DEF MetricsTypeOK, NotYet, Tallies
<1> QED BY <1>2, <1>3, Shape

(* Type correctness, for every motion, ramp, horizon and run length: every *)
(* sample recorded is one of the running solver's.                         *)
THEOREM TypeCorrect == Spec => []MetricsTypeOK
BY TypeAtStart, TypeKept, PTL DEF Spec

-----------------------------------------------------------------------------
(* The episodes.  One under way in the run and not in the tally has been   *)
(* counted nowhere yet, one under way in the tally alone was cut short by  *)
(* a sample that was lost.                                                 *)

Intervening == interventions # <<>> /\ interventions[Len(interventions)]

EpisodesInv ==
  /\ tally.samples <= TrueSamples /\ TrueSamples <= tally.samples + lost
  /\ tally.episodes + (IF Intervening /\ ~tally.was THEN 1 ELSE 0) <= TrueEpisodes
  /\ TrueEpisodes + (IF tally.was /\ ~Intervening THEN 1 ELSE 0) <= tally.episodes + lost

\* A set of positions of a sequence, and the same with one more position.
LEMMA OneMore ==
  ASSUME NEW n \in Nat, NEW S \in SUBSET (1 .. n), NEW T, NEW more \in BOOLEAN,
         T = IF more THEN S \cup {n + 1} ELSE S
  PROVE  Cardinality(S) \in Nat
         /\ Cardinality(T) = Cardinality(S) + (IF more THEN 1 ELSE 0)
<1>1. IsFiniteSet(1 .. n) BY FS_Interval
<1>2. IsFiniteSet(S) BY <1>1, FS_Subset
<1>3. Cardinality(S) \in Nat BY <1>2, FS_CardinalityType
<1>4. n + 1 \notin S OBVIOUS
<1>5. Cardinality(S \cup {n + 1}) = Cardinality(S) + 1 BY <1>2, <1>4, FS_AddElement
<1> QED BY <1>3, <1>5

\* What one more sample adds to the run's own counts.
LEMMA CountsGrow ==
  ASSUME MetricsTypeOK, NEW x \in BOOLEAN, interventions' = Append(interventions, x)
  PROVE  /\ TrueSamples \in Nat /\ TrueEpisodes \in Nat
         /\ TrueSamples' = TrueSamples + (IF x THEN 1 ELSE 0)
         /\ TrueEpisodes' = TrueEpisodes + (IF x /\ ~Intervening THEN 1 ELSE 0)
         /\ Intervening' = x
<1>1. interventions \in Seq(BOOLEAN) BY DEF MetricsTypeOK
<1>len. PICK n \in Nat : n = Len(interventions) BY <1>1, LenProperties
<1>2. n \in Nat /\ DOMAIN interventions = 1 .. n BY <1>len, <1>1, LenProperties
<1>3. /\ interventions' \in Seq(BOOLEAN) /\ Len(interventions') = n + 1
      /\ interventions' # <<>>
      /\ \A i \in 1 .. n : interventions'[i] = interventions[i]
      /\ interventions'[n + 1] = x
  <2>1. /\ Append(interventions, x) \in Seq(BOOLEAN) /\ Append(interventions, x) # <<>>
        /\ Len(Append(interventions, x)) = Len(interventions) + 1
        /\ \A i \in 1 .. Len(interventions) : Append(interventions, x)[i] = interventions[i]
        /\ Append(interventions, x)[Len(interventions) + 1] = x
    BY <1>1, AppendProperties, x \in BOOLEAN
  <2> QED BY <1>len, <2>1, Zenon
<1>4. DOMAIN interventions' = 1 .. (n + 1) BY <1>3, LenProperties
<1>5. n = 0 <=> interventions = <<>> BY <1>len, <1>1, EmptySeq
<1>6. Intervening' = x BY <1>3 DEF Intervening
<1>7. TrueSamples \in Nat /\ TrueSamples' = TrueSamples + (IF x THEN 1 ELSE 0)
  <2> DEFINE S == {i \in DOMAIN interventions : interventions[i]}
             T == {i \in DOMAIN interventions' : interventions'[i]}
  <2>1. S \in SUBSET (1 .. n) BY <1>2
  <2>2. T = IF x THEN S \cup {n + 1} ELSE S
    BY <1>2, <1>3, <1>4
  <2> HIDE DEF S, T
  <2>3. Cardinality(S) \in Nat /\ Cardinality(T) = Cardinality(S) + (IF x THEN 1 ELSE 0)
    BY <1>2, <2>1, <2>2, OneMore
  <2> QED BY <2>3 DEF TrueSamples, S, T
<1>8. TrueEpisodes \in Nat
      /\ TrueEpisodes' = TrueEpisodes + (IF x /\ ~Intervening THEN 1 ELSE 0)
  <2> DEFINE S == {i \in DOMAIN interventions : Starts(i)}
             T == {i \in DOMAIN interventions' : Starts(i)'}
  <2>1. S \in SUBSET (1 .. n) BY <1>2
  <2>2. \A i \in 1 .. n : Starts(i)' <=> Starts(i)
    BY <1>2, <1>3 DEF Starts
  <2>3. Starts(n + 1)' <=> x /\ ~Intervening
    <3>1. Starts(n + 1)' <=> x /\ (n > 0 => ~interventions'[n])
      <4>1. n + 1 > 1 <=> n > 0 BY <1>2
      <4>2. (n + 1) - 1 = n BY <1>2
      <4> QED BY <1>3, <4>1, <4>2, Zenon DEF Starts
    <3>2. Intervening <=> n > 0 /\ interventions[n]
      <4>1. n > 0 <=> interventions # <<>> BY <1>2, <1>5
      <4> QED BY <1>len, <4>1, Zenon DEF Intervening
    <3>3. n > 0 => interventions'[n] = interventions[n] BY <1>2, <1>3
    <3> QED BY <3>1, <3>2, <3>3, Zenon
  <2>4. T = IF x /\ ~Intervening THEN S \cup {n + 1} ELSE S
    <3>1. \A i : i \in 1 .. (n + 1) <=> i \in 1 .. n \/ i = n + 1 BY <1>2
    <3>2. \A i : i \in T <=> i \in 1 .. (n + 1) /\ Starts(i)' BY <1>4
    <3>3. \A i : i \in S <=> i \in 1 .. n /\ Starts(i) BY <1>2
    <3> HIDE DEF S, T
    <3>4. CASE x /\ ~Intervening
      <4>1. \A i : i \in T <=> i \in S \/ i = n + 1
        BY <2>2, <2>3, <3>1, <3>2, <3>3, <3>4, Zenon
      <4> QED BY <3>4, <4>1
    <3>5. CASE ~(x /\ ~Intervening)
      <4>1. \A i : i \in T <=> i \in S
        BY <2>2, <2>3, <3>1, <3>2, <3>3, <3>5, Zenon
      <4> QED BY <3>5, <4>1
    <3> QED BY <3>4, <3>5
  <2> HIDE DEF S, T
  <2>5. (x /\ ~Intervening) \in BOOLEAN OBVIOUS
  <2>6. Cardinality(S) \in Nat
        /\ Cardinality(T) = Cardinality(S) + (IF x /\ ~Intervening THEN 1 ELSE 0)
    BY <1>2, <2>1, <2>4, <2>5, OneMore
  <2> QED BY <2>6 DEF TrueEpisodes, S, T
<1> QED BY <1>6, <1>7, <1>8

LEMMA EpisodesAtStart == Init => EpisodesInv
<1> SUFFICES ASSUME Init PROVE EpisodesInv OBVIOUS
<1>1. interventions = <<>> /\ DOMAIN interventions = {} BY DEF Init
<1>2. TrueSamples = 0 /\ TrueEpisodes = 0
  BY <1>1, FS_EmptySet DEF TrueSamples, TrueEpisodes
<1> QED BY <1>1, <1>2 DEF Init, EpisodesInv, Intervening

\* A sample's effect on the bounds: e and E episodes have been counted and been
\* under way, p and w tell whether one is, x whether the sample belongs to one.
LEMMA EpisodeBounds ==
  ASSUME NEW e \in Nat, NEW E \in Nat, NEW l \in Nat,
         NEW p \in BOOLEAN, NEW w \in BOOLEAN, NEW x \in BOOLEAN,
         e + (IF p /\ ~w THEN 1 ELSE 0) <= E,
         E + (IF w /\ ~p THEN 1 ELSE 0) <= e + l
  PROVE  LET more == E + (IF x /\ ~p THEN 1 ELSE 0) IN
         /\ e + (IF x /\ ~w THEN 1 ELSE 0) <= more
         /\ more <= e + (IF x /\ ~w THEN 1 ELSE 0) + l
         /\ more + (IF w /\ ~x THEN 1 ELSE 0) <= e + l + 1
<1>1. CASE p /\ w BY <1>1
<1>2. CASE p /\ ~w BY <1>2
<1>3. CASE ~p /\ w BY <1>3
<1>4. CASE ~p /\ ~w BY <1>4
<1> QED BY <1>1, <1>2, <1>3, <1>4

LEMMA EpisodesKept == MetricsTypeOK /\ EpisodesInv /\ [Next]_vars => EpisodesInv'
<1> SUFFICES ASSUME MetricsTypeOK, EpisodesInv, [Next]_vars PROVE EpisodesInv'
  OBVIOUS
<1>1. CASE Waits
  BY <1>1 DEF Waits, EpisodesInv, TrueSamples, TrueEpisodes, Starts, Intervening
<1>2. CASE Cycles
  <2>1. PICK s \in Samples : Publish(s) BY <1>2 DEF Cycles
  <2> DEFINE x == Intervenes(s)
  <2>2. x \in BOOLEAN /\ interventions' = Append(interventions, x)
    BY <2>1, SampleFacts DEF Publish
  <2>3. /\ TrueSamples \in Nat /\ TrueEpisodes \in Nat
        /\ TrueSamples' = TrueSamples + (IF x THEN 1 ELSE 0)
        /\ TrueEpisodes' = TrueEpisodes + (IF x /\ ~Intervening THEN 1 ELSE 0)
        /\ Intervening' = x
    BY <2>2, CountsGrow
  <2>4. /\ tally.samples \in Nat /\ tally.episodes \in Nat /\ tally.was \in BOOLEAN
        /\ lost \in Nat
    BY DEF MetricsTypeOK, Tallies
  <2>5. Intervening \in BOOLEAN
    BY ElementOfSeq, EmptySeq, LenProperties DEF Intervening, MetricsTypeOK
  <2> HIDE DEF x
  <2> DEFINE e == tally.episodes
             w == tally.was
             counted == e + (IF x /\ ~w THEN 1 ELSE 0)
             recorded == tally.samples + (IF x THEN 1 ELSE 0)
  <2>6. /\ counted <= TrueEpisodes' /\ TrueEpisodes' <= counted + lost
        /\ TrueEpisodes' + (IF w /\ ~x THEN 1 ELSE 0) <= e + lost + 1
    <3>1. /\ e + (IF Intervening /\ ~w THEN 1 ELSE 0) <= TrueEpisodes
          /\ TrueEpisodes + (IF w /\ ~Intervening THEN 1 ELSE 0) <= e + lost
          /\ e \in Nat /\ w \in BOOLEAN
      BY <2>4 DEF EpisodesInv
    <3> HIDE DEF e, w
    <3> QED BY <2>2, <2>3, <2>4, <2>5, <3>1, EpisodeBounds
  <2>7. recorded <= TrueSamples' /\ TrueSamples' <= recorded + lost
    BY <2>2, <2>3, <2>4 DEF EpisodesInv
  <2>8. CASE tally' = Count(tally, s) /\ UNCHANGED lost
    <3>1. tally'.samples = recorded /\ tally'.episodes = counted /\ tally'.was = x
      BY <2>8, CountFacts DEF x
    <3>2. (IF Intervening' /\ ~tally'.was THEN 1 ELSE 0) = 0
          /\ (IF tally'.was /\ ~Intervening' THEN 1 ELSE 0) = 0
      BY <2>3, <3>1
    <3>3. counted \in Nat /\ TrueEpisodes' \in Nat BY <2>3, <2>4
    <3> HIDE DEF counted, recorded
    <3> QED BY <2>6, <2>7, <2>8, <3>1, <3>2, <3>3 DEF EpisodesInv
  <2>9. CASE lost' = lost + 1 /\ UNCHANGED tally
    <3>1. TrueSamples' <= tally.samples + lost' /\ tally.samples <= TrueSamples'
      BY <2>3, <2>4, <2>9 DEF EpisodesInv
    <3>2. e + (IF x /\ ~w THEN 1 ELSE 0) <= TrueEpisodes'
          /\ TrueEpisodes' + (IF w /\ ~x THEN 1 ELSE 0) <= e + lost'
      BY <2>4, <2>6, <2>9
    <3>3. Intervening' = x /\ tally'.episodes = e /\ tally'.was = w BY <2>3, <2>9
    <3> HIDE DEF e, w
    <3> QED BY <2>9, <3>1, <3>2, <3>3 DEF EpisodesInv
  <2> QED BY <2>1, <2>8, <2>9 DEF Publish
<1> QED BY <1>1, <1>2, Shape

(* compute_metrics.py's counts of intervening samples and of episodes are  *)
(* the run's, or at most the number of lost samples below them.            *)
THEOREM EpisodesCorrect == Spec => []EpisodesAreReal
<1>1. MetricsTypeOK /\ EpisodesInv => EpisodesAreReal
  <2> SUFFICES ASSUME MetricsTypeOK, EpisodesInv PROVE EpisodesAreReal OBVIOUS
  <2>1. TrueEpisodes \in Nat
    <3>1. IsFiniteSet(DOMAIN interventions)
      BY LenProperties, FS_Interval DEF MetricsTypeOK
    <3>2. IsFiniteSet({i \in DOMAIN interventions : Starts(i)}) BY <3>1, FS_Subset
    <3> QED BY <3>2, FS_CardinalityType DEF TrueEpisodes
  <2>2. tally.episodes \in Nat /\ lost \in Nat BY DEF MetricsTypeOK, Tallies
  <2> QED BY <2>1, <2>2 DEF EpisodesInv, EpisodesAreReal
<1> QED BY TypeAtStart, TypeKept, EpisodesAtStart, EpisodesKept, <1>1, PTL DEF Spec

-----------------------------------------------------------------------------
(* The least margin. *)

LEMMA NumbersType ==
  ASSUME MetricsTypeOK
  PROVE  Numbers \subseteq Int
<1> SUFFICES ASSUME NEW i \in DOMAIN bag, IsNumber(MarginOf(bag[i]))
             PROVE  MarginOf(bag[i]) \in Int
  BY DEF Numbers
<1>1. bag[i] \in Samples BY LenProperties, ElementOfSeq DEF MetricsTypeOK
<1> QED BY <1>1, SampleFacts DEF IsNumber

LEMMA NumbersGrow ==
  ASSUME MetricsTypeOK, NEW s \in Samples, bag' = Append(bag, s), controller' = controller
  PROVE  /\ Numbers' = IF IsNumber(MarginOf(s)) THEN Numbers \cup {MarginOf(s)} ELSE Numbers
         /\ MarginOf(bag[1])' = IF bag = <<>> THEN MarginOf(s) ELSE MarginOf(bag[1])
         /\ bag' # <<>>
<1>1. bag \in Seq(Samples) BY DEF MetricsTypeOK
<1>len. PICK n \in Nat : n = Len(bag) BY <1>1, LenProperties
<1>2. DOMAIN bag = 1 .. n /\ (n = 0 <=> bag = <<>>)
  BY <1>len, <1>1, LenProperties, EmptySeq
<1>3. /\ bag' \in Seq(Samples) /\ Len(bag') = n + 1 /\ bag' # <<>>
      /\ \A i \in 1 .. n : bag'[i] = bag[i]
      /\ bag'[n + 1] = s
  BY <1>len, <1>1, AppendProperties
<1>4. DOMAIN bag' = 1 .. (n + 1) BY <1>3, LenProperties
<1>5. \A r : MarginOf(r)' = MarginOf(r) BY DEF MarginOf
<1>6. Numbers' = IF IsNumber(MarginOf(s)) THEN Numbers \cup {MarginOf(s)} ELSE Numbers
  <2>1. \A x : x \in Numbers <=> IsNumber(x) /\ \E i \in 1 .. n : x = MarginOf(bag[i])
    BY <1>2 DEF Numbers
  <2>2. \A x : x \in Numbers' <=> IsNumber(x) /\ \E i \in 1 .. (n + 1) : x = MarginOf(bag'[i])
    BY <1>4, <1>5 DEF Numbers, MarginOf, IsNumber
  <2>3. \A i : i \in 1 .. (n + 1) <=> i \in 1 .. n \/ i = n + 1 OBVIOUS
  <2>4. \A x : x \in Numbers' <=> x \in Numbers \/ (IsNumber(x) /\ x = MarginOf(s))
    <3>1. ASSUME NEW x
          PROVE  (\E i \in 1 .. (n + 1) : x = MarginOf(bag'[i]))
                   <=> (\E i \in 1 .. n : x = MarginOf(bag[i])) \/ x = MarginOf(s)
      <4>1. n + 1 \in 1 .. (n + 1) OBVIOUS
      <4> QED BY <1>3, <2>3, <4>1, Zenon
    <3> QED BY <2>1, <2>2, <3>1, Zenon
  <2>5. CASE IsNumber(MarginOf(s)) BY <2>4, <2>5
  <2>6. CASE ~IsNumber(MarginOf(s))
    <3>1. \A x : x \in Numbers' <=> x \in Numbers BY <2>4, <2>6, Zenon
    <3> QED BY <2>6, <3>1
  <2> QED BY <2>5, <2>6
<1>7. MarginOf(bag[1])' = IF bag = <<>> THEN MarginOf(s) ELSE MarginOf(bag[1])
  BY <1>2, <1>3, <1>5 DEF MarginOf
<1> QED BY <1>3, <1>6, <1>7

LEMMA MarginAtStart == Init => MinMarginHonest
BY DEF Init, MinMarginHonest, Numbers

LEMMA MarginKept == MetricsTypeOK /\ MinMarginHonest /\ [Next]_vars => MinMarginHonest'
<1> SUFFICES ASSUME MetricsTypeOK, MinMarginHonest, [Next]_vars PROVE MinMarginHonest'
  OBVIOUS
<1>1. CASE UNCHANGED <<controller, bag, tally>>
  BY <1>1 DEF MinMarginHonest, Numbers, MarginOf
<1>2. ASSUME NEW s \in Samples, bag' = Append(bag, s), tally' = Count(tally, s),
             controller' = controller
      PROVE  MinMarginHonest'
  <2> DEFINE x == MarginOf(s)
  <2>1. /\ Numbers' = IF IsNumber(x) THEN Numbers \cup {x} ELSE Numbers
        /\ MarginOf(bag[1])' = IF bag = <<>> THEN x ELSE MarginOf(bag[1])
        /\ bag' # <<>>
    BY <1>2, NumbersGrow
  <2>2. tally'.least = IF HasMargin(s) THEN PythonMin(tally.least, x) ELSE tally.least
    BY <1>2, CountFacts
  <2>3. /\ x \in Int \cup {NaN} /\ Numbers \subseteq Int
        /\ tally.least \in Int \cup {NaN, None}
    BY SampleFacts, NumbersType DEF MetricsTypeOK, Tallies
  <2>4. /\ controller # "b3" => HasMargin(s)
        /\ controller = "b3" => (HasMargin(s) <=> IsNumber(x))
        /\ controller \in {"b2", "b3"}
    BY DEF HasMargin, MarginOf, MetricsTypeOK
  <2> HIDE DEF x
  <2>5. IsNumber(x) <=> x \in Int BY <2>3 DEF IsNumber
  <2>6. CASE tally.least \in Numbers /\ \A y \in Numbers : tally.least <= y
    <3>1. tally.least \in Int BY <2>3, <2>6
    <3>2. PythonMin(tally.least, x) = IF IsNumber(x) /\ x < tally.least THEN x ELSE tally.least
      BY <3>1 DEF PythonMin, LessThan, IsNumber
    <3>3. CASE IsNumber(x)
      <4>1. tally'.least = IF x < tally.least THEN x ELSE tally.least
        BY <2>2, <2>4, <3>2, <3>3
      <4>2. Numbers' = Numbers \cup {x} BY <2>1, <3>3
      <4> QED BY <2>3, <2>5, <2>6, <3>1, <3>3, <4>1, <4>2 DEF MinMarginHonest
    <3>4. CASE ~IsNumber(x)
      <4>1. tally'.least = tally.least /\ Numbers' = Numbers BY <2>1, <2>2, <3>2, <3>4
      <4> QED BY <2>6, <4>1 DEF MinMarginHonest
    <3> QED BY <3>3, <3>4
  <2>7. CASE tally.least = NaN /\ controller = "b2" /\ bag # <<>> /\ MarginOf(bag[1]) = NaN
    <3>1. MarginOf(bag[1])' = NaN BY <2>1, <2>7
    <3>2. PythonMin(tally.least, x) = NaN BY <2>7 DEF PythonMin, LessThan, IsNumber
    <3>3. tally'.least = NaN BY <2>2, <2>7, <3>2
    <3> QED BY <1>2, <2>1, <2>7, <3>1, <3>3 DEF MinMarginHonest
  <2>8. CASE tally.least = None /\ Numbers = {} /\ (controller = "b2" => bag = <<>>)
    <3>1. PythonMin(tally.least, x) = x BY <2>8 DEF PythonMin
    <3>2. CASE IsNumber(x)
      <4>1. tally'.least = x /\ Numbers' = {x} BY <2>1, <2>2, <2>4, <2>8, <3>1, <3>2
      <4> QED BY <2>5, <3>2, <4>1 DEF MinMarginHonest
    <3>3. CASE ~IsNumber(x) /\ controller = "b3"
      BY <1>2, <2>1, <2>2, <2>4, <2>8, <3>3 DEF MinMarginHonest
    <3>4. CASE ~IsNumber(x) /\ controller = "b2"
      <4>1. x = NaN BY <2>3, <2>5, <3>4
      <4> QED BY <1>2, <2>1, <2>2, <2>4, <2>8, <3>1, <3>4, <4>1 DEF MinMarginHonest
    <3> QED BY <2>4, <3>2, <3>3, <3>4
  <2> QED BY <2>6, <2>7, <2>8 DEF MinMarginHonest
<1>3. Waits => UNCHANGED <<controller, bag, tally>> BY DEF Waits
<1>4. CASE Cycles
  <2>1. PICK s \in Samples : Publish(s) BY <1>4 DEF Cycles
  <2>2. controller' = controller BY <1>4 DEF Cycles
  <2> QED BY <1>1, <1>2, <2>1, <2>2 DEF Publish
<1> QED BY <1>1, <1>3, <1>4, Shape

(* The least margin compute_metrics.py reports is the least recorded one,  *)
(* but for a B2 whose first sample had none.                               *)
THEOREM MinMarginCorrect == Spec => []MinMarginHonest
BY TypeAtStart, TypeKept, MarginAtStart, MarginKept, PTL DEF Spec

-----------------------------------------------------------------------------
(* The two metrics.  B3 brakes only where it intervenes, so that a cycle   *)
(* without a margin follows one that was counted.                          *)

AgreeInv ==
  lost = 0 =>
    IF controller = "b3"
      THEN /\ tally.samples > 0 <=> LessThan(tally.least, MSafe)
           /\ braked => tally.samples > 0
      ELSE tally.samples > 0 =>
             tally.least = NaN \/ (IsNumber(tally.least) /\ tally.least < 0)

LEMMA AgreeAtStart == Init => AgreeInv
BY DEF Init, AgreeInv, LessThan, IsNumber

LEMMA AgreeKept == MetricsTypeOK /\ MinMarginHonest /\ AgreeInv /\ [Next]_vars => AgreeInv'
<1> SUFFICES ASSUME MetricsTypeOK, MinMarginHonest, AgreeInv, [Next]_vars, lost' = 0
             PROVE  AgreeInv'
  BY DEF AgreeInv
<1>1. CASE Waits BY <1>1 DEF Waits, AgreeInv, LessThan, IsNumber
<1>2. CASE Cycles
  <2>1. PICK s \in Samples : Publish(s) /\ Genuine(s) BY <1>2 DEF Cycles
  <2>2. lost \in Nat /\ controller' = controller /\ controller \in {"b2", "b3"}
    BY <1>2 DEF Cycles, MetricsTypeOK
  <2>3. lost = 0 /\ tally' = Count(tally, s) BY <2>1, <2>2 DEF Publish
  <2> DEFINE x == MarginOf(s)
  <2>4. /\ tally'.samples = tally.samples + (IF Intervenes(s) THEN 1 ELSE 0)
        /\ tally'.least = IF HasMargin(s) THEN PythonMin(tally.least, x) ELSE tally.least
    BY <2>3, CountFacts
  <2>5. /\ x \in Int \cup {NaN} /\ Intervenes(s) \in BOOLEAN
        /\ tally.samples \in Nat /\ tally.least \in Int \cup {NaN, None}
    BY SampleFacts DEF MetricsTypeOK, Tallies
  <2>6. tally'.samples > 0 <=> tally.samples > 0 \/ Intervenes(s) BY <2>4, <2>5
  <2>7. CASE controller = "b3"
    <3>1. /\ tally.samples > 0 <=> LessThan(tally.least, MSafe)
          /\ braked => tally.samples > 0
      BY <2>3, <2>7 DEF AgreeInv
    <3>2. /\ IsNumber(x) => (Intervenes(s) <=> x < MSafe)
          /\ ~IsNumber(x) => braked
          /\ braked' => Intervenes(s)
          /\ HasMargin(s) <=> IsNumber(x)
      BY <2>1, <2>7 DEF Genuine, Intervenes, MarginOf, HasMargin
    <3>3. tally.least \in Int \cup {None}
      BY <2>7, NumbersType DEF MinMarginHonest
    <3> HIDE DEF x
    <3>4. CASE IsNumber(x)
      <4>1. x \in Int BY <2>5, <3>4 DEF IsNumber
      <4>2. tally'.least = PythonMin(tally.least, x) BY <2>4, <3>2, <3>4
      <4>3. LessThan(tally'.least, MSafe) <=> LessThan(tally.least, MSafe) \/ x < MSafe
        BY <3>3, <4>1, <4>2 DEF PythonMin, LessThan, IsNumber
      <4> QED BY <2>2, <2>6, <2>7, <3>1, <3>2, <3>4, <4>3 DEF AgreeInv, LessThan, IsNumber
    <3>5. CASE ~IsNumber(x)
      <4>1. tally'.least = tally.least /\ tally.samples > 0 BY <2>4, <3>1, <3>2, <3>5
      <4> QED BY <2>2, <2>6, <2>7, <3>1, <4>1 DEF AgreeInv, LessThan, IsNumber
    <3> QED BY <3>4, <3>5
  <2>8. CASE controller = "b2"
    <3>1. tally.samples > 0 => tally.least = NaN \/ (IsNumber(tally.least) /\ tally.least < 0)
      BY <2>3, <2>8 DEF AgreeInv
    <3>2. Intervenes(s) => IsNumber(x) /\ x < 0
      BY <2>1, <2>8 DEF Genuine, Intervenes, MarginOf
    <3>3. tally'.least = PythonMin(tally.least, x) BY <2>4, <2>8 DEF HasMargin
    <3> HIDE DEF x
    <3>4. CASE Intervenes(s)
      <4>1. x \in Int /\ x < 0 BY <2>5, <3>2, <3>4 DEF IsNumber
      <4>2. tally'.least = NaN \/ (IsNumber(tally'.least) /\ tally'.least < 0)
        BY <2>5, <3>3, <4>1 DEF PythonMin, LessThan, IsNumber
      <4> QED BY <2>2, <2>8, <4>2 DEF AgreeInv, IsNumber
    <3>5. CASE ~Intervenes(s)
      <4>1. tally.samples > 0 =>
              tally'.least = NaN \/ (IsNumber(tally'.least) /\ tally'.least < 0)
        BY <2>5, <3>1, <3>3 DEF PythonMin, LessThan, IsNumber
      <4> QED BY <2>2, <2>6, <2>8, <3>5, <4>1 DEF AgreeInv, IsNumber
    <3> QED BY <3>4, <3>5
  <2> QED BY <2>2, <2>7, <2>8
<1> QED BY <1>1, <1>2, Shape

(* Of a run recorded whole, the count of interventions and the least       *)
(* margin tell the same.                                                   *)
THEOREM AgreeCorrect == Spec => []MetricsAgree
<1>1. AgreeInv => MetricsAgree BY DEF AgreeInv, MetricsAgree, IsNumber
<1> QED BY TypeAtStart, TypeKept, MarginAtStart, MarginKept, AgreeAtStart, AgreeKept,
           <1>1, PTL DEF Spec

-----------------------------------------------------------------------------
(* The predictions.  What a sample says of the force stays true when the   *)
(* force starts, since nothing predicted before is past the onset.         *)

PredictedInv ==
  controller = "b3" /\ OnsetPastHorizon =>
    \A i \in DOMAIN bag : IsNumber(bag[i].m_phys) => Explained(bag[i])

LEMMA PullKept ==
  ASSUME MetricsTypeOK, Waits \/ Cycles, NEW t \in Int, t <= now + Onset
  PROVE  Pull(t)' = Pull(t)
<1>1. CASE force_t0' = force_t0 BY <1>1 DEF Pull, Started
<1>2. CASE force_t0' # force_t0
  <2>1. Waits /\ ~Started /\ force_t0' = now BY <1>2 DEF Waits, Cycles
  <2>2. now \in Nat /\ Started' BY <2>1 DEF MetricsTypeOK, Started, NotYet
  <2>3. Sample(t - now) = 0 BY <2>2, NoPullBefore
  <2> QED BY <2>1, <2>2, <2>3 DEF Pull, Sample, Ramp
<1> QED BY <1>1, <1>2

LEMMA ExplainedKept ==
  ASSUME MetricsTypeOK, Waits \/ Cycles, OnsetPastHorizon, controller = "b3",
         NEW s \in Samples, Explained(s)
  PROVE  Explained(s)'
<1>1. /\ s.stamp \in Nat /\ s.binding_step \in Steps /\ s.stamp <= now
      /\ s.at.target \in Nat \ {0} /\ s.at.measured \in Nat \ {0}
  BY DEF Samples, Explained
<1>2. now \in Nat /\ now' \in Nat /\ now <= now' /\ motion' = motion
  BY DEF Waits, Cycles, MetricsTypeOK
<1>3. PICK due \in Int : due = (s.binding_step + 1) * Dt /\ due <= Onset /\ Dt <= Onset
  <2>1. (s.binding_step + 1) * Dt \in Int /\ (s.binding_step + 1) * Dt <= HorizonSteps * Dt
        /\ Dt <= (s.binding_step + 1) * Dt
    BY <1>1, DueWithinHorizon
  <2>2. HorizonSteps * Dt \in Int OBVIOUS
  <2> QED BY <2>1, <2>2 DEF OnsetPastHorizon
<1>4. Pull(s.stamp + due)' = Pull(s.stamp + due) /\ Pull(s.stamp + Dt)' = Pull(s.stamp + Dt)
  <2>1. /\ s.stamp + due \in Int /\ s.stamp + due <= now + Onset
        /\ s.stamp + Dt \in Int /\ s.stamp + Dt <= now + Onset
    BY <1>1, <1>2, <1>3
  <2> QED BY <2>1, PullKept
<1>5. \A v, w : TorqueAt(v, w)' = TorqueAt(v, w) BY <1>2 DEF TorqueAt, Waypoint
<1>6. s.stamp <= now' BY <1>1, <1>2
<1> DEFINE w == s.at.target + s.binding_step
<1>7. s.m_phys = Margin(TorqueAt(w, w) - Pull(s.stamp + due))
      /\ s.m_phys_observed = Margin(TorqueAt(s.at.measured, s.at.target) - Pull(s.stamp + Dt))
  BY <1>3 DEF Explained
<1> QED BY <1>1, <1>3, <1>4, <1>5, <1>6, <1>7 DEF Explained, Margin, Steps

LEMMA PredictedAtStart == Init => PredictedInv
BY DEF Init, PredictedInv

LEMMA PredictedKept == MetricsTypeOK /\ PredictedInv /\ [Next]_vars => PredictedInv'
<1> SUFFICES ASSUME MetricsTypeOK, PredictedInv, [Next]_vars, controller' = "b3",
                    OnsetPastHorizon, NEW i \in DOMAIN bag', IsNumber(bag'[i].m_phys)
             PROVE  Explained(bag[i])'
  BY DEF PredictedInv, OnsetPastHorizon, IsNumber
<1>1. Waits \/ Cycles BY Shape
<1>2. controller = "b3" BY <1>1 DEF Waits, Cycles
<1>3. bag \in Seq(Samples) BY DEF MetricsTypeOK
<1>4. ASSUME i \in DOMAIN bag, bag'[i] = bag[i] PROVE Explained(bag[i])'
  <2>1. bag[i] \in Samples BY <1>3, <1>4, LenProperties, ElementOfSeq
  <2>2. PICK s \in Samples : s = bag[i] BY <2>1
  <2>3. Explained(s) BY <1>2, <1>4, <2>2 DEF PredictedInv
  <2>4. Explained(s)' BY <1>1, <1>2, <2>3, ExplainedKept
  <2> QED BY <1>4, <2>2, <2>4 DEF Explained
<1>5. CASE UNCHANGED bag BY <1>4, <1>5
<1>6. CASE \E s \in Samples : bag' = Append(bag, s) /\ Genuine(s)
  <2>1. PICK s \in Samples : bag' = Append(bag, s) /\ Genuine(s) BY <1>6
  <2>2. CASE i \in DOMAIN bag
    <3>1. bag'[i] = bag[i] BY <1>3, <2>1, <2>2, AppendProperties, LenProperties
    <3> QED BY <1>4, <2>2, <3>1
  <2>3. CASE i \notin DOMAIN bag
    <3>1. bag'[i] = s
      <4>1. Len(bag) \in Nat /\ DOMAIN bag = 1 .. Len(bag) BY <1>3, LenProperties
      <4>2. bag' \in Seq(Samples) /\ Len(bag') = Len(bag) + 1 /\ bag'[Len(bag) + 1] = s
        BY <1>3, <2>1, AppendProperties
      <4>3. DOMAIN bag' = 1 .. (Len(bag) + 1) BY <4>2, LenProperties
      <4> QED BY <2>3, <4>1, <4>2, <4>3
    <3>2. Explained(s) BY <1>2, <2>1, <3>1 DEF Genuine
    <3>3. Explained(s)' BY <1>1, <1>2, <3>2, ExplainedKept
    <3> QED BY <3>1, <3>3 DEF Explained
  <2> QED BY <2>2, <2>3
<1>7. UNCHANGED bag \/ \E s \in Samples : bag' = Append(bag, s) /\ Genuine(s)
  BY <1>1 DEF Waits, Cycles, Publish
<1> QED BY <1>5, <1>6, <1>7

\* The ramp is no steeper than its slope.
LEMMA RampSteps ==
  ASSUME NEW a \in Int, NEW b \in Int
  PROVE  Magnitude(Ramp(a) - Ramp(b)) <= Magnitude(a - b)
BY DEF Ramp, Least, Magnitude

LEMMA MagnitudeOfProduct ==
  ASSUME NEW a \in Int, NEW b \in Int
  PROVE  Magnitude(a * b) = Magnitude(a) * Magnitude(b)
<1>1. a * b \in Int /\ (-a) * b = -(a * b) /\ a * (-b) = -(a * b) /\ (-a) * (-b) = a * b
  OBVIOUS
<1>2. CASE a >= 0 /\ b >= 0
  <2>1. a * b >= 0 BY <1>2
  <2> QED BY <1>2, <2>1 DEF Magnitude
<1>3. CASE a >= 0 /\ b < 0
  <2>1. a * (-b) >= 0 BY <1>3
  <2> QED BY <1>1, <1>3, <2>1 DEF Magnitude
<1>4. CASE a < 0 /\ b >= 0
  <2>1. (-a) * b >= 0 BY <1>4
  <2> QED BY <1>1, <1>4, <2>1 DEF Magnitude
<1>5. CASE a < 0 /\ b < 0
  <2>1. (-a) * (-b) >= 0 BY <1>5
  <2> QED BY <1>1, <1>5, <2>1 DEF Magnitude
<1> QED BY <1>2, <1>3, <1>4, <1>5

\* Twice what the force changes between two moments that are aligned.
LEMMA PullSteps ==
  ASSUME MetricsTypeOK, NEW a \in Int, NEW b \in Int, 2 * Magnitude(a - b) <= Dt
  PROVE  /\ Pull(a) \in Int /\ Pull(b) \in Int
         /\ 2 * Magnitude(Pull(a) - Pull(b)) <= Magnitude(Slope) * Dt
<1>1. Magnitude(Slope) \in Nat /\ Magnitude(Slope) * Dt \in Nat
  BY DEF Magnitude
<1>2. CASE ~Started BY <1>1, <1>2 DEF Pull, Magnitude
<1>3. CASE Started
  <2>1. force_t0 \in Int BY DEF MetricsTypeOK, NotYet
  <2> DEFINE p == Ramp(a - force_t0)
             q == Ramp(b - force_t0)
             d == Magnitude(p - q)
  <2>2. p \in Int /\ q \in Int
    <3>1. a - force_t0 \in Int /\ b - force_t0 \in Int BY <2>1
    <3> QED BY <3>1, RampType
  <2>3. d <= Magnitude(a - b)
    <3>1. (a - force_t0) - (b - force_t0) = a - b BY <2>1
    <3>2. a - force_t0 \in Int /\ b - force_t0 \in Int BY <2>1
    <3> QED BY <3>1, <3>2, RampSteps
  <2>4. Pull(a) = Slope * p /\ Pull(b) = Slope * q BY <1>3 DEF Pull, Sample
  <2> HIDE DEF p, q
  <2>5. d \in Nat /\ 2 * d <= Dt
    BY <2>2, <2>3 DEF Magnitude
  <2>6. Magnitude(Pull(a) - Pull(b)) = Magnitude(Slope) * d
    <3>1. Slope * p - Slope * q = Slope * (p - q) /\ p - q \in Int BY <2>2
    <3> QED BY <2>4, <3>1, MagnitudeOfProduct
  <2> HIDE DEF d
  <2>7. 2 * (Magnitude(Slope) * d) <= Magnitude(Slope) * Dt
    <3>1. PICK m \in Nat : m = Magnitude(Slope) BY <1>1
    <3>2. m * (Dt - 2 * d) >= 0 BY <2>5
    <3>3. m * (Dt - 2 * d) = m * Dt - 2 * (m * d) BY <2>5
    <3>4. m * Dt \in Int /\ m * d \in Int BY <2>5
    <3> QED BY <3>1, <3>2, <3>3, <3>4
  <2>8. Pull(a) \in Int /\ Pull(b) \in Int BY <2>2, <2>4
  <2> QED BY <2>6, <2>7, <2>8
<1> QED BY <1>2, <1>3

\* Two margins differ by no more than their torques and their forces do.
LEMMA MarginSteps ==
  ASSUME NEW a \in Int, NEW b \in Int, NEW p \in Int, NEW q \in Int
  PROVE  2 * Magnitude(Margin(a - p) - Margin(b - q))
           <= 2 * Magnitude(a - b) + 2 * Magnitude(p - q)
<1>1. PICK x \in Int, y \in Int : x = a - p /\ y = b - q OBVIOUS
<1>2. Magnitude(x - y) <= Magnitude(a - b) + Magnitude(p - q)
  <2>1. x - y = (a - b) - (p - q) BY <1>1
  <2> QED BY <2>1 DEF Magnitude
<1>3. Magnitude(Margin(x) - Margin(y)) <= Magnitude(x - y)
  <2>1. Margin(x) - Margin(y) = Magnitude(y) - Magnitude(x) BY DEF Margin, Magnitude
  <2> QED BY <2>1 DEF Magnitude
<1>4. Margin(x) - Margin(y) \in Int BY DEF Margin, Magnitude
<1> QED BY <1>1, <1>2, <1>3, <1>4 DEF Magnitude

LEMMA ErrorExplained == MetricsTypeOK /\ PredictedInv => PredictionErrorExplained
<1> SUFFICES ASSUME MetricsTypeOK, PredictedInv, OnsetPastHorizon, NEW pair \in Validated
             PROVE  LET s == bag[pair[1]]
                        o == bag[pair[2]]
                        w == s.at.target + s.binding_step IN
                    2 * Magnitude(o.m_phys_observed - s.m_phys) <=
                      2 * Magnitude(TorqueAt(o.at.measured, o.at.target) - TorqueAt(w, w))
                        + Magnitude(Slope) * Dt
  BY DEF PredictionErrorExplained, OnsetPastHorizon
<1> DEFINE s == bag[pair[1]]
           o == bag[pair[2]]
           w == s.at.target + s.binding_step
<1>1. /\ pair[1] \in Usable /\ pair[2] \in Usable
      /\ Aligned(o, PredictedTime(s))
  BY DEF Validated
<1>2. controller = "b3" /\ motion \in Motions BY <1>1 DEF Usable, MetricsTypeOK
<1>3. s \in Samples /\ o \in Samples
  BY <1>1, LenProperties, ElementOfSeq DEF Usable, MetricsTypeOK
<1>4. Explained(s) /\ Explained(o) BY <1>1, <1>2 DEF Usable, PredictedInv
<1> HIDE DEF s, o
<1>5. /\ s.stamp \in Nat /\ o.stamp \in Nat /\ s.binding_step \in Nat
      /\ w \in Nat \ {0} /\ o.at.target \in Nat \ {0} /\ o.at.measured \in Nat \ {0}
  <2>1. s.binding_step \in Nat BY <1>4 DEF Explained, Steps
  <2>2. s.at.target \in Nat \ {0} BY <1>2, <1>3 DEF Samples
  <2>3. /\ s.stamp \in Nat /\ o.stamp \in Nat
        /\ o.at.target \in Nat \ {0} /\ o.at.measured \in Nat \ {0}
    BY <1>2, <1>3 DEF Samples
  <2> QED BY <2>1, <2>2, <2>3
<1> DEFINE a == TorqueAt(o.at.measured, o.at.target)
           b == TorqueAt(w, w)
           observed == o.stamp + Dt
           predicted == s.stamp + (s.binding_step + 1) * Dt
<1>6. a \in Int /\ b \in Int BY <1>2, <1>5, TorqueType
<1>7. o.m_phys_observed = Margin(a - Pull(observed)) /\ s.m_phys = Margin(b - Pull(predicted))
  BY <1>4 DEF Explained
<1>8. observed \in Int /\ predicted \in Int /\ 2 * Magnitude(observed - predicted) <= Dt
  <2>1. PICK ahead \in Nat : ahead = s.binding_step * Dt BY <1>5
  <2>2. (s.binding_step + 1) * Dt = ahead + Dt BY <1>5, <2>1
  <2>3. observed \in Int /\ predicted \in Int
        /\ observed - predicted = o.stamp - (s.stamp + ahead)
    <3>1. PICK then \in Nat, later \in Nat : then = s.stamp /\ later = o.stamp BY <1>5
    <3>2. observed = later + Dt /\ predicted = then + (ahead + Dt) BY <2>2, <3>1
    <3> HIDE DEF observed, predicted
    <3>3. observed - predicted = later - (then + ahead) BY <3>2
    <3>4. observed \in Int /\ predicted \in Int BY <3>2
    <3> QED BY <3>1, <3>3, <3>4
  <2>4. 2 * Magnitude(o.stamp - (s.stamp + ahead)) <= Dt
    BY <1>1, <2>1 DEF Aligned, Distance, PredictedTime
  <2> QED BY <2>3, <2>4
<1> HIDE DEF a, b, observed, predicted, w
<1>9. /\ Pull(observed) \in Int /\ Pull(predicted) \in Int
      /\ 2 * Magnitude(Pull(observed) - Pull(predicted)) <= Magnitude(Slope) * Dt
  BY <1>8, PullSteps
<1>10. 2 * Magnitude(Margin(a - Pull(observed)) - Margin(b - Pull(predicted)))
         <= 2 * Magnitude(a - b) + 2 * Magnitude(Pull(observed) - Pull(predicted))
  BY <1>6, <1>9, MarginSteps
<1>11. 2 * Magnitude(o.m_phys_observed - s.m_phys)
         <= 2 * Magnitude(a - b) + Magnitude(Slope) * Dt
  <2>1. /\ Magnitude(a - b) \in Int /\ Magnitude(Pull(observed) - Pull(predicted)) \in Int
        /\ Magnitude(Slope) * Dt \in Int
    BY <1>6, <1>9 DEF Magnitude
  <2>2. Magnitude(o.m_phys_observed - s.m_phys) \in Int
    <3>1. o.m_phys_observed \in Int /\ s.m_phys \in Int BY <1>6, <1>7, <1>9, MarginType
    <3> QED BY <3>1 DEF Magnitude
  <2> QED BY <1>7, <1>9, <1>10, <2>1, <2>2
<1> QED BY <1>11 DEF a, b, s, o, w

(* An error validate_prediction.py reports is the arm being elsewhere, and *)
(* what the force changes in the half period two samples may be apart.     *)
THEOREM PredictionCorrect == Spec => []PredictionErrorExplained
BY TypeAtStart, TypeKept, PredictedAtStart, PredictedKept, ErrorExplained, PTL DEF Spec
=============================================================================
