------------------------------ MODULE RunMetrics ------------------------------
(***************************************************************************)
(* What the offline scripts make of the /diagnostics of a run.  A solver   *)
(* publishes one sample per control cycle, the recorder writes those that  *)
(* reach it, compute_metrics.py reads the least margin and the number of   *)
(* interventions off the bag, and validate_prediction.py pairs what B3     *)
(* predicted with what it observed later.  compute_metrics.py goes through *)
(* the bag once, oldest sample first: its loop is run along, an iteration  *)
(* as a sample is recorded, so that "tally" is what it computes from the   *)
(* bag so far.                                                             *)
(*                                                                         *)
(* One joint stands for the arm, and B3's dynamics can always be computed. *)
(* A waypoint needs the torque of its state and the torque of its          *)
(* acceleration; the arm is at the waypoint aimed at or the one before.    *)
(***************************************************************************)
EXTENDS ForceSchedule, Sequences, FiniteSets

CONSTANTS
  Controllers,    \* the solvers that may be running, of "b2" and "b3"
  Dt,             \* the control period
  Gaps,           \* how long after a cycle the next may begin
  HorizonSteps,
  TauMax, DeltaTau, MSafe,
  Motions,        \* sequences of waypoints: [state |-> torque, push |-> torque]
  NaN, None,      \* None: the least margin of no samples
  MaxCycles,      \* bound: cycles of a run
  MaxLost         \* bound: samples that do not reach the recorder

ASSUME CyclesAssumption ==
  /\ Controllers \subseteq {"b2", "b3"}
  /\ Dt \in Nat \ {0} /\ Gaps \subseteq Nat \ {0} /\ HorizonSteps \in Nat \ {0}

ASSUME TorqueAssumption ==
  /\ {TauMax, DeltaTau, MSafe} \subseteq Int
  /\ NaN \notin Int /\ None \notin Int /\ NaN # None
  /\ \A route \in Motions :
       route \in Seq([state : Int, push : Int]) /\ Len(route) >= 2

VARIABLES
  controller,
  motion,
  now,
  force_t0,       \* when the start message came, if it did
  target,         \* the waypoint aimed at in the next cycle
  braked,
  bag,            \* the samples recorded
  interventions,  \* of each sample published, is it an intervention?
  lost,           \* how many of them were not recorded
  tally           \* compute()'s: samples, episodes, was (intervening), least (margin)

vars ==
  <<controller, motion, now, force_t0, target, braked, bag, interventions, lost, tally>>

NotYet == -1
Started == force_t0 # NotYet
ForceTimeNow == IF Started THEN now - force_t0 ELSE 0

Waypoint(w) == motion[Least(w, Len(motion))]

\* What the state of one waypoint needs with the acceleration of another.
TorqueAt(state, push) == Waypoint(state).state + Waypoint(push).push

-----------------------------------------------------------------------------
Margin(torque) == TauMax - Magnitude(torque) - DeltaTau

\* Horizon waypoint j, due j+1 periods from now.
Predicted(j) ==
  Margin(TorqueAt(target + j, target + j) - Sample(ForceTimeNow + (j + 1) * Dt))

Steps == 0 .. HorizonSteps - 1

\* The first of the waypoints with the least margin.
Binds(j) ==
  \A k \in Steps : Predicted(j) <= Predicted(k) /\ (k < j => Predicted(j) < Predicted(k))

\* Plausible bug: under the force of now.
ObservedUnderForceOfNow(measured) ==
  Margin(TorqueAt(measured, target) - Sample(ForceTimeNow))

\* The measured state with the target's acceleration, as a trajectory of one
\* waypoint, which lasts a period.
Observed(measured) ==
  Margin(TorqueAt(measured, target) - Sample(ForceTimeNow + Dt))

\* "at" is where the arm was; no script reads it.
B3Diagnostics(level, m_phys, binding_step, m_phys_observed, measured) ==
  [stamp |-> now, level |-> level, m_phys |-> m_phys, binding_step |-> binding_step,
   m_phys_observed |-> m_phys_observed, at |-> [target |-> target, measured |-> measured]]

\* Plausible bug: only the brake counts.
B3Brakes(s) == s.level = "4"

B3Intervenes(s) == s.level # "0"

B2Diagnostics(margin, intervened) ==
  [stamp |-> now, min_margin_nm |-> margin, intervened |-> intervened]

Intervenes(s) == IF controller = "b3" THEN B3Intervenes(s) ELSE s.intervened

-----------------------------------------------------------------------------
(* compute_metrics.py *)

IsNumber(x) == x \notin {NaN, None}
LessThan(x, y) == IsNumber(x) /\ IsNumber(y) /\ x < y

\* Python's min(), a margin at a time: the first stays unless one is less.
PythonMin(least, margin) ==
  IF least = None \/ LessThan(margin, least) THEN margin ELSE least

MarginOf(s) == IF controller = "b3" THEN s.m_phys ELSE s.min_margin_nm

\* Plausible bug: braked cycles count.
AnyMargin(s) == TRUE

\* Braked cycles have no margin.
HasMargin(s) == controller = "b3" => IsNumber(s.m_phys)

\* Plausible bug: what the sample before was is remembered only while the
\* solver intervenes.
CountKeepingFlag(seen, s) ==
  [samples  |-> seen.samples + (IF Intervenes(s) THEN 1 ELSE 0),
   episodes |-> seen.episodes + (IF Intervenes(s) /\ ~seen.was THEN 1 ELSE 0),
   was      |-> seen.was \/ Intervenes(s),
   least    |-> IF HasMargin(s) THEN PythonMin(seen.least, MarginOf(s)) ELSE seen.least]

Count(seen, s) ==
  [samples  |-> seen.samples + (IF Intervenes(s) THEN 1 ELSE 0),
   episodes |-> seen.episodes + (IF Intervenes(s) /\ ~seen.was THEN 1 ELSE 0),
   was      |-> Intervenes(s),
   least    |-> IF HasMargin(s) THEN PythonMin(seen.least, MarginOf(s)) ELSE seen.least]

-----------------------------------------------------------------------------
Init ==
  /\ controller \in Controllers
  /\ motion \in Motions
  /\ now = 0
  /\ force_t0 = NotYet
  /\ target \in 1 .. 2
  /\ braked = FALSE
  /\ bag = <<>> /\ interventions = <<>> /\ lost = 0
  /\ tally = [samples |-> 0, episodes |-> 0, was |-> FALSE, least |-> None]

ForceStarts ==
  /\ ~Started
  /\ force_t0' = now
  /\ UNCHANGED <<controller, motion, now, target, braked, bag, interventions, lost, tally>>

Publish(s) ==
  /\ interventions' = Append(interventions, Intervenes(s))
  /\ \/ bag' = Append(bag, s) /\ tally' = Count(tally, s) /\ UNCHANGED lost
     \/ lost < MaxLost /\ lost' = lost + 1 /\ UNCHANGED <<bag, tally>>

\* The next cycle may come late, and its target be this one's or the next.
Period ==
  /\ Len(interventions) < MaxCycles
  /\ \E gap \in Gaps : now' = now + gap
  /\ target' \in {target, target + 1}
  /\ target' <= Len(motion)
  /\ UNCHANGED <<controller, motion, force_t0>>

\* Where the arm may be.
Measured == {target, target - 1} \ {0}

\* Level 2 if reshaping restores a tight horizon, Level 4 if not.
CertifiedCycle ==
  /\ controller = "b3" /\ ~braked
  /\ \E measured \in Measured, j \in Steps, level \in {"0", "2", "4"} :
       /\ Binds(j)
       /\ level = "0" <=> Predicted(j) >= MSafe
       /\ Publish(B3Diagnostics(level, Predicted(j), j, Observed(measured), measured))
       /\ braked' = (level = "4")
  /\ Period

\* Once braked there is no certificate.
BrakedCycle ==
  /\ controller = "b3" /\ braked
  /\ \E measured \in Measured : Publish(B3Diagnostics("4", NaN, -1, NaN, measured))
  /\ UNCHANGED braked
  /\ Period

\* The target under the force of now; unknown if the dynamics cannot be
\* computed, and an overload is not always projected.
B2Cycle ==
  /\ controller = "b2"
  /\ LET pull == IF Started THEN Sample(now - force_t0) ELSE 0
         margin == TauMax - Magnitude(TorqueAt(target, target) - pull) IN
     \/ Publish(B2Diagnostics(NaN, FALSE))
     \/ \E intervened \in BOOLEAN :
          /\ intervened => margin < 0
          /\ Publish(B2Diagnostics(margin, intervened))
  /\ UNCHANGED braked
  /\ Period

Next == ForceStarts \/ CertifiedCycle \/ BrakedCycle \/ B2Cycle

Spec == Init /\ [][Next]_vars

-----------------------------------------------------------------------------
(* validate_prediction.py *)

\* The time a prediction is about.
PredictedTime(s) == s.stamp + s.binding_step * Dt

Distance(o, t) == Magnitude(o.stamp - t)

\* B3's samples; those of braked cycles neither predict nor observe.
Usable ==
  {i \in DOMAIN bag :
     controller = "b3" /\ IsNumber(bag[i].m_phys) /\ IsNumber(bag[i].m_phys_observed)}

\* At most half a period off.
Aligned(o, t) == 2 * Distance(o, t) <= Dt

\* For the prediction of sample i, the nearest of the later samples, the first
\* of two as near.
Nearest(i) ==
  LET candidates == {k \in Usable : bag[k].stamp > bag[i].stamp}
      t == PredictedTime(bag[i]) IN
  {k \in candidates : \A n \in candidates :
     /\ Distance(bag[k], t) <= Distance(bag[n], t)
     /\ n < k => Distance(bag[k], t) < Distance(bag[n], t)}

\* The samples a prediction and the observation it is compared with are from.
Validated ==
  {p \in Usable \X Usable :
     /\ bag[p[1]].binding_step > 0
     /\ p[2] \in Nearest(p[1])
     /\ Aligned(bag[p[2]], PredictedTime(bag[p[1]]))}

-----------------------------------------------------------------------------
Starts(i) == interventions[i] /\ (i > 1 => ~interventions[i - 1])
TrueSamples == Cardinality({i \in DOMAIN interventions : interventions[i]})
TrueEpisodes == Cardinality({i \in DOMAIN interventions : Starts(i)})

(***************************************************************************)
(* "Contiguous intervening runs" (compute_metrics.py:243-247): the numbers *)
(* of intervening samples and of episodes are those of the run, and if     *)
(* samples did not reach the recorder they are never larger, although a    *)
(* gap may fall inside an episode, between two, or on one.                 *)
(***************************************************************************)
EpisodesAreReal ==
  /\ tally.samples <= TrueSamples /\ TrueSamples <= tally.samples + lost
  /\ tally.episodes <= TrueEpisodes /\ TrueEpisodes <= tally.episodes + lost

Numbers == {x \in {MarginOf(bag[i]) : i \in DOMAIN bag} : IsNumber(x)}

(***************************************************************************)
(* A least margin that is a number is the least of the run's recorded      *)
(* ones, wherever cycles without a margin stand among them.  It fails to   *)
(* be a number only for B2, if the first cycle recorded had none: a later  *)
(* one has no influence on Python's min().  There is no least margin only  *)
(* if there was none to be the least of.                                   *)
(***************************************************************************)
MinMarginHonest ==
  \/ tally.least \in Numbers /\ \A x \in Numbers : tally.least <= x
  \/ tally.least = NaN /\ controller = "b2" /\ bag # <<>> /\ MarginOf(bag[1]) = NaN
  \/ tally.least = None /\ Numbers = {} /\ (controller = "b2" => bag = <<>>)

(***************************************************************************)
(* The two metrics of a run agree if all of it was recorded: B3 has        *)
(* intervened exactly if its least margin is below m_safe, and B2 only if  *)
(* its own is negative.                                                    *)
(***************************************************************************)
MetricsAgree ==
  lost = 0 =>
    IF controller = "b3" THEN tally.samples > 0 <=> LessThan(tally.least, MSafe)
    ELSE tally.samples > 0 /\ IsNumber(tally.least) => tally.least < 0

(***************************************************************************)
(* What validate_prediction.py reports as a prediction's error is the arm  *)
(* being elsewhere than predicted, and what the force changes within the   *)
(* time the two samples are out of alignment (half a period at most):      *)
(* both evaluate the force a period after the moment they stand for.  The  *)
(* onset is past the horizon, so a force not yet started predicts none.    *)
(***************************************************************************)
PredictionErrorExplained ==
  Onset >= HorizonSteps * Dt =>
    \A p \in Validated :
      LET s == bag[p[1]]
          o == bag[p[2]]
          w == s.at.target + s.binding_step IN
      2 * Magnitude(o.m_phys_observed - s.m_phys) <=
        2 * Magnitude(TorqueAt(o.at.measured, o.at.target) - TorqueAt(w, w))
          + Magnitude(Slope) * Dt
=============================================================================
