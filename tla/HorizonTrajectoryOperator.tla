--------------------- MODULE HorizonTrajectoryOperator ----------------------
(***************************************************************************)
(* HorizonTrajectoryOperator (horizon_trajectory_operator.cpp) as the      *)
(* local planner drives it: segments replace the reference, each control   *)
(* cycle moves the target along it once the robot is near enough or the    *)
(* target has stood still too long, and hands out the horizon ahead of it. *)
(* What a segment's margins do to it before it is tracked is RouteCascade. *)
(*                                                                         *)
(* Durations are in units of which Dt make a control step, so that a       *)
(* route's end need not fall on a step.  Real time is counted in ticks     *)
(* independent of the cycles.                                              *)
(***************************************************************************)
EXTENDS Integers

CONSTANTS
  Dt,            \* b3.dt
  HorizonSteps,  \* b3.horizon_steps
  StallTimeout,  \* b3.progress_stall_timeout_s, in clock ticks
  MaxDuration,   \* bound: the longest route
  MaxSegments    \* bound: segments received

ASSUME OperatorAssumption ==
  /\ Dt \in Nat \ {0}
  /\ HorizonSteps \in Nat \ {0}
  /\ StallTimeout \in Nat \ {0}
  /\ MaxDuration \in Nat
  /\ MaxSegments \in Nat

VARIABLES
  total_duration,    \* getDuration() of reference_trajectory_, Empty without one
  current_duration,  \* where on it the target is
  within_tolerance,  \* was the robot near the target in the last cycle?
  has_stall_start,
  stall_age,         \* now - stall_start_time_, counted up to StallTimeout
  target_age,        \* time since the target last moved, counted likewise
  segments           \* segments received

operator_vars == <<total_duration, current_duration, within_tolerance,
                   has_stall_start, stall_age, target_age, segments>>

Empty == -1

-----------------------------------------------------------------------------
Init ==
  /\ total_duration = Empty
  /\ current_duration = 0
  /\ within_tolerance = FALSE
  /\ has_stall_start = FALSE
  /\ stall_age = 0
  /\ target_age = 0
  /\ segments = 0

\* reset() forgets the route and the target, not the stall clock.
Forget ==
  /\ current_duration' = 0
  /\ UNCHANGED <<has_stall_start, stall_age>>

\* reset() comes first: it clears the reference.
ResetAfterCopy(duration) ==
  /\ segments < MaxSegments
  /\ segments' = segments + 1
  /\ Forget
  /\ total_duration' = Empty
  /\ target_age' = 0
  /\ UNCHANGED within_tolerance

AddTrajectorySegment(duration) ==
  /\ segments < MaxSegments
  /\ segments' = segments + 1
  /\ Forget
  /\ total_duration' = duration
  /\ target_age' = 0
  /\ UNCHANGED within_tolerance

Reset ==
  /\ Forget
  /\ total_duration' = Empty
  /\ target_age' = 0
  /\ UNCHANGED <<within_tolerance, segments>>

\* std::min(current_duration_ + dt_, total_duration).
AdvancedUnclipped == current_duration + Dt
AdvancedWithinRoute ==
  IF current_duration + Dt <= total_duration THEN current_duration + Dt ELSE current_duration
Advanced ==
  IF current_duration + Dt < total_duration THEN current_duration + Dt ELSE total_duration

\* Off the target with route left to cover.
Stalling(within) == ~within /\ current_duration < total_duration

ExpiresAtOnce(within) == Stalling(within) /\ has_stall_start
StallTimeoutExpired(within) ==
  Stalling(within) /\ has_stall_start /\ stall_age >= StallTimeout

\* The age of the stall clock in a cycle that leaves it running.
RestartedStallAge == 0
RunningStallAge == IF has_stall_start THEN stall_age ELSE 0

\* The stall flag once the target has moved.
FlagAfterAdvance == FALSE

\* Without a reference the call reports an unhandled exception instead.
Unhandled == total_duration = Empty

GetLocalTrajectory(within) ==
  /\ ~Unhandled
  /\ within_tolerance' = within
  /\ IF within \/ StallTimeoutExpired(within)
     THEN /\ current_duration' = Advanced
          /\ has_stall_start' = FlagAfterAdvance
          /\ stall_age' = IF FlagAfterAdvance THEN stall_age ELSE 0
          /\ target_age' = IF current_duration' > current_duration THEN 0 ELSE target_age
     ELSE /\ has_stall_start' = Stalling(within)
          /\ stall_age' = IF Stalling(within) THEN RunningStallAge ELSE 0
          /\ UNCHANGED <<current_duration, target_age>>
  /\ UNCHANGED <<total_duration, segments>>

\* The durations the horizon samples, the last of them held past the end.
Horizon(current, total) ==
  { IF current + j * Dt < total THEN current + j * Dt ELSE total : j \in 0 .. HorizonSteps - 1 }

\* getTrajectoryProgress() > 0.995, for a robot near the target or not.
DoneWhenNear(near) == total_duration = Empty \/ near
Done(near) ==
  \/ total_duration = Empty
  \/ current_duration >= total_duration /\ near

Older(age) == IF age < StallTimeout THEN age + 1 ELSE age

ClockTick ==
  /\ target_age' = Older(target_age)
  /\ stall_age' = IF has_stall_start THEN Older(stall_age) ELSE stall_age
  /\ UNCHANGED <<total_duration, current_duration, within_tolerance, has_stall_start, segments>>

ControlCycle == \E within \in BOOLEAN : GetLocalTrajectory(within)

Next ==
  \/ \E duration \in 0 .. MaxDuration : AddTrajectorySegment(duration)
  \/ Reset
  \/ ControlCycle
  \/ ClockTick

Spec == Init /\ [][Next]_operator_vars

\* Time passes, and the component's timer keeps firing while it is active.
FairSpec == Spec /\ WF_operator_vars(ControlCycle) /\ WF_operator_vars(ClockTick)

-----------------------------------------------------------------------------
(* The type invariant; the target never runs past the end of its route.    *)
OperatorTypeOK ==
  /\ total_duration \in Empty .. MaxDuration
  /\ current_duration \in 0 .. MaxDuration
  /\ total_duration # Empty => current_duration <= total_duration
  /\ total_duration = Empty => current_duration = 0
  /\ within_tolerance \in BOOLEAN
  /\ has_stall_start \in BOOLEAN
  /\ stall_age \in 0 .. StallTimeout
  /\ target_age \in 0 .. StallTimeout
  /\ segments \in 0 .. MaxSegments

(***************************************************************************)
(* Once a target beyond the first is being tracked, the stall clock never  *)
(* claims more time than that target has been standing.  It may do so for  *)
(* the first one, since neither a new segment nor reset() stops the clock. *)
(***************************************************************************)
StallClockHonest ==
  has_stall_start /\ current_duration > 0 => stall_age <= target_age

(***************************************************************************)
(* "If the target hasn't advanced for progress_stall_timeout_s_ of REAL    *)
(* time, advance anyway" (horizon_trajectory_operator.hpp:88-91): a target *)
(* the robot is not near moves only after having stood that long.          *)
(***************************************************************************)
AdvanceEarned ==
  [][current_duration' > current_duration =>
       within_tolerance' \/ target_age >= StallTimeout]_operator_vars

(* The same, of every target but the first of a segment.                   *)
AdvanceEarnedAfterFirst ==
  [][current_duration > 0 /\ current_duration' > current_duration =>
       within_tolerance' \/ target_age >= StallTimeout]_operator_vars

(***************************************************************************)
(* The stall fallback keeps the route from deadlocking: even if the robot  *)
(* is never near a target, the last segment's target reaches its end.      *)
(***************************************************************************)
RouteTraversed == <>[](total_duration = Empty \/ current_duration = total_duration)
=============================================================================
