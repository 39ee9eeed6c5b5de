----------------------------- MODULE ForceSchedule -----------------------------
(***************************************************************************)
(* sampleForceScheduleAt in its ramp mode, through the torque it puts on   *)
(* the joint looked at.  The unit of time is the caller's.                 *)
(***************************************************************************)
EXTENDS Integers

CONSTANTS
  Onset,           \* force_t_onset
  RampDuration,    \* force_ramp_duration
  Slope            \* torque the ramp puts on the joint, per unit of it

ASSUME RampAssumption ==
  Onset \in Nat /\ RampDuration \in Nat \ {0} /\ Slope \in Int

Least(x, y) == IF x < y THEN x ELSE y
Magnitude(x) == IF x < 0 THEN -x ELSE x

\* How far the force has ramped up at time t after its start.
Ramp(t) == IF t < Onset THEN 0 ELSE Least(t - Onset, RampDuration)

\* The torque it then puts on the joint.
Sample(t) == Slope * Ramp(t)
=============================================================================
