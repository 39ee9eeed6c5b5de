---------------------------- MODULE LocalPlanning ---------------------------
(***************************************************************************)
(* What the local planner promises whoever sends it goals, without its     *)
(* cycles: a route is followed to its end, possibly stopping for good on   *)
(* the way, and it is only at the end of a route that a goal succeeds and  *)
(* a stopped robot is released.                                            *)
(***************************************************************************)
EXTENDS Naturals

CONSTANTS MaxDuration, MaxGoals

VARIABLES
  phase,      \* "idle", "following" or "stopped"
  left,       \* how much of the route is left
  successes   \* goals that succeeded

Init ==
  /\ phase = "idle"
  /\ left = 0
  /\ successes = 0

\* A new route does not release a stopped robot.
NewRoute ==
  /\ phase' = IF phase = "idle" THEN "following" ELSE phase
  /\ left' \in 0 .. MaxDuration
  /\ UNCHANGED successes

Follow ==
  /\ phase # "idle"
  /\ left' \in 0 .. left
  /\ UNCHANGED <<phase, successes>>

Stop ==
  /\ phase = "following"
  /\ phase' = "stopped"
  /\ left' \in 0 .. left
  /\ UNCHANGED successes

Succeed ==
  /\ phase # "idle"
  /\ left = 0
  /\ phase' = "idle"
  /\ successes < MaxGoals
  /\ successes' = successes + 1
  /\ UNCHANGED left

Next == NewRoute \/ Follow \/ Stop \/ Succeed

Spec == Init /\ [][Next]_<<phase, left, successes>>
=============================================================================
