------------------------- MODULE B3ConstraintSolver -------------------------
(***************************************************************************)
(* B3ConstraintSolver::solve: what is commanded in one control cycle.      *)
(* Level 0 passes the horizon's first waypoint through, Level 2 commands   *)
(* the first waypoint of a reshaped horizon, Level 4 brakes, and every     *)
(* call after a brake holds the robot where it is.                         *)
(*                                                                         *)
(* The certificate's verdict on the horizon and what the reshape QP finds  *)
(* are inputs.  Velocities are in units of one step's acceleration per     *)
(* period: a joint's velocity changes by qddot in one period, its position *)
(* by qdot + qddot / 2, so positions are counted in half units.            *)
(***************************************************************************)
EXTENDS Integers

CONSTANTS
  Joints,
  MaxSpeed,   \* bound: the fastest measured joint velocity
  QddotBox    \* b3.qddot_box

ASSUME SolverAssumption ==
  /\ MaxSpeed \in Nat
  /\ QddotBox \in Nat \ {0}

VARIABLES
  braked,     \* braked_
  level,      \* the level last published on /diagnostics
  measured,   \* the joint velocities solve() read
  commanded   \* what it commands: its source and, if the solver made it, its motion

solver_vars == <<braked, level, measured, commanded>>

Speeds == -MaxSpeed .. MaxSpeed
Verdicts == {"clears", "restored", "tight"}  \* m_phys >= m_safe; else by reshaping; else not

-----------------------------------------------------------------------------
Clamp(x, lo, hi) == IF x < lo THEN lo ELSE IF x > hi THEN hi ELSE x

\* The one-step brake: the largest deceleration the box allows, no more than
\* what stops the joint.
BrakeAcceleration(qdot) == Clamp(-qdot, -QddotBox, QddotBox)

\* Its velocity does not overshoot past zero.
BrakeVelocity(qdot) ==
  LET qdot_new == qdot + BrakeAcceleration(qdot) IN
  IF (qdot_new > 0) # (qdot > 0) THEN 0 ELSE qdot_new

\* Twice the joint's displacement over the braking period.
BrakeTravelIgnoringDeceleration(qdot) == 2 * qdot
BrakeTravel(qdot) == 2 * qdot + BrakeAcceleration(qdot)

\* A command: where it comes from, and for those the solver makes itself,
\* the velocities and (twice) the displacements from the measured state.
Still == [j \in Joints |-> 0]
PassThrough(source) == [source |-> source]
Hold == [source |-> "hold", qdot |-> Still, travel |-> Still]
Brake(qdot) ==
  [source |-> "brake",
   qdot   |-> [j \in Joints |-> BrakeVelocity(qdot[j])],
   travel |-> [j \in Joints |-> BrakeTravel(qdot[j])]]

-----------------------------------------------------------------------------
Init ==
  /\ braked = FALSE
  /\ level = "none"
  /\ measured = Still
  /\ commanded = PassThrough("none")

ResetNothing == UNCHANGED solver_vars

Reset ==
  /\ braked' = FALSE
  /\ UNCHANGED <<level, measured, commanded>>

\* Sticky Level 4: the certificate is not evaluated again.
Solve(verdict, qdot) ==
  /\ measured' = qdot
  /\ IF braked THEN commanded' = Hold /\ level' = "4" /\ UNCHANGED braked
     ELSE \/ /\ verdict = "clears"
             /\ commanded' = PassThrough("nominal")
             /\ level' = "0"
             /\ UNCHANGED braked
          \/ /\ verdict = "restored"
             /\ commanded' = PassThrough("reshaped")
             /\ level' = "2"
             /\ UNCHANGED braked
          \/ /\ verdict = "tight"
             /\ commanded' = Brake(qdot)
             /\ level' = "4"
             /\ braked' = TRUE

Next ==
  \/ Reset
  \/ \E verdict \in Verdicts, qdot \in [Joints -> Speeds] : Solve(verdict, qdot)

Spec == Init /\ [][Next]_solver_vars

-----------------------------------------------------------------------------
(* The type invariant. *)
SolverTypeOK ==
  /\ braked \in BOOLEAN
  /\ level \in {"none", "0", "2", "4"}
  /\ measured \in [Joints -> Speeds]
  /\ commanded.source \in {"none", "nominal", "reshaped", "brake", "hold"}
  /\ commanded.source \in {"brake", "hold"} =>
       /\ \A j \in Joints : commanded.qdot[j] \in Speeds
       /\ \A j \in Joints : commanded.travel[j] \in -2 * MaxSpeed .. 2 * MaxSpeed

(***************************************************************************)
(* The brake command is one the joints can follow: no joint's velocity     *)
(* changes by more than the box, none speeds up or turns round, one that   *)
(* can stop does, and the displacement is that of the velocity falling     *)
(* evenly from the measured value to the commanded one.                    *)
(***************************************************************************)
BrakeIsFollowable ==
  commanded.source = "brake" =>
    \A j \in Joints :
      LET v == measured[j]
          w == commanded.qdot[j] IN
      /\ v - w \in -QddotBox .. QddotBox
      /\ IF v >= 0 THEN w \in 0 .. v ELSE w \in v .. 0
      /\ v \in -QddotBox .. QddotBox => w = 0
      /\ commanded.travel[j] = v + w
=============================================================================
