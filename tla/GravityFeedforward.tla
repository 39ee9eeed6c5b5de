------------------------- MODULE GravityFeedforward -------------------------
(***************************************************************************)
(* The torque controller under the local planner: PD on the last target it *)
(* was told, a clamped integral, and the bias (Coriolis and gravity) as    *)
(* feedforward.  The subscription writes messages from its own thread, in  *)
(* every lifecycle state; the control loop picks them up through a         *)
(* realtime buffer whose lock it only tries to take.                       *)
(*                                                                         *)
(* Torques are integers and one period is the unit of time.  `integral' is *)
(* integral_error_ times its gain: the code divides the clamped term by    *)
(* the gain to store it and multiplies by it again to use it.              *)
(***************************************************************************)
EXTENDS Integers, Sequences

CONSTANTS
  joints,       \* the configured joints, in the order of the command interfaces
  Chains,       \* joint orders a robot description may yield; <<>> if it cannot be read
  Messages,     \* JointTrajectory messages that may be published
  NoMessage,    \* an empty slot of the buffer
  Positions,    \* joint positions the arm may be measured at
  Velocities,   \* joint velocities the arm may be measured at
  PGain, DGain, IGain, IClamp,  \* per joint; a gain or a clamp of 0 switches it off
  Bias          \* per joint: the torque computeDynamics() asks for

Joints == {joints[i] : i \in DOMAIN joints}

ASSUME JointsAssumption ==
  joints \in Seq(Joints) /\ joints # <<>>
ASSUME GainsAssumption ==
  /\ {PGain, DGain, IGain, IClamp} \subseteq [Joints -> Nat]
  /\ Bias \in [Joints -> Int]
ASSUME MeasurementsAssumption ==
  Positions \subseteq Int /\ Velocities \subseteq Int
\* A message names no joint twice.
ASSUME MessagesAssumption ==
  /\ NoMessage \notin Messages
  /\ \A m \in Messages :
       /\ m.points \in Seq([positions : Seq(Int), velocities : Seq(Int)])
       /\ DOMAIN m.joint_names = 1 .. Len(m.joint_names)
       /\ \A i, k \in DOMAIN m.joint_names : m.joint_names[i] = m.joint_names[k] => i = k

VARIABLES
  state,            \* lifecycle state
  subscribed,       \* does trajectory_sub_ exist?
  pending, held,    \* rt_trajectory_: written since the last swap; last one read
  target_position, target_velocity, have_target,
  integral,         \* integral_error_, as the torque it stands for
  position, velocity,   \* the state interfaces at the last read
  effort,           \* the command interfaces
  \* History of the current activation, read by no action:
  start,            \* where each joint was when it began
  heard,            \* joints a message written since has named
  strayed,          \* joints an update has since measured off `start'
  updated           \* has update() run since?

buffer_vars == <<pending, held>>
target_vars == <<target_position, target_velocity, have_target>>
arm_vars == <<position, velocity, effort>>
history_vars == <<start, heard, strayed, updated>>
vars == <<state, subscribed, buffer_vars, target_vars, integral, arm_vars, history_vars>>

-----------------------------------------------------------------------------
\* Plausible bug: the vectors are never sized.
Unsized == <<>>

Zero == [j \in Joints |-> 0]

Init ==
  /\ state = "unconfigured"
  /\ subscribed = FALSE
  /\ pending = NoMessage /\ held = NoMessage
  /\ target_position = Zero /\ target_velocity = Zero /\ have_target = FALSE
  /\ integral = Zero
  /\ position = Zero /\ velocity = Zero /\ effort = Zero
  /\ start = Zero /\ heard = {} /\ strayed = {} /\ updated = FALSE

\* A refused configuration is an error of the lifecycle node, which is then
\* finalized.
Configure(chain) ==
  /\ state = "unconfigured"
  /\ IF chain = joints
     THEN /\ state' = "inactive"
          /\ subscribed' = TRUE
          /\ target_position' = Zero /\ target_velocity' = Zero /\ have_target' = FALSE
     ELSE /\ state' = "finalized"
          /\ UNCHANGED <<subscribed, target_vars>>
  /\ UNCHANGED <<buffer_vars, integral, arm_vars, history_vars>>

\* on_cleanup() is not overridden: subscription and buffer outlive it.
Cleanup ==
  /\ state = "inactive"
  /\ state' = "unconfigured"
  /\ UNCHANGED <<subscribed, buffer_vars, target_vars, integral, arm_vars, history_vars>>

\* Plausible bug: the buffer keeps what it held.
KeepBuffer == UNCHANGED buffer_vars

ResetBuffer == pending' = NoMessage /\ held' = NoMessage

Activate(q) ==
  /\ state = "inactive"
  /\ state' = "active"
  /\ target_position' = q /\ target_velocity' = Zero /\ have_target' = TRUE
  /\ integral' = Zero
  /\ ResetBuffer
  /\ start' = q /\ heard' = {} /\ strayed' = {} /\ updated' = FALSE
  /\ UNCHANGED <<subscribed, arm_vars>>

Deactivate ==
  /\ state = "active"
  /\ state' = "inactive"
  /\ have_target' = FALSE
  /\ integral' = Zero
  /\ UNCHANGED <<subscribed, buffer_vars, target_position, target_velocity, arm_vars, history_vars>>

\* The subscription's callback.
Receive(m) ==
  /\ subscribed
  /\ pending' = m
  /\ heard' = IF m.points = <<>> THEN heard
              ELSE heard \cup {m.joint_names[i] : i \in DOMAIN m.joint_names}
  /\ UNCHANGED <<state, subscribed, held, target_vars, integral, arm_vars,
                 start, strayed, updated>>

-----------------------------------------------------------------------------
(* update() *)

Says(m) == m # NoMessage /\ m.points # <<>>

Names(m, j) == \E i \in DOMAIN m.joint_names : m.joint_names[i] = j

\* Plausible bug: numbers are taken in the order of the configured joints.
PlaceInOrder(m, j) == CHOOSE i \in DOMAIN joints : joints[i] = j

\* Where message m speaks of joint j.
PlaceOf(m, j) == CHOOSE i \in DOMAIN m.joint_names :
  m.joint_names[i] = j /\ \A k \in DOMAIN m.joint_names : m.joint_names[k] = j => i <= k

\* Plausible bug: a joint the message leaves out is sent to zero.
PositionOrZero(m, j) ==
  IF Says(m) /\ Names(m, j) /\ PlaceOf(m, j) \in 1 .. Len(m.points[1].positions)
  THEN m.points[1].positions[PlaceOf(m, j)] ELSE 0

PositionFrom(m, j) ==
  LET told == m.points[1].positions
  IN IF Says(m) /\ Names(m, j) /\ PlaceOf(m, j) \in 1 .. Len(told)
     THEN told[PlaceOf(m, j)] ELSE target_position[j]

VelocityFrom(m, j) ==
  LET told == m.points[1].velocities
  IN IF ~(Says(m) /\ Names(m, j)) THEN target_velocity[j]
     ELSE IF PlaceOf(m, j) \in 1 .. Len(told) THEN told[PlaceOf(m, j)] ELSE 0

Clamped(j, term) ==
  IF IClamp[j] = 0 THEN term
  ELSE IF term > IClamp[j] THEN IClamp[j]
  ELSE IF term < -IClamp[j] THEN -IClamp[j]
  ELSE term

Accumulated(j, error) == integral[j] + IGain[j] * error

\* Plausible bug: the output is clamped, the state is not.
KeepUnclamped(j, term) == term

\* What is kept of the accumulated term for the next period.
Kept(j, term) == Clamped(j, term)

\* acquired: did readFromRT() get the lock?  dynamics: did computeDynamics() succeed?
Update(acquired, dynamics, q, qdot) ==
  LET m == IF acquired /\ pending # NoMessage THEN pending ELSE held
      error(j) == target_position'[j] - q[j]
      feedforward(j) == IF dynamics THEN Bias[j] ELSE 0
      pd(j) == PGain[j] * error(j) + DGain[j] * (target_velocity'[j] - qdot[j])
      i_term(j) == IF IGain[j] = 0 THEN 0 ELSE Clamped(j, Accumulated(j, error(j)))
  IN /\ state = "active"
     /\ held' = m
     /\ pending' = IF acquired THEN NoMessage ELSE pending
     /\ target_position' = [j \in Joints |-> PositionFrom(m, j)]
     /\ target_velocity' = [j \in Joints |-> VelocityFrom(m, j)]
     /\ have_target' = (have_target \/ Says(m))
     /\ integral' = [j \in Joints |->
                      IF have_target' /\ IGain[j] # 0
                      THEN Kept(j, Accumulated(j, error(j))) ELSE integral[j]]
     /\ effort' = [j \in Joints |->
                    feedforward(j) + IF have_target' THEN pd(j) + i_term(j) ELSE 0]
     /\ position' = q /\ velocity' = qdot
     /\ strayed' = strayed \cup {j \in Joints : q[j] # start[j]}
     /\ updated' = TRUE
     /\ UNCHANGED <<state, subscribed, start, heard>>

-----------------------------------------------------------------------------
Next ==
  \/ \E chain \in Chains : Configure(chain)
  \/ Cleanup
  \/ \E q \in [Joints -> Positions] : Activate(q)
  \/ Deactivate
  \/ \E m \in Messages : Receive(m)
  \/ \E acquired, dynamics \in BOOLEAN,
        q \in [Joints -> Positions], qdot \in [Joints -> Velocities] :
       Update(acquired, dynamics, q, qdot)

Spec == Init /\ [][Next]_vars

-----------------------------------------------------------------------------
\* Every variable holds a value of its kind.
ControllerTypeOK ==
  /\ state \in {"unconfigured", "inactive", "active", "finalized"}
  /\ subscribed \in BOOLEAN
  /\ {pending, held} \subseteq Messages \cup {NoMessage}
  /\ {target_position, target_velocity, integral} \subseteq [Joints -> Int]
  /\ {position, velocity, effort, start} \subseteq [Joints -> Int]
  /\ have_target \in BOOLEAN
  /\ strayed \subseteq Joints
  /\ updated \in BOOLEAN

\* A joint no message of this activation has named is held where activation
\* found it, at rest: neither a message written while the controller was
\* inactive or in an earlier activation, nor the zeros of on_configure(), nor
\* another joint's number ever becomes its target.
HoldUntilTold ==
  state = "active" => \A j \in Joints \ heard :
    target_position[j] = start[j] /\ target_velocity[j] = 0

\* After an update, whatever the message in the realtime slot says of a joint
\* is that joint's target, whatever the message's own joint order and however
\* short its arrays; a velocity it does not give is zero.
FollowsMessage ==
  state = "active" /\ Says(held) =>
    \A i \in DOMAIN held.joint_names :
      LET j == held.joint_names[i]  point == held.points[1]
      IN j \in Joints =>
           /\ i <= Len(point.positions) => target_position[j] = point.positions[i]
           /\ target_velocity[j] = IF i <= Len(point.velocities)
                                   THEN point.velocities[i] ELSE 0

\* No windup: an integral at its clamp still pushes towards the target.  The
\* first update in which the error has the other sign takes it off the clamp,
\* however long it has been saturated.
NoWindup ==
  state = "active" => \A j \in Joints : IClamp[j] > 0 =>
    /\ integral[j] >= IClamp[j] => target_position[j] >= position[j]
    /\ integral[j] <= -IClamp[j] => target_position[j] <= position[j]

\* A bumpless start: a joint that has been told nothing and has stayed where
\* activation found it gets the feedforward torque and damping, nothing left
\* over from an earlier activation.
OnlyFeedforwardAtRest ==
  state = "active" /\ updated => \A j \in Joints \ (heard \cup strayed) :
    effort[j] + DGain[j] * velocity[j] \in {0, Bias[j]}

=============================================================================
