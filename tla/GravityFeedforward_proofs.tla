---------------------- MODULE GravityFeedforward_proofs ----------------------
(***************************************************************************)
(* For every set of joints, gains, clamps, messages and measurements: the  *)
(* targets come from this activation's messages and from nowhere else, and *)
(* the integral never winds up past its clamp.                             *)
(***************************************************************************)
EXTENDS GravityFeedforward, TLAPS

LEMMA ZeroType == Zero \in [Joints -> Int] /\ \A j \in Joints : Zero[j] = 0
BY DEF Zero

(* A message names a joint in one place. *)
LEMMA PlaceIsUnique ==
  ASSUME NEW m \in Messages, NEW i \in DOMAIN m.joint_names
  PROVE  PlaceOf(m, m.joint_names[i]) = i
<1> DEFINE j == m.joint_names[i]
           First(k) == /\ m.joint_names[k] = j
                       /\ \A l \in DOMAIN m.joint_names : m.joint_names[l] = j => k <= l
<1>1. \A k, l \in DOMAIN m.joint_names : m.joint_names[k] = m.joint_names[l] => k = l
  BY MessagesAssumption
<1>2. i \in Int
  BY MessagesAssumption
<1>3. First(i) /\ \A k \in DOMAIN m.joint_names : First(k) => k = i
  BY <1>1, <1>2
<1>4. QED
  BY <1>3, Zenon DEF PlaceOf

LEMMA FirstType ==
  ASSUME NEW T, NEW s \in Seq(T), s # <<>>
  PROVE  s[1] \in T
OBVIOUS

LEMMA FirstPointType ==
  ASSUME NEW m \in Messages \cup {NoMessage}, Says(m)
  PROVE  /\ m.points[1].positions \in Seq(Int)
         /\ m.points[1].velocities \in Seq(Int)
<1>1. m.points \in Seq([positions : Seq(Int), velocities : Seq(Int)]) /\ m.points # <<>>
  BY MessagesAssumption DEF Says
<1>2. m.points[1] \in [positions : Seq(Int), velocities : Seq(Int)]
  BY <1>1, FirstType
<1>3. QED
  BY <1>2

(* What a message says, or leaves as it was, is a number. *)
LEMMA PositionFromType ==
  ASSUME ControllerTypeOK, NEW m \in Messages \cup {NoMessage}, NEW j \in Joints
  PROVE  PositionFrom(m, j) \in Int
<1>1. target_position[j] \in Int
  BY DEF ControllerTypeOK
<1>2. ASSUME Says(m), PlaceOf(m, j) \in 1 .. Len(m.points[1].positions)
      PROVE  m.points[1].positions[PlaceOf(m, j)] \in Int
  BY <1>2, FirstPointType
<1>3. QED
  BY <1>1, <1>2 DEF PositionFrom

LEMMA VelocityFromType ==
  ASSUME ControllerTypeOK, NEW m \in Messages \cup {NoMessage}, NEW j \in Joints
  PROVE  VelocityFrom(m, j) \in Int
<1>1. target_velocity[j] \in Int
  BY DEF ControllerTypeOK
<1>2. ASSUME Says(m), PlaceOf(m, j) \in 1 .. Len(m.points[1].velocities)
      PROVE  m.points[1].velocities[PlaceOf(m, j)] \in Int
  BY <1>2, FirstPointType
<1>3. QED
  BY <1>1, <1>2 DEF VelocityFrom

LEMMA ClampedRange ==
  ASSUME NEW j \in Joints, NEW term \in Int
  PROVE  /\ Clamped(j, term) \in Int
         /\ IClamp[j] > 0 => Clamped(j, term) \in -IClamp[j] .. IClamp[j]
         /\ IClamp[j] > 0 /\ term < IClamp[j] => Clamped(j, term) < IClamp[j]
         /\ IClamp[j] > 0 /\ term > -IClamp[j] => Clamped(j, term) > -IClamp[j]
         /\ term = 0 => Clamped(j, term) = 0
BY GainsAssumption DEF Clamped

(* update(), taken apart. *)
LEMMA UpdateParts ==
  ASSUME ControllerTypeOK, NEW acquired \in BOOLEAN, NEW dynamics \in BOOLEAN,
         NEW q \in [Joints -> Positions], NEW qdot \in [Joints -> Velocities],
         Update(acquired, dynamics, q, qdot)
  PROVE  /\ held' \in {held, pending} /\ pending' \in {pending, NoMessage}
         /\ target_position' = [j \in Joints |-> PositionFrom(held', j)]
         /\ target_velocity' = [j \in Joints |-> VelocityFrom(held', j)]
         /\ have_target' = (have_target \/ Says(held'))
         /\ integral' = [j \in Joints |->
              IF have_target' /\ IGain[j] # 0
              THEN Clamped(j, integral[j] + IGain[j] * (target_position'[j] - q[j]))
              ELSE integral[j]]
         /\ effort' = [j \in Joints |->
              (IF dynamics THEN Bias[j] ELSE 0)
              + IF have_target'
                THEN PGain[j] * (target_position'[j] - q[j])
                     + DGain[j] * (target_velocity'[j] - qdot[j])
                     + IF IGain[j] = 0 THEN 0
                       ELSE Clamped(j, integral[j] + IGain[j] * (target_position'[j] - q[j]))
                ELSE 0]
<1>1. held' \in {held, pending} /\ pending' \in {pending, NoMessage}
  BY DEF Update
<1>2. QED
  BY <1>1, Zenon DEF Update, Kept, Accumulated

LEMMA UpdateType ==
  ASSUME ControllerTypeOK, NEW acquired \in BOOLEAN, NEW dynamics \in BOOLEAN,
         NEW q \in [Joints -> Positions], NEW qdot \in [Joints -> Velocities],
         Update(acquired, dynamics, q, qdot)
  PROVE  /\ ControllerTypeOK'
         /\ q \in [Joints -> Int] /\ qdot \in [Joints -> Int]
<1>1. q \in [Joints -> Int] /\ qdot \in [Joints -> Int]
  BY MeasurementsAssumption
<1>2. {held', pending'} \subseteq Messages \cup {NoMessage}
  BY UpdateParts DEF ControllerTypeOK
<1>3. target_position' \in [Joints -> Int] /\ target_velocity' \in [Joints -> Int]
  BY <1>2, UpdateParts, PositionFromType, VelocityFromType
<1>4. \A j \in Joints :
        integral[j] + IGain[j] * (target_position'[j] - q[j]) \in Int
  BY <1>1, <1>3, GainsAssumption DEF ControllerTypeOK
<1>5. integral' \in [Joints -> Int]
  <2> DEFINE kept(j) ==
        IF have_target' /\ IGain[j] # 0
        THEN Clamped(j, integral[j] + IGain[j] * (target_position'[j] - q[j]))
        ELSE integral[j]
  <2>1. \A j \in Joints : integral[j] \in Int
    BY DEF ControllerTypeOK
  <2>2. \A j \in Joints :
          Clamped(j, integral[j] + IGain[j] * (target_position'[j] - q[j])) \in Int
    BY <1>4, ClampedRange
  <2>3. \A j \in Joints : kept(j) \in Int
    BY <2>1, <2>2
  <2>4. integral' = [j \in Joints |-> kept(j)]
    BY UpdateParts
  <2> HIDE DEF kept
  <2>5. QED
    BY <2>3, <2>4
<1>6. effort' \in [Joints -> Int]
  <2> SUFFICES ASSUME NEW j \in Joints PROVE effort'[j] \in Int
    BY UpdateParts
  <2>1. PGain[j] * (target_position'[j] - q[j])
          + DGain[j] * (target_velocity'[j] - qdot[j]) \in Int
    BY <1>1, <1>3, GainsAssumption
  <2>2. Clamped(j, integral[j] + IGain[j] * (target_position'[j] - q[j])) \in Int
    BY <1>4, ClampedRange
  <2>3. Bias[j] \in Int
    BY GainsAssumption
  <2>4. QED
    BY <2>1, <2>2, <2>3, UpdateParts
<1>7. /\ state' = state /\ subscribed' = subscribed /\ start' = start
      /\ position' = q /\ velocity' = qdot
      /\ have_target' \in BOOLEAN /\ updated' = TRUE /\ strayed' \subseteq Joints
  BY UpdateParts DEF Update, ControllerTypeOK
<1>8. QED
  BY <1>1, <1>2, <1>3, <1>5, <1>6, <1>7 DEF ControllerTypeOK

LEMMA TypeInit == Init => ControllerTypeOK
BY ZeroType DEF Init, ControllerTypeOK

LEMMA TypeStep == ControllerTypeOK /\ [Next]_vars => ControllerTypeOK'
<1> SUFFICES ASSUME ControllerTypeOK, [Next]_vars PROVE ControllerTypeOK'
  OBVIOUS
<1> USE DEF ControllerTypeOK
<1>1. ASSUME NEW chain \in Chains, Configure(chain) PROVE ControllerTypeOK'
  BY <1>1, ZeroType DEF Configure, buffer_vars, target_vars, arm_vars, history_vars
<1>2. CASE Cleanup
  BY <1>2 DEF Cleanup, buffer_vars, target_vars, arm_vars, history_vars
<1>3. ASSUME NEW q \in [Joints -> Positions], Activate(q) PROVE ControllerTypeOK'
  <2>1. q \in [Joints -> Int]
    BY MeasurementsAssumption
  <2>2. QED
    BY <1>3, <2>1, ZeroType DEF Activate, ResetBuffer, arm_vars
<1>4. CASE Deactivate
  BY <1>4, ZeroType DEF Deactivate, buffer_vars, arm_vars, history_vars
<1>5. ASSUME NEW m \in Messages, Receive(m) PROVE ControllerTypeOK'
  BY <1>5 DEF Receive, target_vars, arm_vars
<1>6. ASSUME NEW acquired \in BOOLEAN, NEW dynamics \in BOOLEAN,
             NEW q \in [Joints -> Positions], NEW qdot \in [Joints -> Velocities],
             Update(acquired, dynamics, q, qdot)
      PROVE  ControllerTypeOK'
  BY <1>6, UpdateType
<1>7. CASE UNCHANGED vars
  BY <1>7 DEF vars, buffer_vars, target_vars, arm_vars, history_vars
<1>8. QED
  BY <1>1, <1>2, <1>3, <1>4, <1>5, <1>6, <1>7 DEF Next

(* Every variable always holds a value of its kind. *)
THEOREM TypeCorrect == Spec => []ControllerTypeOK
BY TypeInit, TypeStep, PTL DEF Spec

-----------------------------------------------------------------------------
(* The targets.  A message that could be picked up has been heard in this  *)
(* activation: the reset of the buffer is what makes that true.            *)
OnlyHeardIsPickedUp ==
  state = "active" => \A m \in {pending, held} : Says(m) =>
    \A i \in DOMAIN m.joint_names : m.joint_names[i] \in heard

TargetInv == OnlyHeardIsPickedUp /\ HoldUntilTold /\ FollowsMessage

(* What an update leaves as a joint's target. *)
LEMMA UpdateTargets ==
  ASSUME ControllerTypeOK, TargetInv, NEW acquired \in BOOLEAN, NEW dynamics \in BOOLEAN,
         NEW q \in [Joints -> Positions], NEW qdot \in [Joints -> Velocities],
         Update(acquired, dynamics, q, qdot)
  PROVE  TargetInv'
<1>1. /\ state = "active" /\ state' = "active" /\ heard' = heard /\ start' = start
      /\ held' \in {held, pending} /\ pending' \in {pending, NoMessage}
      /\ held' \in Messages \cup {NoMessage}
  BY UpdateParts DEF Update, ControllerTypeOK
<1>2. OnlyHeardIsPickedUp'
  BY <1>1 DEF TargetInv, OnlyHeardIsPickedUp, Says
<1>3. HoldUntilTold'
  <2> SUFFICES ASSUME NEW j \in Joints, j \notin heard
               PROVE  target_position'[j] = start[j] /\ target_velocity'[j] = 0
    BY <1>1 DEF HoldUntilTold
  <2>1. target_position[j] = start[j] /\ target_velocity[j] = 0
    BY <1>1 DEF TargetInv, HoldUntilTold
  <2>2. ~(Says(held') /\ Names(held', j))
    BY <1>1 DEF TargetInv, OnlyHeardIsPickedUp, Names
  <2>3. PositionFrom(held', j) = target_position[j] /\ VelocityFrom(held', j) = target_velocity[j]
    BY <2>2, Zenon DEF PositionFrom, VelocityFrom
  <2>4. QED
    BY <2>1, <2>3, UpdateParts
<1>4. FollowsMessage'
  <2> SUFFICES ASSUME Says(held'), NEW i \in DOMAIN held'.joint_names, held'.joint_names[i] \in Joints
               PROVE  LET j == held'.joint_names[i]  point == held'.points[1]
                      IN /\ i <= Len(point.positions) => target_position'[j] = point.positions[i]
                         /\ target_velocity'[j] = IF i <= Len(point.velocities)
                                                  THEN point.velocities[i] ELSE 0
    BY <1>1 DEF FollowsMessage, Says
  <2> DEFINE j == held'.joint_names[i]  point == held'.points[1]
  <2>1. held' \in Messages
    BY <1>1 DEF Says
  <2>2. PlaceOf(held', j) = i /\ Names(held', j)
    BY <2>1, PlaceIsUnique DEF Names
  <2>3. /\ Len(point.positions) \in Nat /\ Len(point.velocities) \in Nat
        /\ i \in Int /\ i >= 1
    <3>1. point.positions \in Seq(Int) /\ point.velocities \in Seq(Int)
      BY <2>1, FirstPointType
    <3>2. i \in 1 .. Len(held'.joint_names)
      BY <2>1, MessagesAssumption
    <3>3. QED
      BY <3>1, <3>2
  <2>4. /\ PositionFrom(held', j) = IF i <= Len(point.positions)
                                    THEN point.positions[i] ELSE target_position[j]
        /\ VelocityFrom(held', j) = IF i <= Len(point.velocities)
                                    THEN point.velocities[i] ELSE 0
    BY <2>2, <2>3 DEF PositionFrom, VelocityFrom
  <2>5. /\ target_position'[j] = PositionFrom(held', j)
        /\ target_velocity'[j] = VelocityFrom(held', j)
    BY UpdateParts
  <2> HIDE DEF j, point
  <2>6. /\ i <= Len(point.positions) => target_position'[j] = point.positions[i]
        /\ target_velocity'[j] = IF i <= Len(point.velocities)
                                 THEN point.velocities[i] ELSE 0
    BY <2>4, <2>5
  <2>7. QED
    BY <2>6 DEF j, point
<1>5. QED
  BY <1>2, <1>3, <1>4 DEF TargetInv

LEMMA TargetStep == ControllerTypeOK /\ TargetInv /\ [Next]_vars => TargetInv'
<1> SUFFICES ASSUME ControllerTypeOK, TargetInv, [Next]_vars PROVE TargetInv'
  OBVIOUS
<1>1. ASSUME state' # "active" PROVE TargetInv'
  BY <1>1 DEF TargetInv, OnlyHeardIsPickedUp, HoldUntilTold, FollowsMessage
<1>2. ASSUME NEW chain \in Chains, Configure(chain) PROVE TargetInv'
  BY <1>1, <1>2 DEF Configure
<1>3. CASE Cleanup \/ Deactivate
  BY <1>1, <1>3 DEF Cleanup, Deactivate
<1>4. ASSUME NEW q \in [Joints -> Positions], Activate(q) PROVE TargetInv'
  <2>1. /\ ~Says(pending)' /\ ~Says(held)'
        /\ target_position' = start' /\ \A j \in Joints : target_velocity'[j] = 0
    BY <1>4, ZeroType DEF Activate, ResetBuffer, Says
  <2>2. QED
    BY <2>1 DEF TargetInv, OnlyHeardIsPickedUp, HoldUntilTold, FollowsMessage, Says
<1>5. ASSUME NEW m \in Messages, Receive(m) PROVE TargetInv'
  <2>1. /\ UNCHANGED <<state, held, target_position, target_velocity, start>>
        /\ pending' = m /\ heard \subseteq heard'
    BY <1>5 DEF Receive, target_vars
  <2>2. Says(m) => \A i \in DOMAIN m.joint_names : m.joint_names[i] \in heard'
    BY <1>5 DEF Receive, Says
  <2>3. OnlyHeardIsPickedUp'
    BY <2>1, <2>2 DEF TargetInv, OnlyHeardIsPickedUp, Says
  <2>4. HoldUntilTold' /\ FollowsMessage'
    BY <2>1 DEF TargetInv, HoldUntilTold, FollowsMessage, Says
  <2>5. QED
    BY <2>3, <2>4 DEF TargetInv
<1>6. ASSUME NEW acquired \in BOOLEAN, NEW dynamics \in BOOLEAN,
             NEW q \in [Joints -> Positions], NEW qdot \in [Joints -> Velocities],
             Update(acquired, dynamics, q, qdot)
      PROVE  TargetInv'
  BY <1>6, UpdateTargets
<1>7. CASE UNCHANGED vars
  BY <1>7 DEF vars, buffer_vars, target_vars, history_vars,
              TargetInv, OnlyHeardIsPickedUp, HoldUntilTold, FollowsMessage, Says
<1>8. QED
  BY <1>2, <1>3, <1>4, <1>5, <1>6, <1>7 DEF Next

LEMMA TargetInvariant == Spec => []TargetInv
<1>1. Init => TargetInv
  BY DEF Init, TargetInv, OnlyHeardIsPickedUp, HoldUntilTold, FollowsMessage
<1>2. QED
  BY <1>1, TypeCorrect, TargetStep, PTL DEF Spec

(* A joint no message of this activation has named is held where it was    *)
(* found, whatever was written before the activation.                      *)
THEOREM HoldsUntilTold == Spec => []HoldUntilTold
BY TargetInvariant, PTL DEF TargetInv

(* After an update the targets are what the message in the realtime slot   *)
(* says, joint by joint and by name.                                       *)
THEOREM FollowsTheMessage == Spec => []FollowsMessage
BY TargetInvariant, PTL DEF TargetInv

-----------------------------------------------------------------------------
(* The integral.  It is within its clamp, zero without a gain, and zero as *)
(* long as the joint has had no error to accumulate.                       *)
IntegralInv ==
  /\ state = "active" => have_target
  /\ \A j \in Joints : IClamp[j] > 0 => integral[j] \in -IClamp[j] .. IClamp[j]
  /\ \A j \in Joints : IGain[j] = 0 => integral[j] = 0
  /\ state = "active" => \A j \in Joints \ (heard \cup strayed) : integral[j] = 0
  /\ NoWindup
  /\ OnlyFeedforwardAtRest

LEMMA SignOfTerm ==
  ASSUME NEW gain \in Nat \ {0}, NEW error \in Int
  PROVE  /\ error < 0 => gain * error < 0
         /\ error > 0 => gain * error > 0
         /\ error = 0 => gain * error = 0
OBVIOUS

(* One period's accumulation, joint by joint. *)
LEMMA AccumulateStep ==
  ASSUME NEW j \in Joints, NEW old \in Int, NEW error \in Int, IGain[j] # 0,
         IClamp[j] > 0 => old \in -IClamp[j] .. IClamp[j]
  PROVE  LET new == Clamped(j, old + IGain[j] * error)
         IN /\ new \in Int
            /\ IClamp[j] > 0 => new \in -IClamp[j] .. IClamp[j]
            /\ IClamp[j] > 0 /\ new >= IClamp[j] => error >= 0
            /\ IClamp[j] > 0 /\ new <= -IClamp[j] => error <= 0
            /\ old = 0 /\ error = 0 => new = 0
<1>1. IGain[j] \in Nat \ {0} /\ IClamp[j] \in Nat
  BY GainsAssumption
<1> DEFINE change == IGain[j] * error
<1>2. /\ change \in Int
      /\ error < 0 => change < 0
      /\ error > 0 => change > 0
      /\ error = 0 => change = 0
  BY <1>1, SignOfTerm
<1> HIDE DEF change
<1>3. old + change \in Int
  BY <1>2
<1> DEFINE new == Clamped(j, old + change)
<1>4. /\ new \in Int
      /\ IClamp[j] > 0 => new \in -IClamp[j] .. IClamp[j]
      /\ IClamp[j] > 0 /\ old + change < IClamp[j] => new < IClamp[j]
      /\ IClamp[j] > 0 /\ old + change > -IClamp[j] => new > -IClamp[j]
      /\ old + change = 0 => new = 0
  BY <1>3, ClampedRange
<1> HIDE DEF new
<1>5. /\ new \in Int
      /\ IClamp[j] > 0 => new \in -IClamp[j] .. IClamp[j]
      /\ IClamp[j] > 0 /\ new >= IClamp[j] => error >= 0
      /\ IClamp[j] > 0 /\ new <= -IClamp[j] => error <= 0
      /\ old = 0 /\ error = 0 => new = 0
  BY <1>1, <1>2, <1>4
<1>6. QED
  BY <1>5 DEF new, change

LEMMA UpdateIntegral ==
  ASSUME ControllerTypeOK, TargetInv, TargetInv', IntegralInv,
         NEW acquired \in BOOLEAN, NEW dynamics \in BOOLEAN,
         NEW q \in [Joints -> Positions], NEW qdot \in [Joints -> Velocities],
         Update(acquired, dynamics, q, qdot)
  PROVE  IntegralInv'
<1>1. /\ state = "active" /\ state' = "active" /\ heard' = heard /\ start' = start
      /\ strayed' = strayed \cup {j \in Joints : q[j] # start[j]}
      /\ position' = q /\ velocity' = qdot
      /\ have_target /\ have_target'
  BY UpdateParts DEF Update, IntegralInv
<1>2. /\ ControllerTypeOK' /\ q \in [Joints -> Int] /\ qdot \in [Joints -> Int]
  BY UpdateType
<1> DEFINE error(j) == target_position'[j] - q[j]
<1>3. \A j \in Joints : error(j) \in Int /\ integral[j] \in Int
  BY <1>2 DEF ControllerTypeOK
<1>4. \A j \in Joints :
        integral'[j] = IF IGain[j] = 0 THEN integral[j]
                       ELSE Clamped(j, integral[j] + IGain[j] * error(j))
  <2> DEFINE term(j) == Clamped(j, integral[j] + IGain[j] * error(j))
  <2>1. integral' = [j \in Joints |-> IF have_target' /\ IGain[j] # 0
                                      THEN term(j) ELSE integral[j]]
    BY UpdateParts
  <2> HIDE DEF term
  <2>2. \A j \in Joints : integral'[j] = IF IGain[j] = 0 THEN integral[j] ELSE term(j)
    BY <1>1, <2>1
  <2>3. QED
    BY <2>2 DEF term
<1>5. \A j \in Joints \ (heard \cup strayed') :
        /\ integral[j] = 0 /\ error(j) = 0
        /\ target_velocity'[j] = 0
  BY <1>1, <1>2 DEF IntegralInv, TargetInv, HoldUntilTold, ControllerTypeOK
<1>6. ASSUME NEW j \in Joints
      PROVE  /\ IClamp[j] > 0 => integral'[j] \in -IClamp[j] .. IClamp[j]
             /\ IGain[j] = 0 => integral'[j] = 0
             /\ j \notin heard \cup strayed' => integral'[j] = 0
             /\ IClamp[j] > 0 /\ integral'[j] >= IClamp[j] => error(j) >= 0
             /\ IClamp[j] > 0 /\ integral'[j] <= -IClamp[j] => error(j) <= 0
  <2>1. IClamp[j] > 0 => integral[j] \in -IClamp[j] .. IClamp[j]
    BY DEF IntegralInv
  <2>2. CASE IGain[j] = 0
    <3>1. integral'[j] = 0 /\ integral[j] = 0
      BY <1>4, <2>2 DEF IntegralInv
    <3>2. IClamp[j] \in Nat
      BY GainsAssumption
    <3> HIDE DEF error
    <3>3. QED
      BY <3>1, <3>2, <2>1
  <2>3. CASE IGain[j] # 0
    <3>1. integral'[j] = Clamped(j, integral[j] + IGain[j] * error(j))
      BY <1>4, <2>3
    <3>2. error(j) \in Int /\ integral[j] \in Int
      BY <1>3
    <3>3. j \notin heard \cup strayed' => integral[j] = 0 /\ error(j) = 0
      BY <1>5
    <3> HIDE DEF error
    <3>4. QED
      BY <2>1, <2>3, <3>1, <3>2, <3>3, AccumulateStep
  <2>4. QED
    BY <2>2, <2>3
<1>7. NoWindup'
  <2> SUFFICES ASSUME NEW j \in Joints, IClamp[j] > 0
               PROVE  /\ integral'[j] >= IClamp[j] => target_position'[j] >= q[j]
                      /\ integral'[j] <= -IClamp[j] => target_position'[j] <= q[j]
    BY <1>1 DEF NoWindup
  <2>1. target_position'[j] \in Int /\ q[j] \in Int
    BY <1>2 DEF ControllerTypeOK
  <2>2. QED
    BY <1>6, <2>1
<1>8. OnlyFeedforwardAtRest'
  <2> SUFFICES ASSUME NEW j \in Joints, j \notin heard \cup strayed'
               PROVE  effort'[j] + DGain[j] * qdot[j] \in {0, Bias[j]}
    BY <1>1 DEF OnlyFeedforwardAtRest
  <2>1. integral[j] = 0 /\ error(j) = 0 /\ target_velocity'[j] = 0
    BY <1>5
  <2>2. /\ PGain[j] \in Nat /\ DGain[j] \in Nat /\ IGain[j] \in Nat
        /\ Bias[j] \in Int /\ qdot[j] \in Int
    BY <1>2, GainsAssumption
  <2>3. effort'[j] = (IF dynamics THEN Bias[j] ELSE 0)
                     + (PGain[j] * error(j) + DGain[j] * (target_velocity'[j] - qdot[j])
                        + IF IGain[j] = 0 THEN 0
                          ELSE Clamped(j, integral[j] + IGain[j] * error(j)))
    <3> DEFINE feedforward(i) == IF dynamics THEN Bias[i] ELSE 0
               feedback(i) == PGain[i] * error(i) + DGain[i] * (target_velocity'[i] - qdot[i])
                              + IF IGain[i] = 0 THEN 0
                                ELSE Clamped(i, integral[i] + IGain[i] * error(i))
    <3>1. effort' = [i \in Joints |-> feedforward(i) + IF have_target' THEN feedback(i) ELSE 0]
      BY UpdateParts
    <3> HIDE DEF feedforward, feedback
    <3>2. effort'[j] = feedforward(j) + feedback(j)
      BY <1>1, <3>1
    <3>3. QED
      BY <3>2 DEF feedforward, feedback
  <2> HIDE DEF error
  <2>4. IGain[j] * error(j) = 0 /\ PGain[j] * error(j) = 0
    BY <2>1, <2>2
  <2>5. Clamped(j, integral[j] + IGain[j] * error(j)) = 0
    BY <2>1, <2>4, ClampedRange
  <2>6. effort'[j] = (IF dynamics THEN Bias[j] ELSE 0) + DGain[j] * (0 - qdot[j])
    BY <2>1, <2>2, <2>3, <2>4, <2>5
  <2>7. DGain[j] * (0 - qdot[j]) + DGain[j] * qdot[j] = 0 /\ DGain[j] * qdot[j] \in Int
    BY <2>2
  <2>8. QED
    BY <2>2, <2>6, <2>7
<1>9. QED
  BY <1>1, <1>6, <1>7, <1>8 DEF IntegralInv

LEMMA IntegralStep ==
  ControllerTypeOK /\ TargetInv /\ TargetInv' /\ IntegralInv /\ [Next]_vars => IntegralInv'
<1> SUFFICES ASSUME ControllerTypeOK, TargetInv, TargetInv', IntegralInv, [Next]_vars
             PROVE  IntegralInv'
  OBVIOUS
<1>1. \A j \in Joints : IClamp[j] \in Nat
  BY GainsAssumption
<1>2. ASSUME state' # "active", integral' = integral \/ integral' = Zero PROVE IntegralInv'
  BY <1>1, <1>2, ZeroType DEF IntegralInv, NoWindup, OnlyFeedforwardAtRest
<1>3. ASSUME NEW chain \in Chains, Configure(chain) PROVE IntegralInv'
  BY <1>2, <1>3 DEF Configure
<1>4. CASE Cleanup \/ Deactivate
  BY <1>2, <1>4 DEF Cleanup, Deactivate
<1>5. ASSUME NEW q \in [Joints -> Positions], Activate(q) PROVE IntegralInv'
  <2>1. /\ have_target' /\ ~updated'
        /\ \A j \in Joints : integral'[j] = 0
    BY <1>5, ZeroType DEF Activate
  <2>2. QED
    BY <1>1, <2>1 DEF IntegralInv, NoWindup, OnlyFeedforwardAtRest
<1>6. ASSUME NEW m \in Messages, Receive(m) PROVE IntegralInv'
  <2>1. /\ UNCHANGED <<state, have_target, target_position, integral, position, velocity,
                       effort, strayed, updated>>
        /\ heard \subseteq heard'
    BY <1>6 DEF Receive, target_vars, arm_vars
  <2>2. QED
    BY <2>1 DEF IntegralInv, NoWindup, OnlyFeedforwardAtRest
<1>7. ASSUME NEW acquired \in BOOLEAN, NEW dynamics \in BOOLEAN,
             NEW q \in [Joints -> Positions], NEW qdot \in [Joints -> Velocities],
             Update(acquired, dynamics, q, qdot)
      PROVE  IntegralInv'
  BY <1>7, UpdateIntegral
<1>8. CASE UNCHANGED vars
  BY <1>8 DEF vars, buffer_vars, target_vars, arm_vars, history_vars,
              IntegralInv, NoWindup, OnlyFeedforwardAtRest
<1>9. QED
  BY <1>3, <1>4, <1>5, <1>6, <1>7, <1>8 DEF Next

LEMMA IntegralInvariant == Spec => []IntegralInv
<1>1. Init => IntegralInv
  BY GainsAssumption, ZeroType DEF Init, IntegralInv, NoWindup, OnlyFeedforwardAtRest
<1>2. QED
  BY <1>1, TypeCorrect, TargetInvariant, IntegralStep, PTL DEF Spec

(* An integral at its clamp pushes towards the target: an error of the     *)
(* other sign takes it off the clamp in one update.                        *)
THEOREM NeverWindsUp == Spec => []NoWindup
BY IntegralInvariant, PTL DEF IntegralInv

(* A joint that was told nothing and stayed where activation found it gets *)
(* feedforward and damping only.                                           *)
THEOREM StartsBumpless == Spec => []OnlyFeedforwardAtRest
BY IntegralInvariant, PTL DEF IntegralInv
=============================================================================
