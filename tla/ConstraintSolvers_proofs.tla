---------------------- MODULE ConstraintSolvers_proofs ----------------------
(***************************************************************************)
(* For every arm, horizon and grid of accelerations: the certificate is    *)
(* the least margin, what B3 passes is roomy and nothing B2 would object   *)
(* to, what B2 projects fits but for the force, and the brake can be       *)
(* followed and is sticky.                                                 *)
(***************************************************************************)
EXTENDS ConstraintSolvers, TLAPS

-----------------------------------------------------------------------------
(* The brake's arithmetic.                                                 *)

(* One joint's brake: it stays in the box, stops what can be stopped, and  *)
(* travels what a velocity falling evenly covers.                          *)
LEMMA BrakeOfAJoint ==
  ASSUME NEW v \in Speeds
  PROVE  LET w == BrakeVelocity(v) IN
         /\ w \in Speeds
         /\ v - w \in -QddotBox .. QddotBox
         /\ IF v >= 0 THEN w \in 0 .. v ELSE w \in v .. 0
         /\ v \in -QddotBox .. QddotBox => w = 0
         /\ BrakeTravel(v) = v + w
         /\ BrakeTravel(v) \in -2 * MaxSpeed .. 2 * MaxSpeed
<1> DEFINE w == BrakeVelocity(v)
<1>0. /\ v \in Int /\ MaxSpeed \in Nat /\ QddotBox \in Nat \ {0}
      /\ -MaxSpeed <= v /\ v <= MaxSpeed
  BY SolverAssumption DEF Speeds
<1>1. CASE v > QddotBox
  <2>1. BrakeAcceleration(v) = -QddotBox
    BY <1>0, <1>1 DEF BrakeAcceleration, Clamp
  <2>2. w = v - QddotBox
    BY <1>0, <1>1, <2>1 DEF BrakeVelocity
  <2>3. BrakeTravel(v) = 2 * v - QddotBox
    BY <1>0, <2>1 DEF BrakeTravel
  <2>4. QED
    BY <1>0, <1>1, <2>2, <2>3 DEF Speeds
<1>2. CASE v < -QddotBox
  <2>1. BrakeAcceleration(v) = QddotBox
    BY <1>0, <1>2 DEF BrakeAcceleration, Clamp
  <2>2. w = v + QddotBox
    BY <1>0, <1>2, <2>1 DEF BrakeVelocity
  <2>3. BrakeTravel(v) = 2 * v + QddotBox
    BY <1>0, <2>1 DEF BrakeTravel
  <2>4. QED
    BY <1>0, <1>2, <2>2, <2>3 DEF Speeds
<1>3. CASE v \in -QddotBox .. QddotBox
  <2>1. BrakeAcceleration(v) = -v
    BY <1>0, <1>3 DEF BrakeAcceleration, Clamp
  <2>2. w = 0
    BY <1>0, <2>1 DEF BrakeVelocity
  <2>3. BrakeTravel(v) = v
    BY <1>0, <2>1 DEF BrakeTravel
  <2>4. QED
    BY <1>0, <1>3, <2>2, <2>3 DEF Speeds
<1>4. QED
  BY <1>0, <1>1, <1>2, <1>3

(* What one call of solve() leaves.                                        *)
LEMMA SolveStep ==
  ASSUME NEW verdict, NEW qdot \in [Joints -> Speeds],
         braked \in BOOLEAN, Solve(verdict, qdot)
  PROVE  SolverTypeOK' /\ BrakeIsFollowable'
<1>0. MaxSpeed \in Nat
  BY SolverAssumption
<1>1. measured' = qdot
  BY DEF Solve
<1>2. CASE commanded' = Hold /\ level' = "4" /\ braked' = braked
  <2>1. \A j \in Joints : Hold.qdot[j] = 0 /\ Hold.travel[j] = 0
    BY DEF Hold, Still
  <2>2. Hold.source = "hold"
    BY DEF Hold
  <2>3. 0 \in Speeds /\ 0 \in -2 * MaxSpeed .. 2 * MaxSpeed
    BY <1>0 DEF Speeds
  <2>4. QED
    BY <1>1, <1>2, <2>1, <2>2, <2>3 DEF SolverTypeOK, BrakeIsFollowable
<1>3. CASE /\ commanded' \in {PassThrough("nominal"), PassThrough("reshaped")}
           /\ level' \in {"0", "2"} /\ braked' = braked
  <2>1. commanded'.source \in {"nominal", "reshaped"}
    BY <1>3 DEF PassThrough
  <2>2. QED
    BY <1>1, <1>3, <2>1 DEF SolverTypeOK, BrakeIsFollowable
<1>4. CASE commanded' = Brake(qdot) /\ level' = "4" /\ braked' = TRUE
  <2>1. Brake(qdot).source = "brake"
    BY DEF Brake
  <2>2. \A j \in Joints :
          /\ Brake(qdot).qdot[j] = BrakeVelocity(qdot[j])
          /\ Brake(qdot).travel[j] = BrakeTravel(qdot[j])
    BY DEF Brake
  <2>3. \A j \in Joints : qdot[j] \in Speeds
    OBVIOUS
  <2>4. SolverTypeOK'
    BY <1>1, <1>4, <2>1, <2>2, <2>3, BrakeOfAJoint DEF SolverTypeOK
  <2>5. BrakeIsFollowable'
    BY <1>1, <1>4, <2>1, <2>2, <2>3, BrakeOfAJoint DEF BrakeIsFollowable
  <2>6. QED
    BY <2>4, <2>5
<1>5. QED
  BY <1>2, <1>3, <1>4 DEF Solve

-----------------------------------------------------------------------------
(* The certificate. *)

\* The values of the state the certificate and B2 work on.
CertificateTypeOK ==
  /\ waypoint \in 0 .. HorizonSteps
  /\ m_phys \in Int
  /\ binding_step \in Int
  /\ b2.message \in {"nominal", "intervened"}
  /\ \/ cycle = {} /\ demand = Certificate!NoTrajectory /\ waypoint = 0
     \/ /\ demand \in [Certificate!Steps -> [Joints -> Int] \cup {NoDynamics}]
        /\ \E c \in Cycles : cycle = {c}

\* The first waypoint of a cycle under way is what B2 looks at.
SameFirstWaypoint ==
  \A c \in cycle : demand[0] \in {B2!TauNominal(c.nominal, c.pull), NoDynamics}

SolversInv ==
  /\ SolverTypeOK
  /\ BrakeIsFollowable
  /\ CertificateTypeOK
  /\ SameFirstWaypoint
  /\ CertificateIsLeast

(* What a waypoint needs is an integer per joint.                          *)
LEMMA TauNominalType ==
  ASSUME NEW c \in Cycles
  PROVE  /\ B2!TauNominal(c.nominal, c.pull) \in [Joints -> Int]
         /\ \A i \in Joints : B2!TauNominal(c.nominal, c.pull)[i] =
              MassTimes[c.nominal.qddot][i] + c.nominal.bias[i] - c.pull[i]
         /\ c.nominal.bias \in [Joints -> Int] /\ c.pull \in [Joints -> Int]
         /\ c.nominal.qddot \in [Joints -> Accelerations]
         /\ MassTimes[c.nominal.qddot] \in [Joints -> Int]
<1>1. /\ c.nominal.qddot \in [Joints -> Accelerations]
      /\ c.nominal.bias \in [Joints -> Int] /\ c.pull \in [Joints -> Int]
  BY DataAssumption DEF Cycles
<1>2. MassTimes[c.nominal.qddot] \in [Joints -> Int]
  BY <1>1, DataAssumption
<1>3. ASSUME NEW i \in Joints
      PROVE  B2!TauNominal(c.nominal, c.pull)[i] =
               MassTimes[c.nominal.qddot][i] + c.nominal.bias[i] - c.pull[i]
  <2>1. B2!Required(c.nominal.qddot, c.nominal.bias)[i] =
          MassTimes[c.nominal.qddot][i] + c.nominal.bias[i]
    BY DEF B2!Required
  <2>2. B2!TauNominal(c.nominal, c.pull)[i] =
          B2!Required(c.nominal.qddot, c.nominal.bias)[i] - c.pull[i]
    BY DEF B2!TauNominal
  <2>3. MassTimes[c.nominal.qddot][i] \in Int /\ c.nominal.bias[i] \in Int /\ c.pull[i] \in Int
    BY <1>1, <1>2
  <2> DEFINE required == B2!Required(c.nominal.qddot, c.nominal.bias)[i]
             mass == MassTimes[c.nominal.qddot][i]
             bias == c.nominal.bias[i]
  <2>4. required = mass + bias
    BY <2>1
  <2>5. B2!TauNominal(c.nominal, c.pull)[i] = required - c.pull[i]
    BY <2>2
  <2> HIDE DEF required
  <2>6. QED
    BY <2>3, <2>4, <2>5
<1>4. \A i \in Joints : MassTimes[c.nominal.qddot][i] + c.nominal.bias[i] - c.pull[i] \in Int
  BY <1>1, <1>2
<1>5. B2!TauNominal(c.nominal, c.pull) = [i \in Joints |-> B2!TauNominal(c.nominal, c.pull)[i]]
  BY DEF B2!TauNominal
<1>6. QED
  BY <1>1, <1>2, <1>3, <1>4, <1>5

(* Margins are integers less than infinity.                                *)
LEMMA MarginType ==
  ASSUME NEW tau \in [Joints -> Int], NEW i \in Joints
  PROVE  /\ Certificate!Margin(tau, i) \in Int
         /\ Certificate!Margin(tau, i) < Infinity
         /\ Certificate!Margin(tau, i) = TauMax[i] - Certificate!Magnitude(tau[i]) - DeltaTau[i]
         /\ Certificate!Magnitude(tau[i]) \in Nat
<1>1. TauMax[i] \in Nat /\ DeltaTau[i] \in Nat /\ Infinity \in Int /\ TauMax[i] < Infinity /\ tau[i] \in Int
  BY LimitsAssumption
<1>2. Certificate!Magnitude(tau[i]) \in Nat
  BY <1>1 DEF Certificate!Magnitude
<1>3. QED
  BY <1>1, <1>2 DEF Certificate!Margin

(* A call begins with nothing looked at.                                   *)
LEMMA CallIsLeast ==
  ASSUME NEW trajectory, Certificate!Call(trajectory)
  PROVE  CertificateIsLeast'
<1>1. waypoint' = 0 /\ m_phys' = Infinity /\ binding_step' = -1
  BY DEF Certificate!Call
<1>2. Certificate!Evaluated' = {}
  BY <1>1 DEF Certificate!Evaluated
<1>3. QED
  BY <1>1, <1>2 DEF CertificateIsLeast, Certificate!IsLeast

(* Looking at one more waypoint keeps the least, and the first that has it. *)
LEMMA EvaluateStep ==
  ASSUME CertificateTypeOK, CertificateIsLeast, Certificate!EvaluateWaypoint
  PROVE  /\ CertificateIsLeast'
         /\ waypoint' \in 0 .. HorizonSteps /\ m_phys' \in Int /\ binding_step' \in Int
<1>0. HorizonSteps \in Nat /\ Infinity \in Int
  BY LimitsAssumption
<1>1. /\ waypoint \in DOMAIN demand /\ demand[waypoint] # NoDynamics
      /\ waypoint' = waypoint + 1 /\ demand' = demand
  BY DEF Certificate!EvaluateWaypoint, Certificate!Returned
<1>2. demand \in [Certificate!Steps -> [Joints -> Int] \cup {NoDynamics}]
  BY <1>1 DEF CertificateTypeOK, Certificate!NoTrajectory
<1>3. /\ waypoint \in 0 .. HorizonSteps - 1 /\ demand[waypoint] \in [Joints -> Int]
      /\ m_phys \in Int /\ binding_step \in Int
  BY <1>1, <1>2 DEF CertificateTypeOK, Certificate!Steps
<1>4. PICK i \in Joints :
        /\ \A k \in Joints : Certificate!Margin(demand[waypoint], i) <= Certificate!Margin(demand[waypoint], k)
        /\ IF Certificate!Tighter(Certificate!Margin(demand[waypoint], i))
             THEN m_phys' = Certificate!Margin(demand[waypoint], i) /\ binding_step' = waypoint
             ELSE UNCHANGED <<m_phys, binding_step>>
  BY DEF Certificate!EvaluateWaypoint
<1> DEFINE margin == Certificate!Margin(demand[waypoint], i)
<1>5. margin \in Int /\ margin < Infinity
  BY <1>3, MarginType
<1>6. Certificate!Evaluated' = Certificate!Evaluated \cup {waypoint}
  BY <1>0, <1>1, <1>3 DEF Certificate!Evaluated
<1>7. \A j \in Certificate!Evaluated : j \in 0 .. waypoint - 1 /\ j # waypoint
  BY <1>3 DEF Certificate!Evaluated
<1>8. ASSUME NEW j \in Certificate!Evaluated, NEW k \in Joints
      PROVE  Certificate!Margin(demand[j], k) \in Int
  <2>1. j \in Certificate!Steps /\ demand[j] # NoDynamics
    BY <1>0, <1>3 DEF Certificate!Evaluated, Certificate!Steps
  <2>2. demand[j] \in [Joints -> Int]
    BY <1>2, <2>1
  <2>3. QED
    BY <2>2, MarginType
<1>9. \A k \in Joints : Certificate!Margin(demand[waypoint], k) \in Int
  BY <1>3, MarginType
<1>least. /\ \A j \in Certificate!Evaluated, k \in Joints : m_phys <= Certificate!Margin(demand[j], k)
          /\ Certificate!Evaluated = {} => m_phys = Infinity /\ binding_step = -1
          /\ Certificate!Evaluated # {} =>
               /\ binding_step \in Certificate!Evaluated
               /\ \E k \in Joints : m_phys = Certificate!Margin(demand[binding_step], k)
               /\ \A j \in Certificate!Evaluated, k \in Joints :
                    j < binding_step => m_phys < Certificate!Margin(demand[j], k)
  BY DEF CertificateIsLeast, Certificate!IsLeast
<1>goal. SUFFICES
      /\ m_phys' \in Int /\ binding_step' \in Int
      /\ \A j \in Certificate!Evaluated \cup {waypoint}, k \in Joints : m_phys' <= Certificate!Margin(demand[j], k)
      /\ binding_step' \in Certificate!Evaluated \cup {waypoint}
      /\ \E k \in Joints : m_phys' = Certificate!Margin(demand[binding_step'], k)
      /\ \A j \in Certificate!Evaluated \cup {waypoint}, k \in Joints :
           j < binding_step' => m_phys' < Certificate!Margin(demand[j], k)
  BY <1>0, <1>1, <1>3, <1>6 DEF CertificateIsLeast, Certificate!IsLeast, Certificate!Margin
<1> HIDE DEF margin
<1>10. CASE margin < m_phys
  <2>1. m_phys' = margin /\ binding_step' = waypoint
    BY <1>4, <1>10 DEF Certificate!Tighter, margin
  <2>2. ASSUME NEW j \in Certificate!Evaluated, NEW k \in Joints
        PROVE  margin < Certificate!Margin(demand[j], k)
    BY <1>3, <1>5, <1>8, <1>10, <1>least
  <2>3. \A k \in Joints : margin <= Certificate!Margin(demand[waypoint], k)
    BY <1>4 DEF margin
  <2>4. ASSUME NEW j \in Certificate!Evaluated \cup {waypoint}, NEW k \in Joints
        PROVE  margin <= Certificate!Margin(demand[j], k)
    <3>1. CASE j = waypoint
      BY <2>3, <3>1
    <3>2. CASE j \in Certificate!Evaluated
      <4>1. margin < Certificate!Margin(demand[j], k) /\ Certificate!Margin(demand[j], k) \in Int
        BY <1>8, <2>2, <3>2
      <4>2. QED
        BY <1>5, <4>1
    <3>3. QED
      BY <3>1, <3>2
  <2>5. \A j \in Certificate!Evaluated \cup {waypoint}, k \in Joints :
          j < waypoint => margin < Certificate!Margin(demand[j], k)
    BY <1>3, <2>2
  <2>6. \E k \in Joints : margin = Certificate!Margin(demand[waypoint], k)
    BY DEF margin
  <2>7. QED
    BY <1>3, <1>5, <2>1, <2>4, <2>5, <2>6
<1>11. CASE ~(margin < m_phys)
  <2>1. m_phys' = m_phys /\ binding_step' = binding_step
    BY <1>4, <1>11 DEF Certificate!Tighter, margin
  <2>2. m_phys <= margin
    BY <1>3, <1>5, <1>11
  <2>3. Certificate!Evaluated # {}
    BY <1>5, <1>11, <1>least
  <2>4. \A k \in Joints : m_phys <= Certificate!Margin(demand[waypoint], k)
    BY <1>3, <1>4, <1>5, <1>9, <2>2 DEF margin
  <2>5. binding_step < waypoint
    BY <1>3, <1>7, <1>least, <2>3
  <2>6. \A j \in Certificate!Evaluated \cup {waypoint}, k \in Joints :
          j < binding_step => m_phys < Certificate!Margin(demand[j], k)
    BY <1>3, <1>least, <2>3, <2>5
  <2>7. QED
    BY <1>3, <1>least, <2>1, <2>3, <2>4, <2>6
<1>12. QED
  BY <1>10, <1>11

(* A waypoint without dynamics changes nothing.                            *)
LEMMA SkipStep ==
  ASSUME CertificateTypeOK, CertificateIsLeast, Certificate!SkipWaypoint
  PROVE  /\ CertificateIsLeast'
         /\ waypoint' \in 0 .. HorizonSteps
<1>0. HorizonSteps \in Nat
  BY LimitsAssumption
<1>1. /\ waypoint \in DOMAIN demand /\ demand[waypoint] = NoDynamics
      /\ waypoint' = waypoint + 1
      /\ demand' = demand /\ m_phys' = m_phys /\ binding_step' = binding_step
  BY DEF Certificate!SkipWaypoint, Certificate!Returned
<1>2. waypoint \in 0 .. HorizonSteps - 1
  BY <1>1 DEF CertificateTypeOK, Certificate!NoTrajectory, Certificate!Steps
<1>3. Certificate!Evaluated' = Certificate!Evaluated
  BY <1>0, <1>1, <1>2 DEF Certificate!Evaluated
<1>4. QED
  BY <1>0, <1>1, <1>2, <1>3 DEF CertificateIsLeast, Certificate!IsLeast, Certificate!Margin

-----------------------------------------------------------------------------
(* The invariant. *)

(* Nothing has been looked at and nothing commanded.                       *)
LEMMA InvInit == SolversInit => SolversInv
<1> SUFFICES ASSUME SolversInit PROVE SolversInv
  OBVIOUS
<1>0. MaxSpeed \in Nat /\ HorizonSteps \in Nat \ {0} /\ Infinity \in Int
  BY SolverAssumption, LimitsAssumption
<1>1. SolverTypeOK /\ BrakeIsFollowable
  <2>1. commanded.source = "none" /\ level = "none" /\ braked = FALSE
    BY DEF SolversInit, Init, PassThrough
  <2>2. measured \in [Joints -> Speeds]
    BY <1>0 DEF SolversInit, Init, Still, Speeds
  <2>3. QED
    BY <2>1, <2>2 DEF SolverTypeOK, BrakeIsFollowable
<1>2. CertificateTypeOK /\ SameFirstWaypoint
  BY <1>0 DEF SolversInit, Certificate!CertificateInit, CertificateTypeOK, SameFirstWaypoint, B2!PassNominal
<1>3. Certificate!Evaluated = {}
  BY DEF SolversInit, Certificate!CertificateInit, Certificate!Evaluated
<1>4. CertificateIsLeast
  BY <1>3 DEF SolversInit, Certificate!CertificateInit, CertificateIsLeast, Certificate!IsLeast
<1>5. QED
  BY <1>1, <1>2, <1>4 DEF SolversInv

(* What B2 says of a cycle is one of two things.                           *)
LEMMA B2Message ==
  ASSUME NEW nominal, NEW pull, NEW ok, NEW qdot, B2!SolveB2(nominal, pull, ok, qdot)
  PROVE  b2'.message \in {"nominal", "intervened"}
<1>1. B2!PassNominal.message = "nominal"
  BY DEF B2!PassNominal
<1>2. \A qddot : B2!Intervene(qddot, qdot).message = "intervened"
  BY DEF B2!Intervene
<1>3. QED
  BY <1>1, <1>2 DEF B2!SolveB2

(* A cycle begins with a horizon nothing of which has been looked at.      *)
LEMMA BeginStep ==
  ASSUME SolversInv, BeginCycle
  PROVE  SolversInv'
<1>0. HorizonSteps \in Nat \ {0} /\ Infinity \in Int
  BY LimitsAssumption
<1>1. PICK c \in Cycles, known \in BOOLEAN, later \in [1 .. HorizonSteps - 1 -> Torques \cup {NoDynamics}] :
        /\ cycle' = {c}
        /\ Certificate!Call([j \in Certificate!Steps |->
             IF j > 0 THEN later[j]
             ELSE IF known THEN B2!TauNominal(c.nominal, c.pull) ELSE NoDynamics])
  BY DEF BeginCycle
<1>2. /\ demand' = [j \in Certificate!Steps |->
             IF j > 0 THEN later[j]
             ELSE IF known THEN B2!TauNominal(c.nominal, c.pull) ELSE NoDynamics]
      /\ waypoint' = 0 /\ m_phys' = Infinity /\ binding_step' = -1
  BY <1>1 DEF Certificate!Call
<1>3. B2!TauNominal(c.nominal, c.pull) \in [Joints -> Int]
  BY TauNominalType
<1>4. Torques \subseteq [Joints -> Int]
  BY DataAssumption
<1>5. \A j \in Certificate!Steps : j > 0 => j \in 1 .. HorizonSteps - 1
  BY <1>0 DEF Certificate!Steps
<1>6. \A j \in 1 .. HorizonSteps - 1 : later[j] \in [Joints -> Int] \cup {NoDynamics}
  BY <1>4
<1>7. demand' \in [Certificate!Steps -> [Joints -> Int] \cup {NoDynamics}]
  BY <1>2, <1>3, <1>5, <1>6
<1>8. 0 \in Certificate!Steps
  BY <1>0 DEF Certificate!Steps
<1>9. demand'[0] \in {B2!TauNominal(c.nominal, c.pull), NoDynamics}
  BY <1>2, <1>8
<1>10. UNCHANGED <<solver_vars, b2>>
  BY DEF BeginCycle
<1>11. SolverTypeOK' /\ BrakeIsFollowable'
  BY <1>10 DEF SolversInv, SolverTypeOK, BrakeIsFollowable, solver_vars
<1>12. CertificateTypeOK'
  BY <1>0, <1>1, <1>2, <1>7, <1>10 DEF SolversInv, CertificateTypeOK, Certificate!Steps
<1>13. SameFirstWaypoint'
  BY <1>1, <1>9 DEF SameFirstWaypoint, B2!TauNominal, B2!Required
<1>14. CertificateIsLeast'
  BY <1>1, CallIsLeast
<1>15. QED
  BY <1>11, <1>12, <1>13, <1>14 DEF SolversInv

(* One waypoint more, with dynamics or without.                            *)
LEMMA CertifyStep ==
  ASSUME SolversInv, Certify
  PROVE  SolversInv'
<1>1. UNCHANGED <<solver_vars, b2, cycle>> /\ demand' = demand
  BY DEF Certify, Certificate!SkipWaypoint, Certificate!EvaluateWaypoint
<1>2. SolverTypeOK' /\ BrakeIsFollowable'
  BY <1>1 DEF SolversInv, SolverTypeOK, BrakeIsFollowable, solver_vars
<1>3. SameFirstWaypoint'
  BY <1>1 DEF SolversInv, SameFirstWaypoint, B2!TauNominal, B2!Required
<1>4. cycle # {}
  BY DEF Certify, Certificate!SkipWaypoint, Certificate!EvaluateWaypoint, Certificate!Returned,
         SolversInv, CertificateTypeOK, Certificate!NoTrajectory
<1>5. CASE Certificate!SkipWaypoint
  <2>1. m_phys' = m_phys /\ binding_step' = binding_step
    BY <1>5 DEF Certificate!SkipWaypoint
  <2>2. QED
    BY <1>1, <1>2, <1>3, <1>4, <1>5, <2>1, SkipStep DEF SolversInv, CertificateTypeOK, Certificate!Steps
<1>6. CASE Certificate!EvaluateWaypoint
  BY <1>1, <1>2, <1>3, <1>4, <1>6, EvaluateStep DEF SolversInv, CertificateTypeOK, Certificate!Steps
<1>7. QED
  BY <1>5, <1>6 DEF Certify

(* The decision ends the cycle.                                            *)
LEMMA DecideStep ==
  ASSUME SolversInv, NEW qdot \in Measurements, Decide(qdot)
  PROVE  SolversInv'
<1>0. HorizonSteps \in Nat \ {0} /\ Infinity \in Int /\ qdot \in [Joints -> Speeds]
  BY LimitsAssumption, DataAssumption
<1>1. PICK verdict \in Verdicts : Solve(verdict, qdot)
  BY DEF Decide
<1>2. SolverTypeOK' /\ BrakeIsFollowable'
  BY <1>0, <1>1, SolveStep DEF SolversInv, SolverTypeOK
<1>3. b2'.message \in {"nominal", "intervened"}
  BY B2Message DEF Decide
<1>4. /\ cycle' = {} /\ demand' = Certificate!NoTrajectory /\ waypoint' = 0
      /\ m_phys' = Infinity /\ binding_step' = -1
  BY DEF Decide, Certificate!Call
<1>5. CertificateTypeOK' /\ SameFirstWaypoint'
  BY <1>0, <1>3, <1>4 DEF CertificateTypeOK, SameFirstWaypoint, Certificate!NoTrajectory
<1>6. CertificateIsLeast'
  BY CallIsLeast DEF Decide
<1>7. QED
  BY <1>2, <1>5, <1>6 DEF SolversInv

(* A braked cycle touches no certificate.                                  *)
LEMMA HoldStep ==
  ASSUME SolversInv, NEW qdot \in Measurements, HoldCycle(qdot)
  PROVE  SolversInv'
<1>0. qdot \in [Joints -> Speeds]
  BY DataAssumption
<1>1. PICK verdict \in Verdicts : Solve(verdict, qdot)
  BY DEF HoldCycle
<1>2. SolverTypeOK' /\ BrakeIsFollowable'
  BY <1>0, <1>1, SolveStep DEF SolversInv, SolverTypeOK
<1>3. b2'.message \in {"nominal", "intervened"}
  BY B2Message DEF HoldCycle
<1>4. UNCHANGED <<demand, waypoint, m_phys, binding_step, cycle>>
  BY DEF HoldCycle, certificate_vars
<1>5. CertificateTypeOK' /\ SameFirstWaypoint'
  BY <1>3, <1>4 DEF SolversInv, CertificateTypeOK, SameFirstWaypoint, Certificate!NoTrajectory,
                    Certificate!Steps, B2!TauNominal, B2!Required
<1>6. CertificateIsLeast'
  BY <1>4 DEF SolversInv, CertificateIsLeast, Certificate!IsLeast, Certificate!Evaluated, Certificate!Margin
<1>7. QED
  BY <1>2, <1>5, <1>6 DEF SolversInv

(* A reset, and steps that change nothing.                                 *)
LEMMA InvUnchanged ==
  ASSUME SolversInv, UNCHANGED <<level, measured, commanded, certificate_vars, b2, cycle>>, braked' \in BOOLEAN
  PROVE  SolversInv'
<1>1. SolverTypeOK' /\ BrakeIsFollowable'
  BY DEF SolversInv, SolverTypeOK, BrakeIsFollowable
<1>2. CertificateTypeOK' /\ SameFirstWaypoint'
  BY DEF SolversInv, CertificateTypeOK, SameFirstWaypoint, Certificate!NoTrajectory,
         Certificate!Steps, B2!TauNominal, B2!Required, certificate_vars
<1>3. CertificateIsLeast'
  BY DEF SolversInv, CertificateIsLeast, Certificate!IsLeast, Certificate!Evaluated, Certificate!Margin, certificate_vars
<1>4. QED
  BY <1>1, <1>2, <1>3 DEF SolversInv

(* The invariant is inductive.                                             *)
LEMMA InvStep == SolversInv /\ [SolversNext]_vars => SolversInv'
<1> SUFFICES ASSUME SolversInv, [SolversNext]_vars PROVE SolversInv'
  OBVIOUS
<1>1. CASE ResetSolvers
  BY <1>1, InvUnchanged DEF ResetSolvers, Reset
<1>2. CASE BeginCycle
  BY <1>2, BeginStep
<1>3. CASE Certify
  BY <1>3, CertifyStep
<1>4. ASSUME NEW qdot \in Measurements, Decide(qdot) PROVE SolversInv'
  BY <1>4, DecideStep
<1>5. ASSUME NEW qdot \in Measurements, HoldCycle(qdot) PROVE SolversInv'
  BY <1>5, HoldStep
<1>6. CASE UNCHANGED vars
  BY <1>6, InvUnchanged DEF vars, solver_vars, SolversInv, SolverTypeOK
<1>7. QED
  BY <1>1, <1>2, <1>3, <1>4, <1>5, <1>6 DEF SolversNext

(* The invariant holds in every reachable state.                           *)
THEOREM InvCorrect == SolversSpec => []SolversInv
BY InvInit, InvStep, PTL DEF SolversSpec

-----------------------------------------------------------------------------
(* The theorems. *)

(* The B3 solver's state is well-typed, for every box and speed.           *)
THEOREM TypeCorrect == SolversSpec => []SolverTypeOK
<1>1. SolversInv => SolverTypeOK
  BY DEF SolversInv
<1>2. QED
  BY <1>1, InvCorrect, PTL

(* The joints can follow every brake command.                              *)
THEOREM BrakeCorrect == SolversSpec => []BrakeIsFollowable
<1>1. SolversInv => BrakeIsFollowable
  BY DEF SolversInv
<1>2. QED
  BY <1>1, InvCorrect, PTL

(* The certificate is the least margin of what was looked at, with the     *)
(* first waypoint that has it.                                             *)
THEOREM CertificateCorrect == SolversSpec => []CertificateIsLeast
<1>1. SolversInv => CertificateIsLeast
  BY DEF SolversInv
<1>2. QED
  BY <1>1, InvCorrect, PTL

(* Only a decision ends a cycle.                                           *)
LEMMA OnlyDecideDecides ==
  ASSUME [SolversNext]_vars, Decided
  PROVE  \E qdot \in Measurements : Decide(qdot)
<1>1. cycle # {} /\ cycle' = {}
  BY DEF Decided, Idle
<1>2. ~ResetSolvers /\ ~BeginCycle /\ ~Certify /\ cycle' # cycle
  BY <1>1 DEF ResetSolvers, BeginCycle, Certify
<1>3. \A qdot : ~HoldCycle(qdot)
  BY <1>1 DEF HoldCycle, Idle
<1>4. QED
  BY <1>2, <1>3 DEF SolversNext, vars

(* When a decision is made, the whole horizon has been looked at.          *)
LEMMA WholeHorizon ==
  ASSUME SolversInv, cycle # {}, Certificate!Returned
  PROVE  /\ \A j \in Certificate!Steps : demand[j] # NoDynamics =>
              j \in Certificate!Evaluated /\ demand[j] \in [Joints -> Int]
         /\ 0 \in Certificate!Steps /\ m_phys \in Int
<1>0. HorizonSteps \in Nat \ {0}
  BY LimitsAssumption
<1>1. /\ demand \in [Certificate!Steps -> [Joints -> Int] \cup {NoDynamics}]
      /\ waypoint \in 0 .. HorizonSteps /\ m_phys \in Int
  BY DEF SolversInv, CertificateTypeOK
<1>2. waypoint = HorizonSteps
  BY <1>0, <1>1 DEF Certificate!Returned, Certificate!Steps
<1>3. QED
  BY <1>0, <1>1, <1>2 DEF Certificate!Evaluated, Certificate!Steps

(* A margin of at least m_safe keeps m_safe + delta_tau.                   *)
LEMMA RoomyMargin ==
  ASSUME NEW tau \in [Joints -> Int], NEW i \in Joints, NEW m \in Int,
         m >= MSafe, m <= Certificate!Margin(tau, i)
  PROVE  /\ Certificate!Magnitude(tau[i]) <= TauMax[i] - DeltaTau[i] - MSafe
         /\ B2!Abs(tau[i]) <= TauMax[i]
<1>1. TauMax[i] \in Nat /\ DeltaTau[i] \in Nat /\ MSafe \in Nat /\ tau[i] \in Int
  BY LimitsAssumption
<1>2. Certificate!Margin(tau, i) = TauMax[i] - Certificate!Magnitude(tau[i]) - DeltaTau[i]
      /\ Certificate!Magnitude(tau[i]) \in Nat
  BY MarginType
<1>3. B2!Abs(tau[i]) = Certificate!Magnitude(tau[i])
  BY DEF B2!Abs, Certificate!Magnitude
<1>4. QED
  BY <1>1, <1>2, <1>3

(* Only a horizon that clears is passed through.                           *)
LEMMA PassedClears ==
  ASSUME SolversInv, NEW qdot \in Measurements, Decide(qdot), commanded'.source = "nominal"
  PROVE  m_phys >= MSafe
<1>1. PICK verdict \in Verdicts : (Clears <=> verdict = "clears") /\ Solve(verdict, qdot)
  BY DEF Decide
<1>2. /\ Hold.source = "hold" /\ Brake(qdot).source = "brake"
      /\ PassThrough("reshaped").source = "reshaped"
  BY DEF Hold, Brake, PassThrough
<1>3. verdict = "clears"
  BY <1>1, <1>2 DEF Solve
<1>4. QED
  BY <1>1, <1>3 DEF Clears

(* What B3 passes is roomy, and B2 has nothing against it.                 *)
THEOREM PassedCorrect == SolversSpec => PassedIsRoomy
<1>1. ASSUME SolversInv, [SolversNext]_vars, Decided, commanded'.source = "nominal"
      PROVE  /\ \A j \in Certificate!Steps, i \in Joints :
                   demand[j] # NoDynamics =>
                     Certificate!Magnitude(demand[j][i]) <= TauMax[i] - DeltaTau[i] - MSafe
             /\ b2'.message = "nominal"
  <2>1. PICK qdot \in Measurements : Decide(qdot)
    BY <1>1, OnlyDecideDecides
  <2>2. m_phys >= MSafe
    BY <1>1, <2>1, PassedClears
  <2>3. cycle # {} /\ Certificate!Returned
    BY <1>1, <2>1 DEF Decided, Idle, Decide
  <2>4. ASSUME NEW j \in Certificate!Steps, NEW i \in Joints, demand[j] # NoDynamics
        PROVE  /\ Certificate!Magnitude(demand[j][i]) <= TauMax[i] - DeltaTau[i] - MSafe
               /\ B2!Abs(demand[j][i]) <= TauMax[i]
    <3>1. j \in Certificate!Evaluated /\ demand[j] \in [Joints -> Int] /\ m_phys \in Int
      BY <1>1, <2>3, <2>4, WholeHorizon
    <3>2. m_phys <= Certificate!Margin(demand[j], i)
      BY <1>1, <3>1 DEF SolversInv, CertificateIsLeast, Certificate!IsLeast
    <3>3. QED
      BY <2>2, <3>1, <3>2, RoomyMargin
  <2>5. b2'.message = "nominal"
    <3>1. PICK c \in cycle : B2!SolveB2(c.nominal, c.pull, demand[0] # NoDynamics, qdot)
      BY <2>1 DEF Decide
    <3>2. B2!PassNominal.message = "nominal"
      BY DEF B2!PassNominal
    <3>3. CASE demand[0] = NoDynamics
      BY <3>1, <3>2, <3>3 DEF B2!SolveB2
    <3>4. CASE demand[0] # NoDynamics
      <4>1. demand[0] = B2!TauNominal(c.nominal, c.pull)
        BY <1>1, <3>4 DEF SolversInv, SameFirstWaypoint
      <4>2. 0 \in Certificate!Steps
        BY <1>1, <2>3, WholeHorizon
      <4>3. demand[0] \in [Joints -> Int]
        BY <1>1, <2>3, <3>4, <4>2, WholeHorizon
      <4>4. \A i \in Joints : B2!Abs(demand[0][i]) <= TauMax[i] /\ B2!Abs(demand[0][i]) \in Int
        BY <2>4, <3>4, <4>2, <4>3 DEF B2!Abs
      <4>5. \A i \in Joints : TauMax[i] \in Nat
        BY LimitsAssumption
      <4>6. ~B2!Exceeds(B2!TauNominal(c.nominal, c.pull))
        BY <4>1, <4>4, <4>5 DEF B2!Exceeds
      <4>7. QED
        BY <3>1, <3>2, <3>4, <4>6 DEF B2!SolveB2
    <3>5. QED
      BY <3>3, <3>4
  <2>6. QED
    BY <2>4, <2>5
<1>2. SolversInv /\ [SolversNext]_vars =>
        [Decided /\ commanded'.source = "nominal" =>
          /\ \A j \in Certificate!Steps, i \in Joints :
               demand[j] # NoDynamics =>
                 Certificate!Magnitude(demand[j][i]) <= TauMax[i] - DeltaTau[i] - MSafe
          /\ b2'.message = "nominal"]_vars
  BY <1>1
<1>3. QED
  BY <1>2, InvCorrect, PTL DEF SolversSpec, PassedIsRoomy

(* An acceleration the QP may return: with the force, which it leaves out, *)
(* it needs at most the force's torque too much.                           *)
LEMMA ProjectionFits ==
  ASSUME NEW c \in Cycles, NEW qddot \in B2!ProjectQddot(c.nominal), NEW i \in Joints
  PROVE  /\ Certificate!Magnitude(B2!TauNominal([c.nominal EXCEPT !.qddot = qddot], c.pull)[i])
              <= TauMax[i] + Certificate!Magnitude(c.pull[i])
         /\ MassTimes[qddot][i] + c.nominal.bias[i] \in -TauMax[i] .. TauMax[i]
<1>1. qddot \in B2!Feasible(c.nominal.bias)
  BY DEF B2!ProjectQddot
<1>2. /\ qddot \in [Joints -> Accelerations]
      /\ MassTimes[qddot][i] \in -TauMax[i] - c.nominal.bias[i] .. TauMax[i] - c.nominal.bias[i]
  BY <1>1 DEF B2!Feasible
<1>3. /\ MassTimes[qddot] \in [Joints -> Int]
      /\ c.nominal.bias \in [Joints -> Int] /\ c.pull \in [Joints -> Int]
  BY <1>2, TauNominalType, DataAssumption
<1>4. TauMax[i] \in Nat /\ MassTimes[qddot][i] \in Int /\ c.nominal.bias[i] \in Int /\ c.pull[i] \in Int
  BY <1>3, LimitsAssumption
<1> DEFINE needed == MassTimes[qddot][i] + c.nominal.bias[i]
<1>5. needed \in -TauMax[i] .. TauMax[i]
  BY <1>2, <1>4
<1>6. B2!TauNominal([c.nominal EXCEPT !.qddot = qddot], c.pull)[i] = needed - c.pull[i]
  <2>1. c.nominal \in [qddot : [Joints -> Accelerations], bias : [Joints -> Int]]
    BY DataAssumption DEF Cycles
  <2>2. /\ [c.nominal EXCEPT !.qddot = qddot].qddot = qddot
        /\ [c.nominal EXCEPT !.qddot = qddot].bias = c.nominal.bias
    BY <2>1
  <2>3. B2!Required(qddot, c.nominal.bias)[i] = needed
    BY DEF B2!Required
  <2>4. B2!TauNominal([c.nominal EXCEPT !.qddot = qddot], c.pull)[i] =
          B2!Required(qddot, c.nominal.bias)[i] - c.pull[i]
    BY <2>2 DEF B2!TauNominal
  <2> HIDE DEF needed
  <2>5. QED
    BY <2>3, <2>4
<1> HIDE DEF needed
<1>7. Certificate!Magnitude(needed - c.pull[i]) <= TauMax[i] + Certificate!Magnitude(c.pull[i])
  BY <1>4, <1>5 DEF Certificate!Magnitude
<1>8. QED
  BY <1>5, <1>6, <1>7 DEF needed

(* B2 intervenes on an overload only, and by something that fits but for   *)
(* the force.                                                              *)
THEOREM InterventionCorrect == SolversSpec => InterventionBounded
<1>1. ASSUME SolversInv, [SolversNext]_vars, NEW c \in cycle, Decided, b2'.message = "intervened"
      PROVE  /\ \A i \in Joints :
                  Certificate!Magnitude(Commanded(c, i)) <= TauMax[i] + Certificate!Magnitude(c.pull[i])
             /\ (\A i \in Joints : c.pull[i] = 0) => b2'.qddot # c.nominal.qddot
  <2>1. PICK qdot \in Measurements : Decide(qdot)
    BY <1>1, OnlyDecideDecides
  <2>2. c \in Cycles /\ \A d \in cycle : d = c
    BY <1>1 DEF SolversInv, CertificateTypeOK
  <2>3. B2!SolveB2(c.nominal, c.pull, demand[0] # NoDynamics, qdot)
    BY <2>1, <2>2 DEF Decide
  <2>4. B2!PassNominal.message = "nominal"
    BY DEF B2!PassNominal
  <2>5. PICK qddot \in B2!ProjectQddot(c.nominal) :
          b2' = B2!Intervene(qddot, qdot) /\ B2!Exceeds(B2!TauNominal(c.nominal, c.pull))
    BY <1>1, <2>3, <2>4 DEF B2!SolveB2
  <2>6. b2'.qddot = qddot
    BY <2>5 DEF B2!Intervene
  <2>7. \A i \in Joints :
          Certificate!Magnitude(Commanded(c, i)) <= TauMax[i] + Certificate!Magnitude(c.pull[i])
    BY <2>2, <2>6, ProjectionFits DEF Commanded
  <2>8. ASSUME \A i \in Joints : c.pull[i] = 0, qddot = c.nominal.qddot
        PROVE  FALSE
    <3>1. PICK i \in Joints : B2!Abs(B2!TauNominal(c.nominal, c.pull)[i]) > TauMax[i]
      BY <2>5 DEF B2!Exceeds
    <3>2. MassTimes[c.nominal.qddot][i] + c.nominal.bias[i] \in -TauMax[i] .. TauMax[i]
      BY <2>2, <2>8, ProjectionFits
    <3>3. /\ MassTimes[c.nominal.qddot][i] \in Int /\ c.nominal.bias[i] \in Int /\ TauMax[i] \in Nat
          /\ B2!TauNominal(c.nominal, c.pull)[i] =
               MassTimes[c.nominal.qddot][i] + c.nominal.bias[i] - c.pull[i]
      BY <2>2, TauNominalType, LimitsAssumption
    <3>4. QED
      BY <2>8, <3>1, <3>2, <3>3 DEF B2!Abs
  <2>9. QED
    BY <2>6, <2>7, <2>8
<1>2. SolversInv /\ [SolversNext]_vars =>
        [\A c \in cycle : Decided /\ b2'.message = "intervened" =>
          /\ \A i \in Joints :
               Certificate!Magnitude(Commanded(c, i)) <= TauMax[i] + Certificate!Magnitude(c.pull[i])
          /\ (\A i \in Joints : c.pull[i] = 0) => b2'.qddot # c.nominal.qddot]_vars
  BY <1>1
<1>3. QED
  BY <1>2, InvCorrect, PTL DEF SolversSpec, InterventionBounded
=============================================================================
