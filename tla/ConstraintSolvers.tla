-------------------------- MODULE ConstraintSolvers --------------------------
(***************************************************************************)
(* The two constraint solvers on the same control cycles, as the           *)
(* experiments compare them: each gets a horizon, the measured velocities  *)
(* and the force.  B3 certifies the horizon, waypoint by waypoint, and     *)
(* reacts to the verdict; B2 looks at the horizon's first waypoint.        *)
(*                                                                         *)
(* The force is the same for both here, its change within a period being   *)
(* the subject of ForceWarning.  What a waypoint needs beyond the first    *)
(* is data.                                                                *)
(***************************************************************************)
EXTENDS B3ConstraintSolver

CONSTANTS
  TauMax, DeltaTau, MSafe, HorizonSteps, Infinity, NoDynamics,
  Accelerations, MassTimes,
  Nominals,   \* what the first waypoint may ask for: [qddot, bias]
  Pulls,      \* torques the force may put on the joints
  Torques,    \* torques a later waypoint may need
  Measurements   \* velocities the arm may have

ASSUME LimitsAssumption ==
  /\ TauMax \in [Joints -> Nat \ {0}]
  /\ DeltaTau \in [Joints -> Nat]
  /\ MSafe \in Nat
  /\ HorizonSteps \in Nat \ {0}
  /\ Infinity \in Int /\ MSafe < Infinity
  /\ \A i \in Joints : TauMax[i] < Infinity

ASSUME DataAssumption ==
  /\ Accelerations \subseteq Int
  /\ MassTimes \in [[Joints -> Accelerations] -> [Joints -> Int]]
  /\ Nominals \subseteq [qddot : [Joints -> Accelerations], bias : [Joints -> Int]]
  /\ Pulls \subseteq [Joints -> Int]
  /\ Torques \subseteq [Joints -> Int]
  /\ Measurements \subseteq [Joints -> Speeds]
  /\ NoDynamics \notin [Joints -> Int]

VARIABLES
  demand, waypoint, m_phys, binding_step,   \* the certificate's
  b2,                                       \* B2's
  cycle   \* the first waypoint and the force of a cycle under way

Certificate == INSTANCE TorqueMarginCertificate
B2 == INSTANCE B2ConstraintSolver

certificate_vars == <<demand, waypoint, m_phys, binding_step>>
vars == <<solver_vars, certificate_vars, b2, cycle>>

Cycles == [nominal : Nominals, pull : Pulls]

-----------------------------------------------------------------------------
SolversInit ==
  /\ Init
  /\ Certificate!CertificateInit
  /\ b2 = B2!PassNominal
  /\ cycle = {}

Idle == cycle = {}

ResetSolvers ==
  /\ Idle
  /\ Reset
  /\ UNCHANGED <<certificate_vars, b2, cycle>>

\* solve() is given a horizon.
BeginCycle ==
  /\ Idle
  /\ ~braked
  /\ \E c \in Cycles, known \in BOOLEAN, later \in [1 .. HorizonSteps - 1 -> Torques \cup {NoDynamics}] :
       /\ cycle' = {c}
       /\ Certificate!Call([j \in Certificate!Steps |->
            IF j > 0 THEN later[j]
            ELSE IF known THEN B2!TauNominal(c.nominal, c.pull) ELSE NoDynamics])
  /\ UNCHANGED <<solver_vars, b2>>

Certify ==
  /\ Certificate!SkipWaypoint \/ Certificate!EvaluateWaypoint
  /\ UNCHANGED <<solver_vars, b2, cycle>>

\* The verdict on the horizon; a tight one is reshaped, with either outcome.
Clears == m_phys >= MSafe

Decide(qdot) ==
  /\ Certificate!Returned
  /\ \E c \in cycle : B2!SolveB2(c.nominal, c.pull, demand[0] # NoDynamics, qdot)
  /\ \E verdict \in Verdicts : (Clears <=> verdict = "clears") /\ Solve(verdict, qdot)
  /\ cycle' = {}
  /\ Certificate!Call(Certificate!NoTrajectory)

\* Once braked B3 computes no certificate.
HoldCycle(qdot) ==
  /\ Idle
  /\ braked
  /\ \E verdict \in Verdicts : Solve(verdict, qdot)
  /\ \E c \in Cycles, known \in BOOLEAN : B2!SolveB2(c.nominal, c.pull, known, qdot)
  /\ UNCHANGED <<certificate_vars, cycle>>

SolversNext ==
  \/ ResetSolvers
  \/ BeginCycle
  \/ Certify
  \/ \E qdot \in Measurements : Decide(qdot) \/ HoldCycle(qdot)

SolversSpec == SolversInit /\ [][SolversNext]_vars

-----------------------------------------------------------------------------
(***************************************************************************)
(* The certificate is the least margin of the waypoints looked at, with    *)
(* the first waypoint that has it, whatever could not be evaluated between *)
(* them.                                                                   *)
(***************************************************************************)
CertificateIsLeast == Certificate!IsLeast

Decided == ~Idle /\ Idle'

(***************************************************************************)
(* What B3 passes under Level 0 has been looked at: every waypoint of the  *)
(* horizon that has dynamics keeps m_safe + delta_tau in every joint, and  *)
(* B2, which looks at the first with bounds of its own, has no objection.  *)
(***************************************************************************)
PassedIsRoomy ==
  [][Decided /\ commanded'.source = "nominal" =>
       /\ \A j \in Certificate!Steps, i \in Joints :
            demand[j] # NoDynamics =>
              Certificate!Magnitude(demand[j][i]) <= TauMax[i] - DeltaTau[i] - MSafe
       /\ b2'.message = "nominal"]_vars

\* What the acceleration that B2 commands needs of a joint in this cycle.
Commanded(c, i) == B2!TauNominal([c.nominal EXCEPT !.qddot = b2'.qddot], c.pull)[i]

(***************************************************************************)
(* B2 intervenes on an overload only, and what it commands needs no more   *)
(* than the joints have but for the force, which its QP leaves out: with   *)
(* no force it fits, and is not what was found too much.                   *)
(***************************************************************************)
InterventionBounded ==
  [][\A c \in cycle : Decided /\ b2'.message = "intervened" =>
       /\ \A i \in Joints :
            Certificate!Magnitude(Commanded(c, i)) <= TauMax[i] + Certificate!Magnitude(c.pull[i])
       /\ (\A i \in Joints : c.pull[i] = 0) => b2'.qddot # c.nominal.qddot]_vars

(***************************************************************************)
(* "Project onto the torque-feasible set before committing to it"          *)
(* (b2_constraint_solver.hpp:19-20): the acceleration B2 commands instead  *)
(* of one that it found to need too much does not need too much.           *)
(***************************************************************************)
InterventionFits ==
  [][\A c \in cycle : Decided /\ b2'.message = "intervened" =>
       \A i \in Joints : Certificate!Magnitude(Commanded(c, i)) <= TauMax[i]]_vars
=============================================================================
