------------------------- MODULE B2ConstraintSolver -------------------------
(***************************************************************************)
(* B2ConstraintSolver::solve: the reactive alternative to B3.  It looks at *)
(* the waypoint to be commanded only; if that needs more torque than a     *)
(* joint has, it commands the nearest acceleration a joint can realise,    *)
(* from where the robot is.  It keeps nothing from cycle to cycle.         *)
(*                                                                         *)
(* The mass matrix is the function MassTimes; accelerations are on a grid, *)
(* on which the QP is solved exactly or not at all.  Units are those of    *)
(* B3ConstraintSolver.                                                     *)
(***************************************************************************)
EXTENDS Integers, FiniteSetsExt

CONSTANTS
  Joints,
  TauMax,
  Accelerations,   \* the grid
  MassTimes        \* mass * qddot, for every acceleration on it

VARIABLE b2   \* what it last commanded, as reported on /diagnostics

Abs(x) == IF x < 0 THEN -x ELSE x

\* A waypoint is the acceleration it asks for and the bias torque of its
\* position and velocity; pull is J^T f, which relieves the joint.
Required(qddot, bias) == [i \in Joints |-> MassTimes[qddot][i] + bias[i]]
TauNominal(nominal, pull) ==
  [i \in Joints |-> Required(nominal.qddot, nominal.bias)[i] - pull[i]]

Exceeds(tau) == \E i \in Joints : Abs(tau[i]) > TauMax[i]

Distance(a, b) == MapThenSumSet(LAMBDA i : (a[i] - b[i]) * (a[i] - b[i]), Joints)

\* Plausible bug: the bounds are not shifted by the bias.
FeasibleWithoutBias(bias) ==
  {a \in [Joints -> Accelerations] :
     \A i \in Joints : MassTimes[a][i] \in -TauMax[i] .. TauMax[i]}

\* The constraints of the QP.  The force is not in them.
Feasible(bias) ==
  {a \in [Joints -> Accelerations] :
     \A i \in Joints : MassTimes[a][i] \in -TauMax[i] - bias[i] .. TauMax[i] - bias[i]}

ProjectQddot(nominal) ==
  LET distance == [a \in Feasible(nominal.bias) |-> Distance(a, nominal.qddot)] IN
  {a \in DOMAIN distance : \A b \in DOMAIN distance : distance[a] <= distance[b]}

-----------------------------------------------------------------------------
PassNominal == [message |-> "nominal"]

\* One control step from the measured velocities: the new velocities, and
\* twice the displacements.
Intervene(qddot, qdot) ==
  [message |-> "intervened",
   qddot   |-> qddot,
   qdot    |-> [i \in Joints |-> qdot[i] + qddot[i]],
   travel  |-> [i \in Joints |-> 2 * qdot[i] + qddot[i]]]

\* Dynamics that cannot be computed and a QP that the solver gives up on both
\* pass the nominal waypoint.
SolveB2(nominal, pull, dynamics_ok, qdot) ==
  \/ /\ ~dynamics_ok
     /\ b2' = PassNominal
  \/ /\ dynamics_ok
     /\ ~Exceeds(TauNominal(nominal, pull))
     /\ b2' = PassNominal
  \/ /\ dynamics_ok
     /\ Exceeds(TauNominal(nominal, pull))
     /\ \E qddot \in ProjectQddot(nominal) : b2' = Intervene(qddot, qdot)
  \/ /\ dynamics_ok
     /\ Exceeds(TauNominal(nominal, pull))
     /\ b2' = PassNominal
=============================================================================
