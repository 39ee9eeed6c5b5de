----------------------- MODULE TorqueMarginCertificate -----------------------
(***************************************************************************)
(* computeMPhysOverTrajectory: the least of tau_max - |tau| - delta_tau    *)
(* over the waypoints and joints of a trajectory, and the waypoint at      *)
(* which it is found, one waypoint per step.  A waypoint whose dynamics    *)
(* cannot be computed does not count.                                      *)
(***************************************************************************)
EXTENDS Integers

CONSTANTS
  Joints,
  TauMax, DeltaTau,   \* per joint
  HorizonSteps,       \* waypoints of the trajectory
  Infinity,           \* more than any margin
  NoDynamics          \* computeDynamics() failed

VARIABLES
  demand,        \* the torques each waypoint needs, external force included
  waypoint,      \* the next one to look at
  m_phys,
  binding_step

Steps == 0 .. HorizonSteps - 1
Magnitude(x) == IF x < 0 THEN -x ELSE x

\* Plausible bug: a torque counts with its sign.
SignedMargin(tau, i) == TauMax[i] - tau[i] - DeltaTau[i]
Margin(tau, i) == TauMax[i] - Magnitude(tau[i]) - DeltaTau[i]

\* Plausible bug: of two waypoints as tight, the later binds.
AsTight(margin) == margin <= m_phys
Tighter(margin) == margin < m_phys

-----------------------------------------------------------------------------
\* Between calls there is nothing to look at.
NoTrajectory == [j \in {} |-> NoDynamics]

CertificateInit ==
  /\ demand = NoTrajectory
  /\ waypoint = 0
  /\ m_phys = Infinity
  /\ binding_step = -1

Call(trajectory) ==
  /\ demand' = trajectory
  /\ waypoint' = 0
  /\ m_phys' = Infinity
  /\ binding_step' = -1

Returned == waypoint \notin DOMAIN demand

SkipWaypoint ==
  /\ ~Returned
  /\ demand[waypoint] = NoDynamics
  /\ waypoint' = waypoint + 1
  /\ UNCHANGED <<demand, m_phys, binding_step>>

\* The joint with the least margin of the waypoint has the last word.
EvaluateWaypoint ==
  /\ ~Returned
  /\ demand[waypoint] # NoDynamics
  /\ waypoint' = waypoint + 1
  /\ \E i \in Joints :
       LET margin == Margin(demand[waypoint], i) IN
       /\ \A k \in Joints : margin <= Margin(demand[waypoint], k)
       /\ IF Tighter(margin) THEN m_phys' = margin /\ binding_step' = waypoint
          ELSE UNCHANGED <<m_phys, binding_step>>
  /\ UNCHANGED demand

-----------------------------------------------------------------------------
Evaluated == {j \in 0 .. waypoint - 1 : demand[j] # NoDynamics}

\* Of the waypoints looked at, none that could be evaluated has a smaller
\* margin in any joint than m_phys, and binding_step is the first that has
\* this one; if none could be evaluated the margin is infinite and no step
\* binds.
IsLeast ==
  /\ \A j \in Evaluated, i \in Joints : m_phys <= Margin(demand[j], i)
  /\ Evaluated = {} => m_phys = Infinity /\ binding_step = -1
  /\ Evaluated # {} =>
       /\ binding_step \in Evaluated
       /\ \E i \in Joints : m_phys = Margin(demand[binding_step], i)
       /\ \A j \in Evaluated, i \in Joints :
            j < binding_step => m_phys < Margin(demand[j], i)
=============================================================================
