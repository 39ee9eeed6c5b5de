---------------------------- MODULE LocalPlanner ----------------------------
(***************************************************************************)
(* The local planner: the component that owns the timer and the goal, the  *)
(* trajectory operator and the constraint solver it drives in turn, and    *)
(* the margin landscape the certificate finds along the route.             *)
(*                                                                         *)
(* The component is external (moveit_hybrid_planning); its steps are the   *)
(* ones the plugins of this repository are written against: a received     *)
(* route makes it active, a goal starts its timer, and in every iteration  *)
(* the progress check comes before getLocalTrajectory() and solve().       *)
(***************************************************************************)
EXTENDS HorizonTrajectoryOperator

CONSTANTS
  MaxGoals   \* bound: goals accepted

ASSUME GoalsAssumption == MaxGoals \in Nat

VARIABLES
  braked, level, measured, commanded,  \* the solver's
  state,      \* "await" or "active": await_global_trajectory, local_planning_active
  timer,      \* is a goal running?
  goals,      \* goals accepted
  successes,  \* goals that succeeded
  unsafe,     \* sampled durations of the route whose margin is below m_safe
  surprised   \* did the landscape change since the last cycle?

\* One joint stands for the arm here; the brake's arithmetic is the solver's
\* own concern.
Solver == INSTANCE B3ConstraintSolver WITH Joints <- {"arm"}, MaxSpeed <- 0, QddotBox <- 1

solver_vars == <<braked, level, measured, commanded>>
component_vars == <<state, timer, goals, successes>>
landscape_vars == <<unsafe, surprised>>
vars == <<operator_vars, solver_vars, component_vars, landscape_vars>>

-----------------------------------------------------------------------------
PlannerInit ==
  /\ Init
  /\ Solver!Init
  /\ state = "await"
  /\ timer = FALSE
  /\ goals = 0
  /\ successes = 0
  /\ unsafe = {}
  /\ surprised = FALSE

AcceptGoal ==
  /\ ~timer
  /\ goals < MaxGoals
  /\ timer' = TRUE
  /\ goals' = goals + 1
  /\ UNCHANGED <<operator_vars, solver_vars, state, successes, landscape_vars>>

\* The durations a horizon may sample: whole steps and the route's end.
SampledDurations(total) == { d \in 0 .. total : d % Dt = 0 \/ d = total }

\* A route the cascade could not fix is tracked too, so any of its samples
\* may be unsafe.  The solver is not told of a new route.
GlobalSolution(duration) ==
  /\ AddTrajectorySegment(duration)
  /\ state' = "active"
  /\ unsafe' \in SUBSET SampledDurations(duration)
  /\ surprised' = TRUE
  /\ UNCHANGED <<solver_vars, timer, goals, successes>>

\* The force on the arm starts or changes: other samples are unsafe now.
ForceChanges ==
  /\ ~Unhandled
  /\ unsafe' \in SUBSET SampledDurations(total_duration)
  /\ surprised' = TRUE
  /\ UNCHANGED <<operator_vars, solver_vars, component_vars>>

\* The component's reset() resets both plugins.
ResetPlugins == Reset /\ Solver!Reset

\* The progress check, before anything else in an iteration.
Iterating == timer /\ state = "active"

Succeed(near) ==
  /\ Iterating
  /\ Done(near)
  /\ ResetPlugins
  /\ state' = "await"
  /\ timer' = FALSE
  /\ successes' = successes + 1
  /\ UNCHANGED <<goals, landscape_vars>>

\* The horizon solve() is given: sampled from the target just advanced.
HorizonBeforeAdvance == Horizon(current_duration, total_duration)
LocalHorizon == Horizon(current_duration', total_duration)

\* The whole horizon counts, not the sample about to be commanded.
FirstSampleClears == current_duration' \notin unsafe
HorizonClears == LocalHorizon \cap unsafe = {}

Cycle(near) ==
  /\ Iterating
  /\ ~Done(near)
  /\ GetLocalTrajectory(near)
  /\ \E verdict \in Solver!Verdicts :
       /\ HorizonClears <=> verdict = "clears"
       /\ Solver!Solve(verdict, Solver!Still)
  /\ surprised' = FALSE
  /\ UNCHANGED <<component_vars, unsafe>>

TimePasses ==
  /\ ClockTick
  /\ UNCHANGED <<solver_vars, component_vars, landscape_vars>>

\* executeIteration(), the callback of the goal's timer.
Iteration == \E near \in BOOLEAN : Succeed(near) \/ Cycle(near)

PlannerNext ==
  \/ AcceptGoal
  \/ \E duration \in 0 .. MaxDuration : GlobalSolution(duration)
  \/ ForceChanges
  \/ Iteration
  \/ TimePasses

PlannerSpec == PlannerInit /\ [][PlannerNext]_vars

\* The timer keeps firing until the goal ends, and time passes.
PlannerFairSpec == PlannerSpec /\ WF_vars(Iteration) /\ WF_vars(TimePasses)

-----------------------------------------------------------------------------
(* The type invariant. *)
PlannerTypeOK ==
  /\ OperatorTypeOK
  /\ Solver!SolverTypeOK
  /\ state \in {"await", "active"}
  /\ timer \in BOOLEAN
  /\ goals \in 0 .. MaxGoals
  /\ successes \in 0 .. goals
  /\ unsafe \in SUBSET (0 .. MaxDuration)
  /\ surprised \in BOOLEAN

(***************************************************************************)
(* A goal is not reported done on the strength of a route that is gone: an *)
(* empty reference counts as full progress (getTrajectoryProgress returns  *)
(* 1.0), so the component must hold a reference whenever it may iterate,   *)
(* and one that no goal before has used.                                   *)
(***************************************************************************)
SuccessNeedsRoute ==
  /\ successes + (IF state = "active" THEN 1 ELSE 0) <= segments
  /\ state = "active" => total_duration # Empty

(***************************************************************************)
(* Nothing of one goal's motion reaches the next: while the component      *)
(* waits for a route no brake is set and no target or progress is left.    *)
(***************************************************************************)
IdleIsClean ==
  state = "await" => ~braked /\ total_duration = Empty /\ current_duration = 0

(***************************************************************************)
(* Under Level 0 the target only ever moves to where the whole horizon     *)
(* ahead of the new target has been found safe.                            *)
(***************************************************************************)
AdvancesOntoSafeHorizon ==
  [][current_duration' > current_duration /\ commanded'.source = "nominal" =>
       \A j \in 0 .. HorizonSteps - 1 :
         \A d \in unsafe : d # IF current_duration' + j * Dt < total_duration
                               THEN current_duration' + j * Dt
                               ELSE total_duration]_vars

(***************************************************************************)
(* "Predictive": coming from Level 0, a brake on a landscape that has not  *)
(* changed is set off by a sample still ahead, never by the target's own.  *)
(***************************************************************************)
BrakeIsPredictive ==
  [][~surprised /\ commanded.source = "nominal" /\ commanded'.source = "brake" =>
       current_duration' \notin unsafe]_vars

(***************************************************************************)
(* A goal under way ends, or the robot is still away from the target at    *)
(* the end of the route: neither a tolerance never met on the way, a brake *)
(* for ever, a new route nor a changed force keeps the goal from getting   *)
(* that far.                                                               *)
(***************************************************************************)
GoalEnds ==
  Iterating ~> \/ ~Iterating
               \/ current_duration = total_duration /\ ~within_tolerance

(* The component with its plugins does what LocalPlanning promises.        *)
Promise == INSTANCE LocalPlanning WITH
  phase <- IF state = "await" THEN "idle" ELSE IF braked THEN "stopped" ELSE "following",
  left  <- IF total_duration = Empty THEN 0 ELSE total_duration - current_duration

RefinesLocalPlanning == Promise!Spec
=============================================================================
