# FR3 hybrid planning: specification

TLA+ models, TLC runs and TLAPS proofs for the torque-aware local planning
stack of this repository: the B3 plugins of `fr3_b3_local_planner`, the
component that drives them, what they and the B2 solver make of a horizon and
of an external force, the torque controller that follows their commands, the
harness that runs the experiments, and the scripts that evaluate them.  Paths below are relative to the repository root.

## The system

A Franka FR3 arm is moved by MoveIt's hybrid planner.  A global planner (OMPL,
or `fr3_replay_global_planner` returning a captured route) publishes a route;
a local planner follows it at 50 Hz.  What the repository adds is a *torque
margin certificate* around the local planner: for every joint and every
waypoint, `tau_max - |tau| - delta_tau`, and a hierarchy of reactions when the
least of these falls below `m_safe`.

| Component | State | Operations | Correct when |
|---|---|---|---|
| Retime search, `route_retime_search.cpp` | locals of one call: bracket, grid index, first feasible index | `searchRetimeLambda`, `searchRetimeLambdaRelative`, `retimeTrajectory` | what it returns clears the target; it does not give up while a grid point clears; it returns the smallest dilation when the margin is monotonic |
| Route-level cascade, `horizon_trajectory_operator.cpp:152-420` | `reference_trajectory_`, the candidate | `addTrajectorySegment` | a route below `m_safe` is tracked only when nothing else is left; the planned path is left only if none of the dilations the search probes makes it clear; the slowdowns do not multiply |
| Horizon operator, `horizon_trajectory_operator.cpp:422-607` | `current_duration_`, `has_stall_start_`, `stall_start_time_` | `reset`, `getLocalTrajectory`, `getTrajectoryProgress` | the target moves when the robot is near or has waited; it does reach the end; done only at the end |
| B3 constraint solver, `b3_constraint_solver.cpp` | `braked_` | `reset`, `solve` | passes only what clears, brakes in a way the joints can follow, holds after that |
| Local planner component (external, `moveit_hybrid_planning`) | state machine, timer, current goal | global-solution and goal callbacks, `executeIteration`, `reset` | a goal succeeds at the end of its own route; nothing of one goal reaches the next |
| Certificate, `torque_margin_certificate.cpp` | locals of one call | `computeMPhysOverTrajectory` | the minimum over joints and waypoints that can be evaluated, with the first step it binds at |
| Reshape QP and via-point route, `reshape_qp.cpp`, `via_point_trajectory.cpp` | none | `tryReshape`, `buildViaPointTrajectory` | (numerical) |
| Force schedule and start clocks, `fr3_dynamics`, both solvers, the operator | `force_started_`, `force_t0_sec_`, one pair each | the start callback, `sampleForceScheduleAt` | the force is noticed before it overloads a joint, however far the clocks are apart; one that nobody started is not noticed |
| B2 constraint solver, `b2_constraint_solver.cpp` | force clock only | `solve`, `projectQddot` | intervenes on an overload only, with an acceleration that fits |
| Gravity feedforward controller, `gravity_feedforward_controller.cpp` | targets, integral, message buffer, lifecycle state | `on_*`, `update` | holds until told otherwise, by a message of this activation; every number reaches its own joint; no windup |
| Experiment harness, `run_experiment.py` | the processes of a run, launch log, bag | `run_one`, `send_goal`, `wait_ready`, the two kills | a run that returns has recorded its own robot; one that ends leaves nothing running; each ends |
| Offline metrics, `compute_metrics.py`, `validate_prediction.py` | a bag | `compute`, `validate` | margins, interventions and prediction errors are those of the run, whatever of it was recorded |
| Replay planner, launch files | none | | (a constant; wiring) |

The plugins do not know of each other.  The component calls them in turn: a
received route goes to `addTrajectorySegment`; in every iteration
`getTrajectoryProgress` comes first, then either success and a reset of both
plugins, or `getLocalTrajectory`, `solve` and the publication of its command.
The horizon is the only thing that passes from one plugin to the other.  The
solver is not told of a new route, and the operator is not told of a brake.
The solver's command, one trajectory point per cycle, reaches the torque
controller as a message; its control loop runs faster, on a thread of its own.

What makes this hard to test: the margin is not monotonic in the dilation, so
the searches cannot rely on it; some levels install a route without looking at
its margin; the target is moved by a tolerance *and* by a timeout in real time
which cycles, segments and resets interleave with; the horizon is sampled
after the target moves and the command is its first sample; the force changes
the margins at any time; and the brake's stickiness is a matter of who resets
whom and when.  `PROJECT.json` lists each of these at its line.

## Modules

| Module | Models |
|---|---|
| `RetimeRange` | the dilations, as ticks above 1, and the results a search may return |
| `RetimeContract` | abstract search: one step from a feasible set to a result |
| `RetimeSearch` | `searchRetimeLambda`, one step per certificate evaluation; the relative search has the same control over another margin |
| `RouteCascade` | `addTrajectorySegment` after the time parametrisation: pretrack, Levels 0-3 |
| `HorizonTrajectoryOperator` | segments, resets, control cycles and the stall clock |
| `TorqueMarginCertificate` | `computeMPhysOverTrajectory`, one waypoint per step |
| `B3ConstraintSolver` | `reset` and `solve`, with the brake's arithmetic |
| `B2ConstraintSolver` | B2's check, projection and integration |
| `ConstraintSolvers` | both solvers on the same cycles; instantiates the certificate and B2 |
| `LocalPlanning` | abstract: routes are followed to their end, goals succeed there |
| `LocalPlanner` | the component; extends the operator, instantiates the solver, adds goals, state machine and the margin landscape |
| `ForceSchedule` | the ramp schedule, used by the next and by `RunMetrics` |
| `ForceWarning` | an external force on the nominal motion: the clocks of simulator and solver, the ramp, B2's check of the moment and B3's certificate of the horizon |
| `Experiment` | `run_one` over a sweep: the processes it starts, waits for and kills, and what abandoned runs leave |
| `GravityFeedforward` | the torque controller: lifecycle, message buffer, targets, PD, integral and feedforward |
| `RunMetrics` | what the two scripts make of a run's `/diagnostics`, and the run that fills the bag |
| `MC*` | the instances TLC checks, with the assumptions that make the bounds interesting |
| `*_proofs` | the theorems about each; those about the operator stand before the component's, in `LocalPlanner_proofs` |

### How state and actions correspond to the code

**Retime search.**  `feasible` is the set of dilations `lambda` with
`margin_at(lambda) >= m_safe`.  `ProbeLamMax*` is the first evaluation,
`ScanGridPoint` a turn of the 41-point loop (which does not stop at its first
hit), `ScanBracket` the choice of `lo` and `hi` around `first_feasible`,
`Bisect` one of the 20 halvings, `ReturnHi` the `return hi` of either path.  A
cell of the grid has `2^Iterations` ticks, so that every midpoint of the
refinement is a tick; on the whole-interval bisection of the fast path the
midpoint is rounded down to a tick where the code keeps a fraction.

**Cascade.**  A route is a geometry (planned or via point, reshaped or not)
and a dilation; `Retimed` multiplies dilations as `retimeTrajectory` multiplies
time, in units (`Unit`, and its square for the product of two factors) in which
every factor the searches may choose is a whole number.  `safe` and `roomy` are
the routes on which the two certificate margins suffice; for the retimings of a
route they are chosen arbitrarily when the route is first measured
(`ChooseSafe`), at the grid points and between them.  `roomy_is_safe` says
whether, in the configuration at hand, the one margin implies the other.
`Pretrack` is lines 193-219, `Level0` the early return of 257-260, `Level1`, `Level2`, and
`BuildViaPoint` with `SubLevel0` to `SubLevel2` the rest, each ending in
`Settle` where the code assigns `reference_trajectory_` and returns.  The
searches are used through `RetimeRange!Results`, the contract the search
module is shown to implement, over the same grid with ticks between its points:
a dilation that clears only there may be found by a bisection and may be missed,
as in the code.

**Operator.**  `current_duration` and `total_duration` are the code's, in units
of which `Dt` make a control step; a total of `Empty` is a reference without
waypoints.  `stall_age` is `now() - stall_start_time_`, counted by `ClockTick`
up to the timeout and no further.  `target_age`, how long the target has been
where it is, is a history variable that only the properties read.  The robot's
distance to the target is the parameter `within` of a cycle.  The cascade's
effect on a new segment is its (arbitrary) duration.

**Solvers.**  `Solve(verdict, qdot)` is the whole of B3's `solve()`: the sticky
branch, Level 0, Level 2, Level 4.  `verdict` is what the certificate says of
the horizon and, if it is tight, of the reshaped one.  Velocities are in units
of one step's acceleration per period, displacements in halves of that.
`SolveB2` is B2's `solve()`: an unknown or sufficient torque passes, otherwise
`ProjectQddot` is what the QP's minimum is on a grid of accelerations, and the
last disjunct what happens if OSQP does not solve it.  The mass matrix is a
function from accelerations to torques, so nothing depends on its being one.

**Certificate.**  `demand` is what the inverse dynamics, force included, say of
each waypoint, or `NoDynamics`.  `EvaluateWaypoint` is a turn of the outer loop
with its inner one, `SkipWaypoint` the `continue`.  In `ConstraintSolvers`,
`BeginCycle` calls it on a horizon whose first waypoint B2 gets as well,
`Decide` is both solvers' decision, `HoldCycle` a cycle after a brake, in which
B3 computes no certificate and B2 goes on.  A waypoint is what it needs; the
torque of the first is made of its acceleration and bias because B2's
projection tells them apart.

**Component.**  `GlobalSolution`, `AcceptGoal`, `Succeed` and `Cycle` are the
callbacks and the two outcomes of an iteration.  `unsafe` is the set of
durations along the route whose sample does not clear; a new route or
`ForceChanges` replaces it.  `Cycle` advances the target, samples the horizon
and lets the solver decide on it in one step, as one timer callback does.

**External force.**  Time is counted in control periods.  `simulator_t0` and
`force_t0` are the moments at which the start message reached the simulator
and the solver (`force_t0_sec_`); `NotYet` is `force_started_ = false`.
`B2Exceeds` is the check of `B2ConstraintSolver::solve`, `B3Tight` the one of
`B3ConstraintSolver::solve` with `computeMPhysOverTrajectory`: waypoint `j` of
the horizon is due at `ForceTimeNow + j + 1`, since the operator adds each of
them, the first included, with a duration of `dt_`.  `Period` is a control
cycle and the time to the next.  As in `exp3_interaction_force.py`, the first
detections are compared with the overload of the *unmodified* motion, so
nothing reacts.  One joint stands for all: every check is joint by joint.

**Metrics.**  `CertifiedCycle`, `BrakedCycle` and `B2Cycle` are a control cycle up to its sample on
`/diagnostics`; `Publish` also says whether the recorder got it.  Time is in
half periods, so a cycle may come half a period late.  `Predicted` and
`Observed` are B3's two margins: the target is what the next cycle is to
command, `measured` where the arm is, at it or one waypoint behind.  The loop in
`compute()` reads the samples once and in their order, so it is run along, an
iteration as a sample is recorded: `Count` is its body, and `tally` holds its
variables, with the least margin so far for the list it takes `min()` of at
the end; `PythonMin` is what `min()` does with a NaN.  `Validated` are the pairs
`validate_prediction.py` compares.  Properties compare these with
`interventions`, a history of the run itself, and `at`.

**Torque controller.**  `Configure`, `Activate` and `Deactivate` are the
lifecycle callbacks; `Cleanup` is the transition whose callback the class does
not override.  `Receive` is the subscription's callback, enabled as soon as
the subscription exists.  `Update(acquired, dynamics, q, qdot)` is the whole of
`update()`: `acquired` says whether `readFromRT()` got the lock, `dynamics`
whether `computeDynamics()` succeeded, `q` and `qdot` what the state
interfaces read.  `pending` and `held` are the realtime buffer's two slots,
`pending` being empty when nothing was written since the last swap.
`integral` is `integral_error_` times the gain, which makes the clamp integer
arithmetic; with a gain of zero the code never touches it.  `start`, `heard`,
`strayed` and `updated` are history variables of the current activation.

**Experiment harness.**  `stage` is where `run_one()` stands.  `StartRun` is
the test of the bag directory and the first pkill, `Launch` the `Popen` with
its fresh log, `BecomeReady` and `NeverReady` the outcomes of `wait_ready()`,
`GoalExecuted` and `GoalFails` those of `send_goal()`, `StopRecorder` and
`TearDown` the `finally` block.  `alive[r]` are the live processes run `r`
started; `Reaped` is what `PKILL_PATTERN` matches.  `Interrupt` is an exception
inside the `try`, `Abandon` one outside it or the death of the harness: both
leave the processes as they are.  A pkill acts at once on every process it
matches, and the recorder has subscribed when its half second is over.

## Runs

| Run | Instance | Shows |
|---|---|---|
| `retime_search` | 3 cells of 4 ticks, 2 halvings, all 2^13 feasible sets | the search keeps its bracket, implements its contract, and is minimal within one final bracket if the margin is monotonic |
| `route_cascade` | `lam_max` = 4, 3 cells of 2 ticks, every landscape | Levels 1-3 are tried in order and installed only when they help; a level is passed only when nothing it probes clears; the dilation stays within `lam_max` |
| `horizon_operator` | `Dt` 2, routes up to 5, horizon 3, timeout 3 ticks, 3 segments | stall clock and advance rules; under fairness every route is traversed |
| `horizon_stale_stall` | the same, 2 segments | **violated**: see below |
| `constraint_solvers` | 2 coupled joints, speeds -3..3, box 2, horizon 3, 4 first waypoints, 2 forces | the certificate, what B3 passes and B2 projects, whether the joints can follow the brake |
| `b2_projection` | the same | **violated**: see below |
| `local_planner` | as the operator, horizon 2, timeout 2, 3 routes, 2 goals | composition, and refinement of `LocalPlanning`; under fairness a goal ends or the robot is away from the end of its route |
| `force_warning` | horizon 3, onset and ramp 3 periods, routes of 5 waypoints, skew up to 2, 11 periods | who notices the force, and when |
| `run_metrics` | horizon 3, 4 cycles, 1 lost sample, ramp of two periods starting at the horizon's end | the numbers computed from a bag are those of the run |
| `experiment` | 3 runs, 2 domains, 1 bag directory | isolation, teardown and termination of runs under crashes and interrupts |
| `orphan_recorder` | the same, 2 runs | **violated**: see below |
| `gravity_feedforward` | 2 joints, one with an integral; positions and velocities 0 and 1; 4 messages | targets, windup and start over every order of lifecycle, messages and updates |

**Bounds.**  With 3 cells the first feasible grid point can be the first, an
inner or the last-but-one, and with 4 ticks a cell has interior points that
only a bisection finds.  In the cascade two ticks
a cell are enough for a dilation off the grid: it is where a landscape can clear
without the search noticing, and where a bisection can end.  `lam_max` 4 (the
default) leaves dilations strictly inside the range and products (up to 16)
beyond it.  `MaxDuration` is two and a half
control steps: a first target, one beyond it and a clipped last step.  A third
segment or route lets a replacement be replaced.  Two goals show what the
first leaves to the second.  The timeouts exceed one tick, so a stall spans
cycles.  `MaxSegments`, `MaxGoals` and `MaxDuration` only guard the actions
that count or choose; `stall_age` and `target_age` saturate at the timeout,
the only value they are compared with.

In `force_warning` a waypoint needs 0 (no force can overload it), 5 (the ramp
does) or -8 (too much until the ramp relieves it), so both directions of the
force occur; the onset is exactly the horizon, as in the experiment (0.3 s,
15 periods of 0.02 s).  `MaxTime` leaves room for the message, the start and
the motion in any order and for the whole ramp during the motion.  `MaxSkew`
is no bound of convenience but the assumption of the warning: `SkewCovered`
says how much of it `m_safe + delta_tau` pays for, and without it the code
promises nothing.

In `constraint_solvers` every kind of first waypoint occurs (roomy, tight, too
much with or without the force, in either direction), the later ones are
roomy, exactly at `m_safe`, tight in either joint, or unknown; three of them
let the binding one be first, inner or last with an unknown one anywhere.  The
mass matrix couples the joints, so that a projection moves both; the speeds
straddle the box.  In `run_metrics` four cycles let an episode end and another
begin with the lost sample in any place, and a prediction three steps ahead
still meet its observation; the gaps of 2 and 3 half periods give exact, late
and tied alignments; the motions cross zero and are loaded or relieved by the
force.

The controller's
messages come in the configured and the reverse joint order, with one joint,
an unknown joint, missing velocities and no points; positions 0 and 1 give
errors of either sign, and a clamp of 2 needs two periods to saturate.  Its
state space is finite without a bound: the integral is clamped.

In `experiment` three runs let one be abandoned, one be refused or follow it,
and one more follow that; two domains let later runs draw the first one's
again or not; one directory makes every run meet what the others left in it
(a bag, a log), and bags may be removed.

**Fairness.**  Three runs assume any.  `experiment` assumes weak fairness of
`Harness`: the Python process goes on while it lives, and every wait it makes
has a deadline.  `horizon_operator` assumes weak fairness of `ControlCycle`, because the component's timer is not cancelled while it is
active, and of `ClockTick`, because time passes; `local_planner` of `Iteration`
and `TimePasses` for the same reasons.  Whether the robot is near
its target is left to chance in every cycle, so `RouteTraversed` holds for a
robot that never gets near.  Segments are bounded, so from some point on the
last one is tracked.  `GoalEnds` follows the goal as far as the code does: it
succeeds, or the target is at the end of the route and the robot is not near it.
That is also what becomes of a robot braked on the way, whose target the stall
timeout goes on moving.  Nothing beyond this is certain, since
`getTrajectoryProgress` stays 0 for a robot that never arrives (its own comment
says so).

**Deadlock** is checked except where the modelled call returns
(`retime_search`, `route_cascade`), the node may be finalized
(`gravity_feedforward`), time ends (`force_warning`), the motion does
(`run_metrics`) or the sweep does (`experiment`).

The type invariants of the solver, the planner, the force and the harness
model are in no run: they are theorems.

### The stale stall clock

`reset()` (`horizon_trajectory_operator.cpp:422`), which every new segment
calls, leaves `has_stall_start_` set.  If a segment replaces one whose target
is standing off tolerance, the first target of the new route is skipped as
soon as the *old* stall has lasted the timeout.  The header
(`horizon_trajectory_operator.hpp:88-91`) has the target advance when *it* has
not advanced for that long.  The run `horizon_stale_stall` shows it;
`AdvanceEarnedAfterFirst` shows, and a theorem proves, that only the first
target of a segment is affected.  After a success the clock is normally
stopped, since the last cycle's advance or tolerance check cleared it.

### B2's projection without the force

`B2ConstraintSolver::solve` finds an overload with the external force included
(`b2_constraint_solver.cpp:192-204`), but the QP's bounds are those of a joint
without it (`:123-124`), so what the header calls the torque-feasible set
(`b2_constraint_solver.hpp:19-20`) is another one.  The run `b2_projection`
finds a cycle whose projected acceleration is still too much by B2's own
check; `InterventionBounded`, checked and proved, says by how much at most: the
force's own torque, and nothing without a force.  For the same reason the
comment at `:256-258`, that no acceleration can restore feasibility when the
QP has no solution, is true without a force only.

### The orphan recorder

`PKILL_PATTERN` (`run_experiment.py:95`) matches everything a launch starts,
but not `ros2 bag record`, and the recorder is not in the launch's process
group.  If the harness dies while recording, the recorder stays, for this and
all later runs, although the comments (`:384-387`, `:56-58`) count on a later
pkill.  The run `orphan_recorder` shows it.  `OwnRobot`, which is proved, shows
what it does not spoil: it writes to its own bag, so a bag that metrics are
computed from has only its own run's messages.

## Proofs

Theorems are in the `*_proofs` modules.  Each holds for all values of the constants within the modules' named
assumptions; the list is in `PROJECT.json`.

* **Search.**  The inductive invariant adds to `Bracket` that the scan's
  `first_feasible` is the least feasible index met (`ScanIsLeast`) and where a
  bracket came from: the whole interval only if `lam_max` clears, otherwise
  the cell that ends at the least feasible grid point.  This is what
  `Results` asks of a result, so the refinement follows from it.
  `SmallestIfMonotonic` needs how narrow the bracket is (`NarrowInv`): after
  `k` halvings it is at most the whole range divided by `2^k`, its lower end
  and the rounding of an odd bracket left out where the lower end has been
  tried and failed.  The prover knows nothing of powers; that `2^(k+1)` is twice
  `2^k` is derived from the sizes of sets of subsets (`PowerOfTwo`).
* **Cascade.**  The invariant says, stage by stage, what has been ruled out on
  the way there: no probed retiming clears from `reshape` on, the reshaped route does
  not from `reroute` on, and so on for the candidate.  Level 1 installs a
  route whose margin nobody compares; the invariant needs only
  `Results` for that, which is the search's theorem.  `DilationBounded` is
  conditional on `roomy_is_safe`, which holds for every shipped configuration:
  `(0.5 - 0.05) * tau_max >= m_safe` for every joint.
* **Solvers.**  `SolversInv` is the brake's arithmetic with its types, and the
  certificate: what has been looked at so far has no smaller margin, and what
  binds is the first that has it (`CertificateIsLeast`); this is inductive over
  the waypoints, skipped ones included.  `SameFirstWaypoint` connects the two
  solvers: what B3 has certified first is what B2 computes.  A horizon that
  clears keeps `m_safe` and `delta_tau` within `tau_max`, so B2 cannot object
  (`PassedIsRoomy`).  `InterventionBounded` needs of the projection only that
  it is in the QP's set, not that it is nearest.
* **Operator.**  Type correctness (with "the target is on its route") and the
  stall clock's honesty past the first target are inductive together; every
  advance is then either within tolerance or of an expired, honest clock.
* **Component.**  `Bookkeeping` counts: accepted goals are running or have
  succeeded.  With it, `SuccessNeedsRoute` (an active component holds a route
  no goal has used), `IdleIsClean` and the refinement's bound on successes are
  inductive.  The horizon properties rest on `HorizonKnown`: under Level 0 and
  until something changes, every sample of the current horizon is safe.
  `BrakePredicts` needs `HorizonSteps >= 2`: with a horizon of one sample the
  brake would come when the unsafe sample is the target.
  `PlannerTypeCorrect` adds the types of the solver and of the landscape.
  `DrivesPlugins` shows every step of the component to be a step of the
  operator's and of the solver's own specification, or a stutter of it, so what
  is proved of the plugins on their own holds in the component:
  `PluginsKeepPromises` states two such facts about the stall clock.
* **External force.**  The schedule changes by at most `Slope` a period
  (`ForceSteps`), so a torque that is too large at one time is within
  `k * Slope` of it `k` periods away.  With `k = 1` this makes a fault that B2
  finds one that B3 finds in the same cycle, although the two look at different
  times; with `k = MaxSkew` it carries an overload on the simulator's clock over to the
  solver's.  `WarnsAhead` then needs a record of the past (`Watched`): in every
  cycle with a started force B3 had found fault or its whole horizon cleared.
* **Harness.**  `Alone` says what the first pkill is for: while a run is under
  way, earlier ones have at most their recorder left.  With it, readiness can
  only be read off the run's own log and simulator, and only its own launch can
  execute its goal and be recorded.  `NeverPileUp` (no run checks it by itself)
  is the consequence for a sweep: stray launches and daemons are those of one
  run at most.
* **Torque controller.**  `HoldUntilTold` needs `OnlyHeardIsPickedUp`: whatever
  either slot of the buffer holds was heard in this activation, which the
  reset of the buffer establishes.  `FollowsMessage` needs that a message
  names no joint twice (an assumption on the messages).  The integral's
  invariant adds that it is within its clamp, zero without a gain, and zero
  while the joint has had no error; both torque properties follow.  Gains are
  any naturals, and joints without a clamp are included.
* **Metrics.**  Every cycle publishes a `Genuine` sample, one that tells what
  the solver did; the properties then follow sample by sample.
  `EpisodesInv` says what the bounds on the episodes leave out: an episode the
  run is in and the tally is not has not been counted, and one the tally
  alone is in was cut short by a lost sample.  `AgreeInv` adds that a
  braked B3 has been counted, which is why it need not have a margin.
  `PredictedInv` says which torques and which force each recorded margin is
  about.  It survives the start of the force (`PullKept`) because nothing
  predicted before then is past the onset; a prediction and its observation are
  then about moments at most half a period apart, and the ramp is no steeper than
  `Slope`.

Only model-checked: `RouteTraversed`, `GoalEnds` and `RunEnds`, since liveness under
fairness is beyond the prover.  Every other property of a passing run is a
theorem.

## Remarks on the code

Read while modelling, with no run of their own:

* `b3_constraint_solver.cpp:295-299` has it that a binding step after the first
  means the first waypoint is not in violation.  The certificate reports the
  least margin, so the first may be below `m_safe` as well, and the later one
  only tighter.
* The observed margin (`:240`) takes the state measured now under the force of
  a period later.  The horizon's waypoints have the same shift, so that a
  prediction and its observation agree (`PredictionErrorExplained`).
* The logs of `horizon_trajectory_operator.cpp:281-282` and `:214-217` say that
  the margin is too small "at no lambda in [1, lam_max]".  The search evaluates
  41 of them.  The margin need not be monotonic, so a dilation between two of
  these may clear, and the path is then left, or a route below `m_safe` tracked,
  all the same.  The cascade's properties are therefore about the dilations
  probed.
* A horizon none of whose waypoints can be evaluated has the margin `+infinity`
  and is passed.

## Not modelled

* The numbers: rigid-body dynamics, interpolation, time parametrisation, and
  the reshape QP over a whole horizon.  They are oracles whose every outcome is
  allowed, so the results do not depend on them.
* Where the robot is.  Nothing relates one cycle's `within` to the next, nor
  to what was commanded; a held or lagging arm is one of the possibilities.
  Hence no property says what a joint that still moves does in the hold.
* The spring schedule, which is a function of the tool's height and so of the
  dynamics, and a second start message.
* The replay planner returns one route for every request, which is any route in
  `LocalPlanner`; metrics of `/joint_states` and counts of log lines are sums
  over samples without a state to relate them to; the launch files only give
  the constants their values.

## Plan

1. *(done)* search, cascade, operator, solver, component; their proofs.
2. *(done)* `ForceWarning`, with its proofs.  Left: a second start message.
3. *(done)* `GravityFeedforward`, with its proofs.
4. *(done)* `TorqueMarginCertificate` and `B2ConstraintSolver`, composed with
   the B3 solver in `ConstraintSolvers`, with its proofs; types of the planner.
5. *(done)* `Experiment`, with its proofs.
6. *(done)* `RunMetrics`, with its proofs.  Left: the metrics of `/joint_states`.
