------------------------- MODULE LocalPlanner_proofs ------------------------
(***************************************************************************)
(* For every step length, horizon, timeout, route length and number of     *)
(* segments.  The operator on its own: its target stays on the route, and  *)
(* the stall clock is honest about every target but a segment's first.     *)
(* Then the local planner with its plugins: it keeps the promise           *)
(* LocalPlanning states, succeeds only on routes it received, and under    *)
(* Level 0 moves the target only onto a safe horizon.                      *)
(***************************************************************************)
EXTENDS LocalPlanner, TLAPS

(* The operator on its own *)

LEMMA TypeInit == Init => OperatorTypeOK
<1> SUFFICES ASSUME Init PROVE OperatorTypeOK
  OBVIOUS
<1>1. /\ total_duration \in Empty .. MaxDuration
      /\ current_duration \in 0 .. MaxDuration
      /\ total_duration = Empty /\ current_duration = 0
      /\ stall_age \in 0 .. StallTimeout
      /\ target_age \in 0 .. StallTimeout
      /\ segments \in 0 .. MaxSegments
  BY OperatorAssumption DEF Init, Empty
<1>2. within_tolerance \in BOOLEAN /\ has_stall_start \in BOOLEAN
  BY DEF Init
<1>3. QED
  BY <1>1, <1>2 DEF OperatorTypeOK

(* The steps of the two plugin calls, each from a well-typed state; the    *)
(* local planner's proofs use them too.                                    *)
LEMMA AdvancedType ==
  ASSUME OperatorTypeOK, ~Unhandled
  PROVE  /\ Advanced \in 0 .. MaxDuration
         /\ Advanced <= total_duration
         /\ current_duration <= Advanced
         /\ current_duration < total_duration => current_duration < Advanced
BY OperatorAssumption DEF OperatorTypeOK, Unhandled, Advanced, Empty

LEMMA AddStep ==
  ASSUME OperatorTypeOK, NEW duration \in 0 .. MaxDuration, AddTrajectorySegment(duration)
  PROVE  OperatorTypeOK'
BY OperatorAssumption DEF OperatorTypeOK, AddTrajectorySegment, Forget, Empty

LEMMA ResetStep ==
  ASSUME OperatorTypeOK, Reset
  PROVE  OperatorTypeOK'
BY OperatorAssumption DEF OperatorTypeOK, Reset, Forget, Empty

LEMMA GetStep ==
  ASSUME OperatorTypeOK, NEW within \in BOOLEAN, GetLocalTrajectory(within)
  PROVE  OperatorTypeOK'
<1> USE OperatorAssumption DEF OperatorTypeOK
<1>1. total_duration # Empty /\ UNCHANGED <<total_duration, segments>> /\ within_tolerance' = within
  BY DEF GetLocalTrajectory, Unhandled
<1>2. CASE within \/ StallTimeoutExpired(within)
  <2>1. /\ current_duration' = Advanced
        /\ has_stall_start' = FALSE /\ stall_age' = 0
        /\ target_age' \in {0, target_age}
    BY <1>2 DEF GetLocalTrajectory, FlagAfterAdvance
  <2>2. Advanced \in 0 .. MaxDuration /\ Advanced <= total_duration
    BY <1>1, AdvancedType DEF Unhandled
  <2>3. /\ total_duration' \in Empty .. MaxDuration
        /\ current_duration' \in 0 .. MaxDuration
        /\ total_duration' # Empty /\ current_duration' <= total_duration'
        /\ stall_age' \in 0 .. StallTimeout
        /\ target_age' \in 0 .. StallTimeout
        /\ segments' \in 0 .. MaxSegments
    BY <1>1, <2>1, <2>2
  <2>4. within_tolerance' \in BOOLEAN /\ has_stall_start' \in BOOLEAN
    BY <1>1, <2>1
  <2>5. QED
    BY <2>3, <2>4
<1>3. CASE ~(within \/ StallTimeoutExpired(within))
  <2>1. /\ UNCHANGED <<current_duration, target_age>>
        /\ has_stall_start' = Stalling(within)
        /\ stall_age' \in {0, stall_age}
    BY <1>3 DEF GetLocalTrajectory, RunningStallAge
  <2>2. Stalling(within) \in BOOLEAN
    BY DEF Stalling
  <2>3. QED
    BY <1>1, <2>1, <2>2
<1>4. QED
  BY <1>2, <1>3

LEMMA TickStep ==
  ASSUME OperatorTypeOK, ClockTick
  PROVE  OperatorTypeOK'
BY OperatorAssumption DEF OperatorTypeOK, ClockTick, Older

LEMMA TypeStep == OperatorTypeOK /\ [Next]_operator_vars => OperatorTypeOK'
<1>1. OperatorTypeOK /\ UNCHANGED operator_vars => OperatorTypeOK'
  BY DEF OperatorTypeOK, operator_vars
<1>2. QED
  BY <1>1, AddStep, ResetStep, GetStep, TickStep DEF Next, ControlCycle

(* The operator's state is always well typed: the target is on its route   *)
(* however segments, cycles and clock interleave.                          *)
THEOREM TypeCorrect == Spec => []OperatorTypeOK
BY TypeInit, TypeStep, PTL DEF Spec

-----------------------------------------------------------------------------
LEMMA HonestStep ==
  OperatorTypeOK /\ StallClockHonest /\ [Next]_operator_vars => StallClockHonest'
<1> SUFFICES ASSUME OperatorTypeOK, StallClockHonest, [Next]_operator_vars
             PROVE  StallClockHonest'
  OBVIOUS
<1> USE OperatorAssumption DEF OperatorTypeOK, StallClockHonest
<1>1. ASSUME NEW duration \in 0 .. MaxDuration, AddTrajectorySegment(duration)
      PROVE  StallClockHonest'
  BY <1>1 DEF AddTrajectorySegment, Forget
<1>2. CASE Reset
  BY <1>2 DEF Reset, Forget
<1>3. ASSUME NEW within \in BOOLEAN, GetLocalTrajectory(within)
      PROVE  StallClockHonest'
  <2>1. CASE within \/ StallTimeoutExpired(within)
    BY <1>3, <2>1 DEF GetLocalTrajectory, FlagAfterAdvance
  <2>2. CASE ~(within \/ StallTimeoutExpired(within))
    <3>1. CASE has_stall_start
      BY <1>3, <2>2, <3>1 DEF GetLocalTrajectory, RunningStallAge
    <3>2. CASE ~has_stall_start
      BY <1>3, <2>2, <3>2 DEF GetLocalTrajectory, RunningStallAge
    <3>3. QED
      BY <3>1, <3>2
  <2>3. QED
    BY <2>1, <2>2
<1>4. CASE ClockTick
  BY <1>4 DEF ClockTick, Older
<1>5. CASE UNCHANGED operator_vars
  BY <1>5 DEF operator_vars
<1>6. QED
  BY <1>1, <1>2, <1>3, <1>4, <1>5 DEF Next, ControlCycle

(* Past a segment's first target the stall clock never runs ahead of the   *)
(* time that target has been standing.                                     *)
THEOREM StallClockCorrect == Spec => []StallClockHonest
<1>1. Init => StallClockHonest
  BY DEF Init, StallClockHonest
<1>2. QED
  BY TypeInit, TypeStep, HonestStep, <1>1, PTL DEF Spec

LEMMA EarnedStep ==
  OperatorTypeOK /\ StallClockHonest /\ [Next]_operator_vars =>
    [current_duration > 0 /\ current_duration' > current_duration =>
       within_tolerance' \/ target_age >= StallTimeout]_operator_vars
<1> SUFFICES ASSUME OperatorTypeOK, StallClockHonest, Next,
                    current_duration > 0, current_duration' > current_duration
             PROVE  within_tolerance' \/ target_age >= StallTimeout
  OBVIOUS
<1> USE OperatorAssumption DEF OperatorTypeOK, StallClockHonest
<1>1. ASSUME NEW within \in BOOLEAN, GetLocalTrajectory(within)
      PROVE  within_tolerance' \/ target_age >= StallTimeout
  <2>1. CASE within
    BY <1>1, <2>1 DEF GetLocalTrajectory
  <2>2. CASE StallTimeoutExpired(within)
    BY <2>2 DEF StallTimeoutExpired
  <2>3. CASE ~(within \/ StallTimeoutExpired(within))
    BY <1>1, <2>3 DEF GetLocalTrajectory
  <2>4. QED
    BY <2>1, <2>2, <2>3
<1>2. QED
  BY <1>1 DEF Next, ControlCycle, AddTrajectorySegment, Reset, Forget, ClockTick

(* No target past the first is abandoned before its time.                  *)
THEOREM AdvanceCorrect == Spec => AdvanceEarnedAfterFirst
<1>1. Init => StallClockHonest
  BY DEF Init, StallClockHonest
<1>2. QED
  BY TypeInit, TypeStep, HonestStep, EarnedStep, <1>1, PTL DEF Spec, AdvanceEarnedAfterFirst
-----------------------------------------------------------------------------
(* The local planner *)

(* What the component's bookkeeping adds up to: every goal is running or   *)
(* has succeeded.                                                          *)
Bookkeeping ==
  /\ state \in {"await", "active"}
  /\ timer \in BOOLEAN
  /\ braked \in BOOLEAN
  /\ goals \in 0 .. MaxGoals
  /\ successes \in Nat
  /\ successes + (IF timer THEN 1 ELSE 0) = goals

PlannerInv == OperatorTypeOK /\ Bookkeeping /\ SuccessNeedsRoute /\ IdleIsClean

LEMMA PlannerInvInit == PlannerInit => PlannerInv
<1> SUFFICES ASSUME PlannerInit PROVE PlannerInv
  OBVIOUS
<1>1. OperatorTypeOK
  BY TypeInit DEF PlannerInit
<1>2. /\ goals \in 0 .. MaxGoals /\ successes \in Nat
      /\ successes + (IF timer THEN 1 ELSE 0) = goals
      /\ successes + (IF state = "active" THEN 1 ELSE 0) <= segments
  BY GoalsAssumption DEF PlannerInit, Init
<1>3. timer \in BOOLEAN /\ braked \in BOOLEAN
  BY DEF PlannerInit, Solver!Init
<1>4. IdleIsClean
  BY DEF PlannerInit, Init, Solver!Init, IdleIsClean
<1>5. QED
  BY <1>1, <1>2, <1>3, <1>4 DEF PlannerInit, PlannerInv, Bookkeeping, SuccessNeedsRoute

(* The operator's part of every step is a step of the operator.            *)
LEMMA OperatorStep == [PlannerNext]_vars => [Next]_operator_vars
<1> SUFFICES ASSUME [PlannerNext]_vars PROVE [Next]_operator_vars
  OBVIOUS
<1>1. ASSUME NEW duration \in 0 .. MaxDuration, GlobalSolution(duration)
      PROVE  Next
  BY <1>1 DEF GlobalSolution, Next
<1>2. ASSUME NEW near \in BOOLEAN, Succeed(near)
      PROVE  Next
  BY <1>2 DEF Succeed, ResetPlugins, Next
<1>3. ASSUME NEW near \in BOOLEAN, Cycle(near)
      PROVE  Next
  BY <1>3 DEF Cycle, Next, ControlCycle
<1>4. CASE TimePasses
  BY <1>4 DEF TimePasses, Next
<1>5. AcceptGoal \/ ForceChanges \/ UNCHANGED vars => UNCHANGED operator_vars
  BY DEF AcceptGoal, ForceChanges, vars
<1>6. QED
  BY <1>1, <1>2, <1>3, <1>4, <1>5 DEF PlannerNext, Iteration

(* And the solver's a step of the solver.                                  *)
LEMMA SolverStep == [PlannerNext]_vars => [Solver!Next]_(Solver!solver_vars)
<1> SUFFICES ASSUME [PlannerNext]_vars PROVE [Solver!Next]_(Solver!solver_vars)
  OBVIOUS
<1>1. ASSUME NEW near \in BOOLEAN, Succeed(near)
      PROVE  Solver!Next
  BY <1>1 DEF Succeed, ResetPlugins, Solver!Next
<1>2. ASSUME NEW near \in BOOLEAN, Cycle(near)
      PROVE  Solver!Next
  <2>1. Solver!Still \in [{"arm"} -> Solver!Speeds]
    BY DEF Solver!Still, Solver!Speeds
  <2>2. QED
    BY <1>2, <2>1 DEF Cycle, Solver!Next
<1>3. (\E duration \in 0 .. MaxDuration : GlobalSolution(duration))
        \/ AcceptGoal \/ ForceChanges \/ TimePasses \/ UNCHANGED vars
      => UNCHANGED Solver!solver_vars
  BY DEF GlobalSolution, AcceptGoal, ForceChanges, TimePasses, vars, solver_vars,
         Solver!solver_vars
<1>4. QED
  BY <1>1, <1>2, <1>3 DEF PlannerNext, Iteration

(* The component drives its plugins as their own modules say they are      *)
(* driven, so whatever holds of them on their own holds in the component.  *)
THEOREM DrivesPlugins == PlannerSpec => Spec /\ Solver!Spec
<1>1. PlannerInit => Init /\ Solver!Init
  BY DEF PlannerInit
<1>2. QED
  BY <1>1, OperatorStep, SolverStep, PTL DEF PlannerSpec, Spec, Solver!Spec

(* In the component, too, the stall clock is honest and no target past the *)
(* first is abandoned before its time.                                     *)
THEOREM PluginsKeepPromises ==
  PlannerSpec => []StallClockHonest /\ AdvanceEarnedAfterFirst
BY DrivesPlugins, StallClockCorrect, AdvanceCorrect, PTL

LEMMA PlannerInvStep == PlannerInv /\ [PlannerNext]_vars => PlannerInv'
<1> SUFFICES ASSUME PlannerInv, [PlannerNext]_vars PROVE PlannerInv'
  OBVIOUS
<1>0. OperatorTypeOK'
  BY OperatorStep, TypeStep DEF PlannerInv
<1> USE GoalsAssumption DEF PlannerInv, Bookkeeping, SuccessNeedsRoute, IdleIsClean
<1>n. segments \in Nat /\ MaxSegments \in Nat
  BY OperatorAssumption DEF OperatorTypeOK
<1>1. CASE AcceptGoal
  <2>1. /\ goals' = goals + 1 /\ goals < MaxGoals /\ timer = FALSE /\ timer' = TRUE
        /\ UNCHANGED <<state, successes, segments, braked, total_duration, current_duration>>
    BY <1>1 DEF AcceptGoal, operator_vars, solver_vars
  <2>2. goals' \in 0 .. MaxGoals /\ successes' + 1 = goals'
    BY <2>1
  <2>3. QED
    BY <1>0, <2>1, <2>2
<1>2. ASSUME NEW duration \in 0 .. MaxDuration, GlobalSolution(duration)
      PROVE  PlannerInv'
  <2>1. /\ segments' = segments + 1 /\ state' = "active" /\ total_duration' = duration
        /\ UNCHANGED <<timer, goals, successes, braked>>
    BY <1>2 DEF GlobalSolution, AddTrajectorySegment, solver_vars
  <2>2. total_duration' # Empty
    BY <2>1, OperatorAssumption DEF Empty
  <2>3. successes' + 1 <= segments'
    BY <1>n, <2>1
  <2>4. QED
    BY <1>0, <2>1, <2>2, <2>3
<1>3. CASE ForceChanges
  BY <1>0, <1>3 DEF ForceChanges, operator_vars, solver_vars, component_vars
<1>4. ASSUME NEW near \in BOOLEAN, Succeed(near)
      PROVE  PlannerInv'
  <2>1. /\ timer = TRUE /\ timer' = FALSE /\ state = "active" /\ state' = "await"
        /\ successes' = successes + 1 /\ UNCHANGED <<goals, segments>>
        /\ braked' = FALSE /\ total_duration' = Empty /\ current_duration' = 0
    BY <1>4 DEF Succeed, Iterating, ResetPlugins, Reset, Forget, Solver!Reset
  <2>2. /\ successes' \in Nat /\ successes' + 0 = goals'
        /\ successes' + 0 <= segments'
    BY <1>n, <2>1
  <2>3. QED
    BY <1>0, <2>1, <2>2
<1>5. ASSUME NEW near \in BOOLEAN, Cycle(near)
      PROVE  PlannerInv'
  <2>1. /\ state = "active" /\ UNCHANGED <<state, timer, goals, successes, segments, total_duration>>
    BY <1>5 DEF Cycle, Iterating, GetLocalTrajectory, component_vars
  <2>2. braked' \in BOOLEAN
    BY <1>5 DEF Cycle, Solver!Solve
  <2>3. QED
    BY <1>0, <2>1, <2>2
<1>6. CASE TimePasses
  BY <1>0, <1>6 DEF TimePasses, ClockTick, solver_vars, component_vars
<1>7. CASE UNCHANGED vars
  BY <1>0, <1>7 DEF vars, operator_vars, solver_vars, component_vars
<1>8. QED
  BY <1>1, <1>2, <1>3, <1>4, <1>5, <1>6, <1>7 DEF PlannerNext, Iteration

(* Every iteration finds a reference, and no goal is reported done without *)
(* a route of its own, although an empty reference reports full progress.  *)
THEOREM SuccessCorrect == PlannerSpec => []SuccessNeedsRoute
<1>1. PlannerInv => SuccessNeedsRoute
  BY DEF PlannerInv
<1>2. QED
  BY PlannerInvInit, PlannerInvStep, <1>1, PTL DEF PlannerSpec

(* A component waiting for a route has no brake set and no target left.    *)
THEOREM IdleCorrect == PlannerSpec => []IdleIsClean
<1>1. PlannerInv => IdleIsClean
  BY DEF PlannerInv
<1>2. QED
  BY PlannerInvInit, PlannerInvStep, <1>1, PTL DEF PlannerSpec

-----------------------------------------------------------------------------
(* The refinement mapping.                                                 *)
Phase == IF state = "await" THEN "idle" ELSE IF braked THEN "stopped" ELSE "following"
Left == IF total_duration = Empty THEN 0 ELSE total_duration - current_duration

(* What a cycle does to the target and the brake.                          *)
LEMMA CycleEffect ==
  ASSUME PlannerInv, NEW near \in BOOLEAN, Cycle(near)
  PROVE  /\ state = "active" /\ ~Unhandled
         /\ UNCHANGED <<state, timer, goals, successes, total_duration, segments, unsafe>>
         /\ current_duration <= current_duration'
         /\ current_duration' \in {current_duration, Advanced}
         /\ braked' = braked \/ (~braked /\ braked')
<1> USE DEF PlannerInv
<1>1. /\ state = "active" /\ ~Unhandled /\ GetLocalTrajectory(near)
      /\ UNCHANGED <<state, timer, goals, successes, total_duration, segments, unsafe>>
  BY DEF Cycle, Iterating, GetLocalTrajectory, component_vars
<1>2. current_duration' \in {current_duration, Advanced}
  BY <1>1 DEF GetLocalTrajectory
<1>3. current_duration <= current_duration'
  BY <1>1, <1>2, AdvancedType DEF OperatorTypeOK
<1>4. PICK verdict \in Solver!Verdicts : Solver!Solve(verdict, Solver!Still)
  BY DEF Cycle
<1>5. braked' = braked \/ (~braked /\ braked')
  BY <1>4 DEF Solver!Solve
<1>6. QED
  BY <1>1, <1>2, <1>3, <1>5

LEMMA LessIsLeft ==
  ASSUME NEW total \in Nat, NEW before \in Nat, NEW after \in Nat,
         before <= after, after <= total
  PROVE  total - after \in 0 .. (total - before)
OBVIOUS

LEMMA RefineStep ==
  PlannerInv /\ PlannerInv' /\ [PlannerNext]_vars => [Promise!Next]_<<Phase, Left, successes>>
<1> SUFFICES ASSUME PlannerInv, PlannerInv', [PlannerNext]_vars
             PROVE  [Promise!Next]_<<Phase, Left, successes>>
  OBVIOUS
<1> USE DEF PlannerInv
<1>0. /\ total_duration # Empty => current_duration \in Nat /\ total_duration \in Nat
                                   /\ current_duration <= total_duration
      /\ total_duration \in Empty .. MaxDuration /\ MaxDuration \in Nat
  BY OperatorAssumption DEF OperatorTypeOK, Empty
<1>1. ASSUME NEW duration \in 0 .. MaxDuration, GlobalSolution(duration)
      PROVE  Promise!NewRoute
  <2>1. /\ state' = "active" /\ braked' = braked /\ successes' = successes
        /\ total_duration' = duration /\ current_duration' = 0
    BY <1>1 DEF GlobalSolution, AddTrajectorySegment, Forget, solver_vars
  <2>2. Left' = duration /\ duration \in 0 .. MaxDuration
    BY <1>0, <2>1 DEF Left, Empty
  <2>3. Phase' = IF Phase = "idle" THEN "following" ELSE Phase
    BY <2>1 DEF Phase, IdleIsClean, Bookkeeping
  <2>4. QED
    BY <2>1, <2>2, <2>3 DEF Promise!NewRoute, Phase, Left
<1>2. ASSUME NEW near \in BOOLEAN, Succeed(near)
      PROVE  Promise!Succeed
  <2>1. /\ state = "active" /\ state' = "await" /\ timer /\ timer' = FALSE
        /\ successes' = successes + 1 /\ UNCHANGED goals
        /\ total_duration' = Empty /\ Done(near)
    BY <1>2 DEF Succeed, Iterating, ResetPlugins, Reset
  <2>2. total_duration # Empty
    BY <2>1 DEF SuccessNeedsRoute
  <2>3. current_duration >= total_duration
    BY <2>1, <2>2 DEF Done
  <2>4. Left = 0 /\ Left' = 0
    BY <1>0, <2>1, <2>2, <2>3 DEF Left
  <2>5. Phase # "idle" /\ Phase' = "idle"
    BY <2>1 DEF Phase
  <2>6. successes < MaxGoals
    <3>1. successes + 1 = goals /\ goals \in 0 .. MaxGoals /\ successes \in Nat
      BY <2>1 DEF Bookkeeping
    <3>2. QED
      BY <3>1, GoalsAssumption
  <2>7. QED
    BY <2>1, <2>4, <2>5, <2>6 DEF Promise!Succeed, Phase, Left
<1>3. ASSUME NEW near \in BOOLEAN, Cycle(near)
      PROVE  Promise!Follow \/ Promise!Stop
  <2>1. /\ state = "active" /\ state' = "active" /\ successes' = successes
        /\ total_duration # Empty /\ total_duration' = total_duration
        /\ current_duration <= current_duration'
        /\ braked' = braked \/ (~braked /\ braked')
    BY <1>3, CycleEffect DEF Unhandled
  <2>2. current_duration' \in Nat /\ current_duration' <= total_duration
    BY <2>1, OperatorAssumption DEF OperatorTypeOK
  <2>3. Left' \in 0 .. Left
    <3>1. Left = total_duration - current_duration /\ Left' = total_duration - current_duration'
      BY <2>1 DEF Left
    <3>2. total_duration \in Nat /\ current_duration \in Nat
      BY <1>0, <2>1
    <3>3. current_duration <= current_duration' /\ current_duration' <= total_duration
      BY <2>1, <2>2
    <3>4. total_duration - current_duration' \in 0 .. (total_duration - current_duration)
      BY <2>2, <3>2, <3>3, LessIsLeft
    <3>5. QED
      BY <3>1, <3>4
  <2>4. CASE braked' = braked
    <3>1. Phase # "idle" /\ Phase' = Phase
      BY <2>1, <2>4 DEF Phase
    <3>2. QED
      BY <2>1, <2>3, <3>1 DEF Promise!Follow, Phase, Left
  <2>5. CASE ~braked /\ braked'
    <3>1. Phase = "following" /\ Phase' = "stopped"
      BY <2>1, <2>5 DEF Phase
    <3>2. QED
      BY <2>1, <2>3, <3>1 DEF Promise!Stop, Phase, Left
  <2>6. QED
    BY <2>1, <2>4, <2>5
<1>4. CASE AcceptGoal \/ ForceChanges \/ TimePasses \/ UNCHANGED vars
  BY <1>4 DEF AcceptGoal, ForceChanges, TimePasses, ClockTick, vars, operator_vars, solver_vars,
              component_vars, Phase, Left
<1>5. QED
  BY <1>1, <1>2, <1>3, <1>4 DEF PlannerNext, Iteration, Promise!Next

(* The component and its plugins, cycle by cycle, keep the promise made to *)
(* whoever sends goals.                                                    *)
THEOREM Implements == PlannerSpec => RefinesLocalPlanning
<1>1. PlannerInit => Promise!Init
  BY DEF PlannerInit, Init, Promise!Init
<1>2. PlannerInv /\ PlannerInv' /\ [PlannerNext]_vars =>
        [Promise!Next]_<<IF state = "await" THEN "idle"
                         ELSE IF braked THEN "stopped" ELSE "following",
                         IF total_duration = Empty THEN 0 ELSE total_duration - current_duration,
                         successes>>
  BY RefineStep DEF Phase, Left
<1>3. QED
  BY <1>1, <1>2, PlannerInvInit, PlannerInvStep, PTL DEF PlannerSpec, RefinesLocalPlanning, Promise!Spec

-----------------------------------------------------------------------------
(* Under Level 0 the horizon ahead of the current target is known safe,    *)
(* until a route or the force changes it.                                  *)
HorizonKnown ==
  ~surprised /\ commanded.source = "nominal" /\ total_duration # Empty =>
    Horizon(current_duration, total_duration) \cap unsafe = {}

(* A cycle that ends in a Level 0 command found its horizon safe.          *)
LEMMA NominalCycle ==
  ASSUME NEW near \in BOOLEAN, Cycle(near), commanded'.source = "nominal"
  PROVE  Horizon(current_duration', total_duration) \cap unsafe = {}
<1>1. PICK verdict \in Solver!Verdicts :
        /\ HorizonClears <=> verdict = "clears"
        /\ Solver!Solve(verdict, Solver!Still)
  BY DEF Cycle
<1>2. verdict = "clears"
  BY <1>1 DEF Solver!Solve, Solver!PassThrough, Solver!Hold, Solver!Brake
<1>3. QED
  BY <1>1, <1>2 DEF HorizonClears, LocalHorizon

LEMMA AdvanceStep ==
  PlannerInv /\ [PlannerNext]_vars =>
    [current_duration' > current_duration /\ commanded'.source = "nominal" =>
       \A j \in 0 .. HorizonSteps - 1 :
         \A d \in unsafe : d # IF current_duration' + j * Dt < total_duration
                               THEN current_duration' + j * Dt
                               ELSE total_duration]_vars
<1> SUFFICES ASSUME PlannerInv, PlannerNext,
                    current_duration' > current_duration, commanded'.source = "nominal",
                    NEW j \in 0 .. HorizonSteps - 1, NEW d \in unsafe
             PROVE  d # IF current_duration' + j * Dt < total_duration
                        THEN current_duration' + j * Dt
                        ELSE total_duration
  OBVIOUS
<1>1. ASSUME NEW near \in BOOLEAN, Cycle(near)
      PROVE  Horizon(current_duration', total_duration) \cap unsafe = {}
  BY <1>1, NominalCycle
<1>2. current_duration' = 0 => ~(current_duration' > current_duration)
  BY OperatorAssumption DEF PlannerInv, OperatorTypeOK
<1>3. \E near \in BOOLEAN : Cycle(near)
  <2>1. ~(current_duration > current_duration)
    BY OperatorAssumption DEF PlannerInv, OperatorTypeOK
  <2>2. QED
    BY <1>2, <2>1 DEF PlannerNext, Iteration, AcceptGoal, GlobalSolution,
                      AddTrajectorySegment, ForceChanges, Succeed, ResetPlugins, Reset, Forget, TimePasses, ClockTick, operator_vars
<1>4. QED
  BY <1>1, <1>3 DEF Horizon

(* Level 0 never moves the target onto, or within a horizon of, an unsafe  *)
(* sample.                                                                 *)
THEOREM AdvanceSafe == PlannerSpec => AdvancesOntoSafeHorizon
BY PlannerInvInit, PlannerInvStep, AdvanceStep, PTL DEF PlannerSpec, AdvancesOntoSafeHorizon

LEMMA KnownInit == PlannerInit => HorizonKnown
BY DEF PlannerInit, Init, HorizonKnown

LEMMA KnownStep == PlannerInv /\ HorizonKnown /\ [PlannerNext]_vars => HorizonKnown'
<1> SUFFICES ASSUME PlannerInv, HorizonKnown, [PlannerNext]_vars PROVE HorizonKnown'
  OBVIOUS
<1> USE DEF HorizonKnown
<1>1. ASSUME NEW near \in BOOLEAN, Cycle(near)
      PROVE  HorizonKnown'
  <2>1. total_duration' = total_duration /\ unsafe' = unsafe
    BY <1>1, CycleEffect
  <2>2. QED
    BY <1>1, <2>1, NominalCycle DEF Horizon
<1>2. ASSUME NEW near \in BOOLEAN, Succeed(near)
      PROVE  HorizonKnown'
  BY <1>2 DEF Succeed, ResetPlugins, Reset
<1>3. ASSUME NEW duration \in 0 .. MaxDuration, GlobalSolution(duration)
      PROVE  HorizonKnown'
  BY <1>3 DEF GlobalSolution
<1>4. CASE ForceChanges
  BY <1>4 DEF ForceChanges
<1>5. CASE AcceptGoal \/ TimePasses \/ UNCHANGED vars
  BY <1>5 DEF AcceptGoal, TimePasses, ClockTick, vars, operator_vars, solver_vars, landscape_vars,
              Horizon
<1>6. QED
  BY <1>1, <1>2, <1>3, <1>4, <1>5 DEF PlannerNext, Iteration

LEMMA PredictiveStep ==
  ASSUME HorizonSteps >= 2
  PROVE  PlannerInv /\ HorizonKnown /\ [PlannerNext]_vars =>
           [~surprised /\ commanded.source = "nominal" /\ commanded'.source = "brake" =>
              current_duration' \notin unsafe]_vars
<1> SUFFICES ASSUME PlannerInv, HorizonKnown, PlannerNext, ~surprised,
                    commanded.source = "nominal", commanded'.source = "brake"
             PROVE  current_duration' \notin unsafe
  OBVIOUS
<1>1. ASSUME NEW near \in BOOLEAN, Cycle(near)
      PROVE  current_duration' \notin unsafe
  <2>1. ~Unhandled /\ current_duration' \in {current_duration, Advanced}
    BY <1>1, CycleEffect
  <2>2. Horizon(current_duration, total_duration) \cap unsafe = {}
    BY <2>1 DEF HorizonKnown, Unhandled
  <2>3. /\ current_duration \in Int /\ total_duration \in Int /\ Dt \in Nat \ {0}
        /\ current_duration <= total_duration
        /\ 0 \in 0 .. HorizonSteps - 1 /\ 1 \in 0 .. HorizonSteps - 1
    BY <2>1, OperatorAssumption DEF PlannerInv, OperatorTypeOK, Unhandled, Empty
  <2>4. current_duration \in Horizon(current_duration, total_duration)
    <3>1. current_duration =
            IF current_duration + 0 * Dt < total_duration THEN current_duration + 0 * Dt
                                                          ELSE total_duration
      BY <2>3
    <3>2. QED
      BY <2>3, <3>1 DEF Horizon
  <2>5. Advanced \in Horizon(current_duration, total_duration)
    <3>1. Advanced =
            IF current_duration + 1 * Dt < total_duration THEN current_duration + 1 * Dt
                                                          ELSE total_duration
      BY <2>3 DEF Advanced
    <3>2. QED
      BY <2>3, <3>1 DEF Horizon
  <2>6. QED
    BY <2>1, <2>2, <2>4, <2>5
<1>2. \E near \in BOOLEAN : Cycle(near)
  BY DEF PlannerNext, Iteration, AcceptGoal, GlobalSolution, ForceChanges, Succeed, ResetPlugins,
         Solver!Reset, TimePasses, solver_vars
<1>3. QED
  BY <1>1, <1>2

(* With a horizon of at least two samples, a brake on an unchanged         *)
(* landscape always comes before the sample that sets it off is a target.  *)
THEOREM BrakePredicts ==
  ASSUME HorizonSteps >= 2
  PROVE  PlannerSpec => BrakeIsPredictive
BY PlannerInvInit, PlannerInvStep, KnownInit, KnownStep, PredictiveStep, PTL
   DEF PlannerSpec, BrakeIsPredictive
-----------------------------------------------------------------------------
(* Type correctness of the composition. *)

(* A joint at rest is braked to rest.                                      *)
LEMMA BrakeAtRest ==
  /\ \A j \in {"arm"} : Solver!Brake(Solver!Still).qdot[j] = 0
  /\ \A j \in {"arm"} : Solver!Brake(Solver!Still).travel[j] = 0
  /\ Solver!Brake(Solver!Still).source = "brake"
<1>1. ASSUME NEW v \in Int, 0 <= v, v <= 0
      PROVE  Solver!BrakeVelocity(v) = 0 /\ Solver!BrakeTravel(v) = 0
  <2>1. Solver!BrakeAcceleration(v) = 0
    BY <1>1 DEF Solver!BrakeAcceleration, Solver!Clamp
  <2>2. QED
    BY <1>1, <2>1 DEF Solver!BrakeVelocity, Solver!BrakeTravel
<1>2. \A j \in {"arm"} : Solver!Still[j] \in Int /\ Solver!Still[j] = 0
  BY DEF Solver!Still
<1>3. /\ \A j \in {"arm"} : Solver!Brake(Solver!Still).qdot[j] = Solver!BrakeVelocity(Solver!Still[j])
      /\ \A j \in {"arm"} : Solver!Brake(Solver!Still).travel[j] = Solver!BrakeTravel(Solver!Still[j])
      /\ Solver!Brake(Solver!Still).source = "brake"
  BY DEF Solver!Brake
<1>4. \A j \in {"arm"} : 0 <= Solver!Still[j] /\ Solver!Still[j] <= 0
  BY <1>2
<1>5. QED
  BY <1>1, <1>2, <1>3, <1>4

LEMMA SolverTypeInit == Solver!Init => Solver!SolverTypeOK
<1>1. Solver!Still \in [{"arm"} -> Solver!Speeds]
  BY DEF Solver!Still, Solver!Speeds
<1>2. Solver!PassThrough("none").source = "none"
  BY DEF Solver!PassThrough
<1>3. QED
  BY <1>1, <1>2 DEF Solver!Init, Solver!SolverTypeOK

LEMMA SolverTypeStep ==
  ASSUME braked \in BOOLEAN, NEW verdict, Solver!Solve(verdict, Solver!Still)
  PROVE  Solver!SolverTypeOK'
<1>0. Solver!Still \in [{"arm"} -> Solver!Speeds] /\ 0 \in Solver!Speeds /\ 0 \in -2 * 0 .. 2 * 0
  BY DEF Solver!Still, Solver!Speeds
<1>1. measured' = Solver!Still
  BY DEF Solver!Solve
<1>2. CASE commanded' = Solver!Hold /\ level' = "4" /\ braked' = braked
  <2>1. /\ \A j \in {"arm"} : Solver!Hold.qdot[j] = 0 /\ Solver!Hold.travel[j] = 0
        /\ Solver!Hold.source = "hold"
    BY DEF Solver!Hold, Solver!Still
  <2>2. QED
    BY <1>0, <1>1, <1>2, <2>1 DEF Solver!SolverTypeOK
<1>3. CASE /\ commanded' \in {Solver!PassThrough("nominal"), Solver!PassThrough("reshaped")}
           /\ level' \in {"0", "2"} /\ braked' = braked
  <2>1. commanded'.source \in {"nominal", "reshaped"}
    BY <1>3 DEF Solver!PassThrough
  <2>2. QED
    BY <1>0, <1>1, <1>3, <2>1 DEF Solver!SolverTypeOK
<1>4. CASE commanded' = Solver!Brake(Solver!Still) /\ level' = "4" /\ braked' = TRUE
  BY <1>0, <1>1, <1>4, BrakeAtRest DEF Solver!SolverTypeOK
<1>5. QED
  BY <1>2, <1>3, <1>4 DEF Solver!Solve

\* What PlannerInv leaves of the type invariant.
LandscapeTypeOK == Solver!SolverTypeOK /\ unsafe \in SUBSET (0 .. MaxDuration) /\ surprised \in BOOLEAN

LEMMA LandscapeInit == PlannerInit => LandscapeTypeOK
BY SolverTypeInit DEF PlannerInit, LandscapeTypeOK

LEMMA LandscapeStep ==
  PlannerInv /\ LandscapeTypeOK /\ [PlannerNext]_vars => LandscapeTypeOK'
<1> SUFFICES ASSUME PlannerInv, LandscapeTypeOK, [PlannerNext]_vars PROVE LandscapeTypeOK'
  OBVIOUS
<1> USE DEF LandscapeTypeOK
<1>1. CASE UNCHANGED solver_vars
  <2>1. Solver!SolverTypeOK'
    BY <1>1 DEF solver_vars, Solver!SolverTypeOK, Solver!Speeds
  <2>2. ASSUME NEW duration \in 0 .. MaxDuration, GlobalSolution(duration)
        PROVE  LandscapeTypeOK'
    <3>1. SampledDurations(duration) \subseteq 0 .. MaxDuration
      BY <2>2, OperatorAssumption DEF SampledDurations
    <3>2. QED
      BY <2>1, <2>2, <3>1 DEF GlobalSolution
  <2>3. CASE ForceChanges
    <3>1. SampledDurations(total_duration) \subseteq 0 .. MaxDuration
      BY OperatorAssumption DEF PlannerInv, OperatorTypeOK, Empty, SampledDurations
    <3>2. QED
      BY <2>1, <2>3, <3>1 DEF ForceChanges
  <2>4. ASSUME NEW near \in BOOLEAN, Succeed(near) \/ Cycle(near)
        PROVE  LandscapeTypeOK'
    BY <2>1, <2>4 DEF Succeed, Cycle, landscape_vars
  <2>5. CASE AcceptGoal \/ TimePasses \/ UNCHANGED vars
    BY <2>1, <2>5 DEF AcceptGoal, TimePasses, vars, landscape_vars
  <2>6. QED
    BY <2>2, <2>3, <2>4, <2>5 DEF PlannerNext, Iteration
<1>2. ASSUME NEW near \in BOOLEAN, Succeed(near)
      PROVE  LandscapeTypeOK'
  <2>1. braked' = FALSE /\ UNCHANGED <<level, measured, commanded, unsafe, surprised>>
    BY <1>2 DEF Succeed, ResetPlugins, Solver!Reset, landscape_vars
  <2>2. Solver!SolverTypeOK'
    BY <2>1 DEF Solver!SolverTypeOK
  <2>3. QED
    BY <2>1, <2>2
<1>3. ASSUME NEW near \in BOOLEAN, Cycle(near)
      PROVE  LandscapeTypeOK'
  <2>1. surprised' = FALSE /\ unsafe' = unsafe
    BY <1>3 DEF Cycle
  <2>2. Solver!SolverTypeOK'
    BY <1>3, SolverTypeStep DEF Cycle, PlannerInv, Bookkeeping
  <2>3. QED
    BY <2>1, <2>2
<1>4. QED
  BY <1>1, <1>2, <1>3 DEF PlannerNext, Iteration, AcceptGoal, GlobalSolution, ForceChanges,
                         TimePasses, vars

(* Type correctness of the component with its plugins and the landscape;   *)
(* no more goals succeed than were accepted.                               *)
THEOREM PlannerTypeCorrect == PlannerSpec => []PlannerTypeOK
<1>1. PlannerInv /\ LandscapeTypeOK => PlannerTypeOK
  BY GoalsAssumption DEF PlannerInv, Bookkeeping, LandscapeTypeOK, PlannerTypeOK
<1>2. QED
  BY <1>1, PlannerInvInit, PlannerInvStep, LandscapeInit, LandscapeStep, PTL DEF PlannerSpec
=============================================================================
