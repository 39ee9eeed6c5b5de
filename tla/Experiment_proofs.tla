--------------------------- MODULE Experiment_proofs ---------------------------
(***************************************************************************)
(* Theorems about the experiment harness.  The invariant they share says   *)
(* what the pkill at the start of a run achieves: while a run is under     *)
(* way, an earlier one has at most its recorder left.                      *)
(***************************************************************************)
EXTENDS Experiment, TLAPS

USE RunsAssumption

\* Runs to come have left no trace.
Untouched ==
  \A r \in Runs : r > run => alive[r] = {} /\ heard[r] = {}

\* An earlier run has at most its recorder left.
Alone ==
  stage # "idle" => \A r \in Runs : r # run => alive[r] \subseteq {"recorder"}

\* What the current run has by each stage.
Staged ==
  /\ stage # "idle" => run \in Runs /\ heard[run] \subseteq {run}
  /\ stage = "launching" => alive[run] = {}
  /\ stage \notin {"idle", "launching"} => "launch" \in alive[run]
  /\ stage = "readying" => log[dir[run]] \subseteq {run}
  /\ stage \in {"launching", "readying", "recording", "tearing_down"} => "recorder" \notin alive[run]

\* The goal's result, and who executed it.
Answered ==
  /\ stage \in {"launching", "readying", "recording", "goal"} => result = "none"
  /\ stage \in {"settling", "stopping", "tearing_down"} => result # "none"
  /\ stage # "idle" /\ result = "success" => served[run] = run

IInv ==
  /\ ExperimentTypeOK
  /\ Untouched /\ Alone /\ Staged /\ Answered
  /\ NoPileUp /\ OwnRobot /\ LeavesNothing

LEMMA Reaping ==
  ASSUME alive \in [Runs -> SUBSET Kinds]
  PROVE  /\ PkillStragglers(alive) \in [Runs -> SUBSET Kinds]
         /\ \A r \in Runs : /\ PkillStragglers(alive)[r] \subseteq alive[r]
                            /\ PkillStragglers(alive)[r] \subseteq {"recorder"}
BY DEF PkillStragglers, Reaped, Kinds

LEMMA Clearing ==
  ASSUME alive \in [Runs -> SUBSET Kinds], run \in Runs
  PROVE  /\ PkillStragglers(KillLaunchTree(alive)) \in [Runs -> SUBSET Kinds]
         /\ \A r \in Runs : /\ PkillStragglers(KillLaunchTree(alive))[r] \subseteq alive[r]
                            /\ PkillStragglers(KillLaunchTree(alive))[r] \subseteq {"recorder"}
BY DEF PkillStragglers, KillLaunchTree, Reaped, Kinds

LEMMA Start == Init => IInv
<1> SUFFICES ASSUME Init PROVE IInv OBVIOUS
<1>1. ExperimentTypeOK
  BY DEF Init, ExperimentTypeOK, Stages, Outcomes, Runs
<1>2. Untouched /\ Alone /\ Staged /\ Answered
  BY DEF Init, Untouched, Alone, Staged, Answered
<1>3. NoPileUp /\ OwnRobot /\ LeavesNothing
  BY DEF Init, NoPileUp, OwnRobot, LeavesNothing
<1> QED BY <1>1, <1>2, <1>3 DEF IInv

-----------------------------------------------------------------------------
LEMMA TypeKept ==
  ASSUME IInv, Next
  PROVE  ExperimentTypeOK'
<1> USE DEF IInv, ExperimentTypeOK, Stages, Outcomes
<1>1. CASE StartRun
  <2>1. run + 1 \in Runs BY <1>1 DEF StartRun, Runs
  <2>2. CASE dir[run + 1] \in bags BY <1>1, <2>1, <2>2 DEF StartRun, Runs
  <2>3. CASE dir[run + 1] \notin bags BY <1>1, <2>1, <2>3, Reaping DEF StartRun, Runs
  <2> QED BY <2>2, <2>3
<1>2. CASE Launch BY <1>2 DEF Launch, TruncatedLog, Staged, Kinds, Runs
<1>3. CASE BecomeReady BY <1>3 DEF BecomeReady, Staged, Runs
<1>4. CASE NeverReady BY <1>4, Clearing DEF NeverReady, End, Staged, Runs
<1>5. CASE StartRecorder BY <1>5 DEF StartRecorder, Staged, Kinds, Runs
<1>6. CASE GoalExecuted BY <1>6 DEF GoalExecuted, Staged, Runs
<1>7. CASE GoalFails BY <1>7 DEF GoalFails, Staged, Runs
<1>8. CASE Settle BY <1>8 DEF Settle, Staged, Runs
<1>9. CASE StopRecorder BY <1>9 DEF StopRecorder, RecorderStopped, Staged, Runs
<1>10. CASE TearDown
  <2>1. Verdict \in {"returned", "raised", "interrupted"}
    BY <1>10 DEF TearDown, Verdict, Answered
  <2> QED BY <1>10, <2>1, Clearing DEF TearDown, End, Staged, Runs
<1>11. CASE Interrupt BY <1>11 DEF Interrupt, Staged, Runs
<1>12. CASE Abandon BY <1>12 DEF Abandon, End, Staged, Runs
<1>13. CASE RemoveBag BY <1>13 DEF RemoveBag, Runs
<1>14. ASSUME NEW r \in Runs, SimulatorStarts(r) \/ ControllerLoads(r) \/ SimulatorCrashes(r)
       PROVE  ExperimentTypeOK'
  <2>1. CASE SimulatorStarts(r) BY <2>1 DEF SimulatorStarts, Kinds
  <2>2. CASE ControllerLoads(r) BY <2>2 DEF ControllerLoads, Kinds
  <2>3. CASE SimulatorCrashes(r) BY <2>3 DEF SimulatorCrashes
  <2> QED BY <1>14, <2>1, <2>2, <2>3
<1>15. ASSUME NEW r \in Runs, NEW q \in Runs, Records(r, q) PROVE ExperimentTypeOK'
  BY <1>15 DEF Records
<1> QED
  BY <1>1, <1>2, <1>3, <1>4, <1>5, <1>6, <1>7, <1>8, <1>9, <1>10, <1>11, <1>12, <1>13,
     <1>14, <1>15 DEF Next, Harness, Environment

\* Who has live processes, stage by stage.
LEMMA ProcessesKept ==
  ASSUME IInv, Next
  PROVE  (Alone /\ NoPileUp /\ LeavesNothing /\ Untouched)'
<1> USE DEF IInv, ExperimentTypeOK, Alone, NoPileUp, LeavesNothing, Untouched, LaunchKinds, Runs
<1>1. CASE StartRun
  <2>1. run + 1 \in Runs BY <1>1 DEF StartRun
  <2>2. CASE dir[run + 1] \in bags BY <1>1, <2>1, <2>2 DEF StartRun
  <2>3. CASE dir[run + 1] \notin bags
    <3>1. \A r \in Runs : alive'[r] \subseteq alive[r] /\ alive'[r] \subseteq {"recorder"}
      BY <1>1, <2>3, Reaping DEF StartRun
    <3>2. run' = run + 1 /\ UNCHANGED <<outcome, heard>>
      BY <1>1, <2>3 DEF StartRun
    <3> QED BY <3>1, <3>2
  <2> QED BY <2>2, <2>3
<1>2. CASE Launch BY <1>2 DEF Launch, Staged
<1>3. CASE UNCHANGED <<run, alive, outcome, heard>> /\ stage # "idle"
  BY <1>3
<1>4. CASE NeverReady
  <2>1. \A r \in Runs : alive'[r] \subseteq alive[r] /\ alive'[r] \subseteq {"recorder"}
    BY <1>4, Clearing DEF NeverReady, Staged
  <2>2. alive'[run] = {} /\ UNCHANGED <<run, heard>> /\ run \in Runs
    BY <1>4, <2>1 DEF NeverReady, Staged
  <2> QED BY <1>4, <2>1, <2>2 DEF NeverReady, End
<1>5. CASE StartRecorder BY <1>5 DEF StartRecorder, Staged
<1>6. CASE StopRecorder BY <1>6 DEF StopRecorder, RecorderStopped, Staged
<1>7. CASE TearDown
  <2>1. \A r \in Runs : alive'[r] \subseteq alive[r] /\ alive'[r] \subseteq {"recorder"}
    BY <1>7, Clearing DEF TearDown, Staged
  <2>2. alive'[run] = {} /\ UNCHANGED <<run, heard>> /\ run \in Runs
    BY <1>7, <2>1 DEF TearDown, Staged
  <2> QED BY <1>7, <2>1, <2>2 DEF TearDown, End
<1>8. CASE Abandon BY <1>8 DEF Abandon, End, Staged
<1>9. CASE RemoveBag BY <1>9 DEF RemoveBag
<1>10. ASSUME NEW r \in Runs, SimulatorStarts(r) \/ ControllerLoads(r) \/ SimulatorCrashes(r)
       PROVE  (Alone /\ NoPileUp /\ LeavesNothing /\ Untouched)'
  <2>1. UNCHANGED <<run, stage, outcome, heard>>
    BY <1>10 DEF SimulatorStarts, ControllerLoads, SimulatorCrashes
  <2>2. \A q \in Runs : q # r => alive'[q] = alive[q]
    BY <1>10 DEF SimulatorStarts, ControllerLoads, SimulatorCrashes
  <2>3. alive[r] \cap LaunchKinds # {} /\ ~(alive[r] \subseteq {"recorder"})
    BY <1>10 DEF SimulatorStarts, ControllerLoads, SimulatorCrashes, Simulating
  <2> QED BY <2>1, <2>2, <2>3
<1>11. ASSUME NEW r \in Runs, NEW q \in Runs, Records(r, q)
       PROVE  (Alone /\ NoPileUp /\ LeavesNothing /\ Untouched)'
  BY <1>11 DEF Records
<1> QED
  BY <1>1, <1>2, <1>3, <1>4, <1>5, <1>6, <1>7, <1>8, <1>9, <1>10, <1>11
  DEF Next, Harness, Environment, BecomeReady, GoalExecuted, GoalFails, Settle, Interrupt

LEMMA StagesKept ==
  ASSUME IInv, Next
  PROVE  (Staged /\ Answered)'
<1> USE DEF IInv, ExperimentTypeOK, Staged, Answered, Runs
<1>1. CASE StartRun
  <2>1. run + 1 \in Runs /\ run + 1 > run BY <1>1 DEF StartRun
  <2>2. CASE dir[run + 1] \in bags BY <1>1, <2>1, <2>2 DEF StartRun
  <2>3. CASE dir[run + 1] \notin bags
    <3>1. alive'[run + 1] = {} BY <1>1, <2>1, <2>3, Reaping DEF StartRun, Untouched
    <3>2. heard[run + 1] = {} BY <2>1 DEF Untouched
    <3>3. run' = run + 1 /\ heard' = heard /\ stage' = "launching" /\ result' = "none"
      BY <1>1, <2>3 DEF StartRun
    <3> QED BY <2>1, <3>1, <3>2, <3>3
  <2> QED BY <2>2, <2>3
<1>2. CASE Launch BY <1>2 DEF Launch, TruncatedLog
<1>3. CASE BecomeReady BY <1>3 DEF BecomeReady
<1>4. CASE NeverReady BY <1>4 DEF NeverReady, End
<1>5. CASE StartRecorder BY <1>5 DEF StartRecorder
<1>6. CASE GoalExecuted
  <2>1. PICK r \in Runs : Simulating(r) /\ served' = [served EXCEPT ![run] = r]
    BY <1>6 DEF GoalExecuted
  <2>2. r = run BY <1>6, <2>1 DEF GoalExecuted, Alone, Simulating
  <2> QED BY <1>6, <2>1, <2>2 DEF GoalExecuted
<1>7. CASE GoalFails BY <1>7 DEF GoalFails
<1>8. CASE Settle BY <1>8 DEF Settle
<1>9. CASE StopRecorder BY <1>9 DEF StopRecorder, RecorderStopped
<1>10. CASE TearDown BY <1>10 DEF TearDown, End
<1>11. CASE Interrupt BY <1>11 DEF Interrupt
<1>12. CASE Abandon BY <1>12 DEF Abandon, End
<1>13. CASE RemoveBag BY <1>13 DEF RemoveBag
<1>14. ASSUME NEW r \in Runs, SimulatorStarts(r) \/ ControllerLoads(r) \/ SimulatorCrashes(r)
       PROVE  (Staged /\ Answered)'
  <2>1. stage # "idle" => r = run
    BY <1>14 DEF SimulatorStarts, ControllerLoads, SimulatorCrashes, Simulating, Alone
  <2>2. CASE SimulatorStarts(r) BY <2>1, <2>2 DEF SimulatorStarts
  <2>3. CASE ControllerLoads(r) BY <2>1, <2>3 DEF ControllerLoads, Simulating
  <2>4. CASE SimulatorCrashes(r) BY <2>1, <2>4 DEF SimulatorCrashes
  <2> QED BY <1>14, <2>2, <2>3, <2>4
<1>15. ASSUME NEW r \in Runs, NEW q \in Runs, Records(r, q) PROVE (Staged /\ Answered)'
  <2>1. stage # "idle" => q = run BY <1>15 DEF Records, Simulating, Alone
  <2> QED BY <1>15, <2>1 DEF Records
<1> QED
  BY <1>1, <1>2, <1>3, <1>4, <1>5, <1>6, <1>7, <1>8, <1>9, <1>10, <1>11, <1>12, <1>13,
     <1>14, <1>15 DEF Next, Harness, Environment

LEMMA OwnRobotKept ==
  ASSUME IInv, Next
  PROVE  OwnRobot'
<1> USE DEF IInv, ExperimentTypeOK, OwnRobot, Runs
<1>1. CASE UNCHANGED <<outcome, heard, served>>
  BY <1>1
<1>2. CASE StartRun
  <2>1. run + 1 \in Runs BY <1>2 DEF StartRun
  <2> QED BY <1>2, <2>1 DEF StartRun
<1>3. CASE NeverReady BY <1>3 DEF NeverReady, End
<1>4. CASE GoalExecuted
  <2>1. outcome[run] = "none" BY <1>4 DEF GoalExecuted, Staged
  <2> QED BY <1>4, <2>1 DEF GoalExecuted
<1>5. CASE TearDown
  <2>1. Verdict = "returned" => served[run] = run /\ heard[run] \subseteq {run}
    BY <1>5 DEF TearDown, Verdict, Staged, Answered
  <2> QED BY <1>5, <2>1 DEF TearDown, End
<1>6. CASE Abandon BY <1>6 DEF Abandon, End
<1>7. ASSUME NEW r \in Runs, NEW q \in Runs, Records(r, q) PROVE OwnRobot'
  <2>1. outcome[r] # "returned" BY <1>7 DEF Records, LeavesNothing
  <2> QED BY <1>7, <2>1 DEF Records
<1> QED
  BY <1>1, <1>2, <1>3, <1>4, <1>5, <1>6, <1>7
  DEF Next, Harness, Environment, Launch, BecomeReady, StartRecorder, GoalFails, Settle,
      StopRecorder, Interrupt, RemoveBag, SimulatorStarts, ControllerLoads, SimulatorCrashes

LEMMA Kept == IInv /\ [Next]_vars => IInv'
<1>1. ASSUME IInv, Next PROVE IInv'
  BY <1>1, TypeKept, ProcessesKept, StagesKept, OwnRobotKept DEF IInv
<1>2. ASSUME IInv, UNCHANGED vars PROVE IInv'
  BY <1>2 DEF vars, IInv, ExperimentTypeOK, Untouched, Alone, Staged, Answered, NoPileUp,
     OwnRobot, LeavesNothing
<1> QED BY <1>1, <1>2

-----------------------------------------------------------------------------
\* Type correctness, for every number of runs, domains and directories.
THEOREM TypeCorrect == Spec => []ExperimentTypeOK
<1>1. IInv => ExperimentTypeOK BY DEF IInv
<1> QED BY Start, Kept, <1>1, PTL DEF Spec

\* Launches and daemons never pile up over a sweep.
THEOREM NeverPileUp == Spec => []NoPileUp
<1>1. IInv => NoPileUp BY DEF IInv
<1> QED BY Start, Kept, <1>1, PTL DEF Spec

\* A bag to compute metrics from is of the run's own robot.
THEOREM BagsAreOwn == Spec => []OwnRobot
<1>1. IInv => OwnRobot BY DEF IInv
<1> QED BY Start, Kept, <1>1, PTL DEF Spec

\* A run that came to its end has left nothing running.
THEOREM NothingLeft == Spec => []LeavesNothing
<1>1. IInv => LeavesNothing BY DEF IInv
<1> QED BY Start, Kept, <1>1, PTL DEF Spec

\* Being ready is never read off another run.
THEOREM ReadinessIsOwn == Spec => ReadyIsOwn
<1> DEFINE Own == stage = "readying" /\ stage' = "recording" =>
                    Simulating(run) /\ run \in log[dir[run]]
<1>1. IInv /\ [Next]_vars => [Own]_vars
  <2> SUFFICES ASSUME IInv, [Next]_vars, stage = "readying", stage' = "recording"
               PROVE  Simulating(run) /\ run \in log[dir[run]]
    OBVIOUS
  <2>1. BecomeReady
    BY DEF Next, Harness, Environment, StartRun, Launch, NeverReady, StartRecorder, GoalExecuted,
       GoalFails, Settle, StopRecorder, TearDown, Interrupt, Abandon, RemoveBag, End,
       SimulatorStarts, ControllerLoads, SimulatorCrashes, Records, vars
  <2>2. PICK r \in Runs : "simulator" \in alive[r]
    BY <2>1 DEF BecomeReady, Ready
  <2>3. r = run BY <2>2 DEF IInv, Alone
  <2>4. log[dir[run]] # {} /\ log[dir[run]] \subseteq {run} /\ "launch" \in alive[run]
    BY <2>1 DEF BecomeReady, Ready, IInv, Staged
  <2> QED BY <2>2, <2>3, <2>4 DEF Simulating
<1> QED BY Start, Kept, <1>1, PTL DEF Spec, ReadyIsOwn
=============================================================================
