------------------------------ MODULE Experiment ------------------------------
(***************************************************************************)
(* The experiment harness: run_one() launches the robot, waits until it is *)
(* ready, records a bag, sends a goal and tears everything down, over and  *)
(* over in a sweep.  The simulator may crash at any time, the user may     *)
(* interrupt the harness, and the harness itself may die; what is left     *)
(* then is still there when the next run begins.                           *)
(*                                                                         *)
(* One harness is at work at a time.                                       *)
(***************************************************************************)
EXTENDS Naturals

CONSTANTS
  Domains,   \* ROS domain ids
  Dirs,      \* bag directories
  MaxRuns    \* bound: runs of the sweep

ASSUME RunsAssumption == MaxRuns \in Nat

Runs == 1 .. MaxRuns

\* The processes of a run.  "launch" stands for ros2 launch and all its nodes
\* but the simulator; "daemon" is the ros2cli daemon, which detaches itself.
Kinds == {"launch", "simulator", "daemon", "recorder"}

Stages == {"idle", "launching", "readying", "recording", "goal", "settling",
           "stopping", "tearing_down"}

\* "interrupted" after the teardown, "abandoned" without it.
Outcomes == {"none", "returned", "raised", "interrupted", "abandoned"}

VARIABLES
  run,       \* the latest run
  stage,     \* where run_one() is in it; idle between the runs
  alive,     \* the live processes of each run
  domain,    \* its ROS_DOMAIN_ID
  dir,       \* its bag_dir
  bags,      \* bag directories that exist
  log,       \* per bag directory, the runs whose READY_LINE its launch log has
  crashed,   \* the runs whose simulator has crashed: nothing restarts it
  result,    \* what came of the goal
  outcome,   \* how run_one() ended
  heard,     \* per run, the runs whose messages its recorder captured
  served     \* per run, the run whose launch executed its goal; 0 for none

vars == <<run, stage, alive, domain, dir, bags, log, crashed, result, outcome, heard, served>>

-----------------------------------------------------------------------------
\* What PKILL_PATTERN matches: all but the recorder, "ros2 bag record".
Reaped == {"launch", "simulator", "daemon"}

\* Plausible bug: every run relies on the one before to have cleaned up.
NotReaped(processes) == processes

PkillStragglers(processes) == [r \in Runs |-> processes[r] \ Reaped]

\* The process group of the launch: the daemon has left it, the recorder
\* was never in it.
KillLaunchTree(processes) == [processes EXCEPT ![run] = @ \ {"launch", "simulator"}]

Simulating(r) == {"launch", "simulator"} \subseteq alive[r]

\* Plausible bug: the launch log is opened for appending.
AppendedLog(d) == log

TruncatedLog(d) == [log EXCEPT ![d] = {}]

End(how) == stage' = "idle" /\ outcome' = [outcome EXCEPT ![run] = how]

-----------------------------------------------------------------------------
Init ==
  /\ run = 0 /\ stage = "idle"
  /\ alive = [r \in Runs |-> {}]
  /\ domain \in [Runs -> Domains]
  /\ dir \in [Runs -> Dirs]
  /\ bags = {}
  /\ log = [d \in Dirs |-> {}]
  /\ crashed = {}
  /\ result = "none"
  /\ outcome = [r \in Runs |-> "none"]
  /\ heard = [r \in Runs |-> {}]
  /\ served = [r \in Runs |-> 0]

\* run_one() refuses a bag directory that exists, else begins with a pkill.
StartRun ==
  /\ stage = "idle" /\ run < MaxRuns
  /\ run' = run + 1
  /\ result' = "none"
  /\ IF dir[run + 1] \in bags
     THEN /\ outcome' = [outcome EXCEPT ![run + 1] = "raised"]
          /\ UNCHANGED <<stage, alive>>
     ELSE /\ stage' = "launching"
          /\ alive' = PkillStragglers(alive)
          /\ UNCHANGED outcome
  /\ UNCHANGED <<domain, dir, bags, log, crashed, heard, served>>

Launch ==
  /\ stage = "launching"
  /\ log' = TruncatedLog(dir[run])
  /\ alive' = [alive EXCEPT ![run] = @ \cup {"launch"}]
  /\ stage' = "readying"
  /\ UNCHANGED <<run, domain, dir, bags, crashed, result, outcome, heard, served>>

\* The log has the line, and pgrep finds a simulator, whosever it is.
Ready == log[dir[run]] # {} /\ \E r \in Runs : "simulator" \in alive[r]

BecomeReady ==
  /\ stage = "readying" /\ Ready
  /\ stage' = "recording"
  /\ UNCHANGED <<run, alive, domain, dir, bags, log, crashed, result, outcome, heard, served>>

\* Plausible bug: the deadline is only for a launch that has died.
LaunchDied == "launch" \notin alive[run]

\* Every wait has its own deadline, which may pass whatever the others do.
DeadlinePasses == TRUE

NeverReady ==
  /\ stage = "readying" /\ DeadlinePasses
  /\ alive' = PkillStragglers(KillLaunchTree(alive))
  /\ End("raised")
  /\ UNCHANGED <<run, domain, dir, bags, log, crashed, result, heard, served>>

StartRecorder ==
  /\ stage = "recording"
  /\ alive' = [alive EXCEPT ![run] = @ \cup {"recorder"}]
  /\ bags' = bags \cup {dir[run]}
  /\ stage' = "goal"
  /\ UNCHANGED <<run, domain, dir, log, crashed, result, outcome, heard, served>>

\* send_goal() finds a server in its domain, which executes the goal.
GoalExecuted ==
  /\ stage = "goal"
  /\ \E r \in Runs :
       /\ Simulating(r) /\ domain[r] = domain[run]
       /\ served' = [served EXCEPT ![run] = r]
  /\ result' = "success"
  /\ stage' = "settling"
  /\ UNCHANGED <<run, alive, domain, dir, bags, log, crashed, outcome, heard>>

\* No server, a rejection, an error code, or no answer in time.
GoalFails ==
  /\ stage = "goal" /\ DeadlinePasses
  /\ result' = "failed"
  /\ stage' = "settling"
  /\ UNCHANGED <<run, alive, domain, dir, bags, log, crashed, outcome, heard, served>>

Settle ==
  /\ stage = "settling"
  /\ stage' = "stopping"
  /\ UNCHANGED <<run, alive, domain, dir, bags, log, crashed, result, outcome, heard, served>>

\* Plausible bug: a recorder that does not stop in time is left to itself.
RecorderMayStay(processes) == processes

\* SIGINT, and SIGKILL if that is not enough.
RecorderStopped(processes) == [processes EXCEPT ![run] = @ \ {"recorder"}]

StopRecorder ==
  /\ stage = "stopping"
  /\ alive' = RecorderStopped(alive)
  /\ stage' = "tearing_down"
  /\ UNCHANGED <<run, domain, dir, bags, log, crashed, result, outcome, heard, served>>

Verdict ==
  CASE result = "success" -> "returned"
    [] result = "failed" -> "raised"
    [] result = "interrupted" -> "interrupted"

TearDown ==
  /\ stage = "tearing_down"
  /\ alive' = PkillStragglers(KillLaunchTree(alive))
  /\ End(Verdict)
  /\ UNCHANGED <<run, domain, dir, bags, log, crashed, result, heard, served>>

Harness ==
  \/ Launch \/ BecomeReady \/ NeverReady \/ StartRecorder
  \/ GoalExecuted \/ GoalFails \/ Settle \/ StopRecorder \/ TearDown

-----------------------------------------------------------------------------
\* Ctrl-C, or any other exception.  Only from the goal to the settling does
\* run_one() handle it, by going on to the teardown.
Interrupt ==
  /\ stage \in {"goal", "settling"}
  /\ result' = "interrupted"
  /\ stage' = "stopping"
  /\ UNCHANGED <<run, alive, domain, dir, bags, log, crashed, outcome, heard, served>>

\* The harness is killed, or interrupted where it does not handle it (in the
\* teardown itself, too).
Abandon ==
  /\ stage # "idle"
  /\ End("abandoned")
  /\ UNCHANGED <<run, alive, domain, dir, bags, log, crashed, result, heard, served>>

\* capture_nominal_trajectory() and the user remove old bags.
RemoveBag ==
  /\ stage = "idle"
  /\ \E d \in bags : bags' = bags \ {d}
  /\ UNCHANGED <<run, stage, alive, domain, dir, log, crashed, result, outcome, heard, served>>

-----------------------------------------------------------------------------
SimulatorStarts(r) ==
  /\ "launch" \in alive[r] /\ "simulator" \notin alive[r] /\ r \notin crashed
  /\ alive' = [alive EXCEPT ![r] = @ \cup {"simulator"}]
  /\ UNCHANGED <<run, stage, domain, dir, bags, log, crashed, result, outcome, heard, served>>

\* ros2 control load_controller starts a daemon and succeeds.
ControllerLoads(r) ==
  /\ Simulating(r)
  /\ alive' = [alive EXCEPT ![r] = @ \cup {"daemon"}]
  /\ log' = [log EXCEPT ![dir[r]] = @ \cup {r}]
  /\ UNCHANGED <<run, stage, domain, dir, bags, crashed, result, outcome, heard, served>>

SimulatorCrashes(r) ==
  /\ "simulator" \in alive[r]
  /\ alive' = [alive EXCEPT ![r] = @ \ {"simulator"}]
  /\ crashed' = crashed \cup {r}
  /\ UNCHANGED <<run, stage, domain, dir, bags, log, result, outcome, heard, served>>

\* A recorder hears every launch of its domain.
Records(r, q) ==
  /\ "recorder" \in alive[r] /\ Simulating(q) /\ domain[q] = domain[r]
  /\ heard' = [heard EXCEPT ![r] = @ \cup {q}]
  /\ UNCHANGED <<run, stage, alive, domain, dir, bags, log, crashed, result, outcome, served>>

Environment ==
  \/ Interrupt \/ Abandon \/ RemoveBag
  \/ \E r \in Runs : SimulatorStarts(r) \/ ControllerLoads(r) \/ SimulatorCrashes(r)
  \/ \E r, q \in Runs : Records(r, q)

Next == StartRun \/ Harness \/ Environment

\* run_one() goes on as long as its process lives.
Spec == Init /\ [][Next]_vars /\ WF_vars(Harness)

-----------------------------------------------------------------------------
\* Every variable holds a value of its kind, and a run has an outcome exactly
\* when it is over.
ExperimentTypeOK ==
  /\ run \in 0 .. MaxRuns
  /\ stage \in Stages
  /\ alive \in [Runs -> SUBSET Kinds]
  /\ domain \in [Runs -> Domains]
  /\ dir \in [Runs -> Dirs]
  /\ bags \subseteq Dirs
  /\ log \in [Dirs -> SUBSET Runs]
  /\ crashed \subseteq Runs
  /\ result \in {"none", "success", "failed", "interrupted"}
  /\ outcome \in [Runs -> Outcomes]
  /\ heard \in [Runs -> SUBSET Runs]
  /\ served \in [Runs -> 0 .. MaxRuns]
  /\ \A r \in Runs : outcome[r] = "none" <=> r > run \/ (r = run /\ stage # "idle")

LaunchKinds == {"launch", "simulator", "daemon"}

\* Launches and daemons never pile up over a sweep, however its runs end: all
\* that are alive are those of one run.
NoPileUp ==
  \A q, r \in Runs : alive[q] \cap LaunchKinds # {} /\ alive[r] \cap LaunchKinds # {} => q = r

\* run_one() takes no other run's launch log or simulator for its own being
\* ready, though it asks for neither's owner.
ReadyIsOwn ==
  [][stage = "readying" /\ stage' = "recording" => Simulating(run) /\ run \in log[dir[run]]]_vars

\* A bag to compute metrics from: where run_one() returns normally, its goal
\* was executed by its own launch and its bag has that launch's messages only,
\* even if an abandoned run had the same domain.
OwnRobot ==
  \A r \in Runs : outcome[r] = "returned" => served[r] = r /\ heard[r] \subseteq {r}

\* Whatever way the goal went, a run that came to its end leaves no process.
LeavesNothing ==
  \A r \in Runs : outcome[r] \in {"returned", "raised", "interrupted"} => alive[r] = {}

\* No run waits for ever on a launch, a server or a recorder that hangs.
RunEnds == stage # "idle" ~> stage = "idle"

\* What the comment on the teardown says of what an abandoned run leaves
\* running: a later run's pkill cleans it up, so a launch finds itself alone.
StartsAlone ==
  [][stage = "launching" /\ stage' = "readying" => \A r \in Runs : alive[r] = {}]_vars

=============================================================================
