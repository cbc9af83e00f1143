---------------------------- MODULE RunLifecycle ----------------------------
(***************************************************************************)
(* The life of a run: the rows of the backend's database, the API server   *)
(* that recovers and submits, the worker process that claims, and the      *)
(* worker's task that takes one claimed run through discovery, planning,   *)
(* the two test phases, aggregation and completion                         *)
(* (backend/worker.rs, backend/storage.rs, backend/mod.rs).                *)
(*                                                                         *)
(* One deployment: one server process and the worker process it spawns.    *)
(* Every database transaction is one step; the shutdown flag only goes     *)
(* from FALSE to TRUE, so a check of it is joined to the step after it.    *)
(* A statement that returns an error has had no effect, or it took effect  *)
(* and only the reply to it is lost.                                       *)
(* Request fingerprints and cache-hit rows are modelled in RunSubmission,  *)
(* permits of the test semaphores in TestPhase.                            *)
(***************************************************************************)
EXTENDS Integers

CONSTANTS
  Runs,         \* run ids
  Ids,          \* ids of the tests each run requests
  Probes,       \* the ids that are internal discovery probes, never planned
  LateIds,      \* the ids deferred to the late phase (web_api_fuzz)
  BypassIds,    \* the ids that also run on a dead host
  Hosts,        \* hosts discovery may find
  MaxActive,    \* active_run_limit of the worker loop
  MaxErrors,    \* bound: failing database, file or plugin steps
  MaxCrashes,   \* bound: crashes of the machine or of the worker process
  MaxStops      \* bound: ctrl-c shutdowns

ASSUME RunLifecycleAssumption ==
  /\ Probes \subseteq Ids
  /\ LateIds \subseteq Ids
  /\ BypassIds \subseteq Ids
  /\ MaxActive \in Nat \ {0}
  /\ MaxErrors \in Nat
  /\ MaxCrashes \in Nat
  /\ MaxStops \in Nat

\* A planned test is a test id and the host it is executed against; the
\* planner makes at most one of each pair for a run.
Tests == (Ids \ Probes) \X Hosts
IdOf(t) == t[1]
HostOf(t) == t[2]
IsLate(t) == IdOf(t) \in LateIds

VARIABLES
  \* rows of the database
  runState,     \* runs.state, "absent" before the run is submitted
  submittedAt,  \* runs.submitted_at
  outcome,      \* run_requested_tests.state per requested id
  facts,        \* the run has facts and site_profiles rows
  dead,         \* hosts of the run's dead_hosts rows
  planned,      \* planned_tests.state, "absent" when there is no row
  results,      \* number of test_results rows of each planned test
  reportRow,    \* the run has a row in reports
  \* the artifact directory
  reportFile,   \* results held by report.json, NoReport when it is not whole
  \* the server process
  server,       \* down, recovering, up or stopping
  recovering,   \* runs the recovery loop still has to re-queue
  clock,        \* submission times given out
  \* the worker process
  loop,         \* control point of run_loop, "down" when there is no process
  shutdown,     \* ShutdownState.requested of the worker process
  accepting,    \* accepting_runs
  activeCount,  \* active_run_count
  task,         \* control point of process_run for each run
  plan,         \* runtime_tests of the task
  todo,         \* requested ids whose outcome the task has still to set
  test,         \* the spawned test tasks of the run's current phase
  \* bounds
  errors, crashes, stops

rows == <<runState, submittedAt, outcome, facts, dead, planned, results, reportRow>>
tasks == <<task, plan, todo, test>>
worker == <<loop, shutdown, accepting, activeCount>>
serverVars == <<server, recovering, clock>>
bounds == <<errors, crashes, stops>>
vars == <<rows, reportFile, serverVars, worker, tasks, bounds>>

ActiveStates == {"discovering", "planning", "running", "aggregating"}
RunStates == {"absent", "queued", "completed", "failed"} \union ActiveStates
Outcomes == {"accepted", "expanded_to_planned_tests", "rejected_not_applicable"}
TerminalStates == {"completed", "skipped_dead_host", "failed_to_start"}
PlannedStates == {"absent", "queued", "running"} \union TerminalStates
ServerStates == {"down", "recovering", "up", "stopping"}
LoopStates == {"down", "claim", "wait"}
\* Points of process_run at which a failing step goes to mark_run_failed.
FallibleSteps == {"discover", "discovered", "outcomes", "bigOutcomes", "planned", "main",
                  "late", "lateDone", "report", "record", "complete"}
TaskStates == {"none", "prepare", "mainDone", "fail", "ended"} \union FallibleSteps
TestStates == {"idle", "spawned", "executing", "aborted"}
NoReport == [tests |-> {}, written |-> FALSE]
Reports == [tests : SUBSET Tests, written : BOOLEAN]

Init ==
  /\ runState = [r \in Runs |-> "absent"]
  /\ submittedAt = [r \in Runs |-> 0]
  /\ outcome = [r \in Runs |-> [i \in Ids |-> "accepted"]]
  /\ facts = [r \in Runs |-> FALSE]
  /\ dead = [r \in Runs |-> {}]
  /\ planned = [r \in Runs |-> [t \in Tests |-> "absent"]]
  /\ results = [r \in Runs |-> [t \in Tests |-> 0]]
  /\ reportRow = [r \in Runs |-> FALSE]
  /\ reportFile = [r \in Runs |-> NoReport]
  /\ server = "down"
  /\ recovering = {}
  /\ clock = 0
  /\ loop = "down"
  /\ shutdown = FALSE
  /\ accepting = FALSE
  /\ activeCount = 0
  /\ task = [r \in Runs |-> "none"]
  /\ plan = [r \in Runs |-> {}]
  /\ todo = [r \in Runs |-> {}]
  /\ test = [r \in Runs |-> [t \in Tests |-> "idle"]]
  /\ errors = 0
  /\ crashes = 0
  /\ stops = 0

-----------------------------------------------------------------------------
\* The server process.

\* Mutant: a recovery that takes every run that was ever started.
EverStarted(r) == runState[r] \notin {"absent", "queued", "failed"}

Incomplete(r) == runState[r] \in ActiveStates

\* load_state(recover_runs = true) reads the ids of the incomplete runs.
ServerStart ==
  /\ server = "down" /\ loop = "down"
  /\ server' = "recovering"
  /\ recovering' = {r \in Runs : Incomplete(r)}
  /\ UNCHANGED <<rows, reportFile, clock, worker, tasks, bounds>>

\* Mutant: a recovery that forgets the dead hosts.
DeleteFactsOnly(r) ==
  /\ facts' = [facts EXCEPT ![r] = FALSE]
  /\ UNCHANGED dead

\* The rows insert_discovery made.
DeleteDiscovery(r) ==
  /\ dead' = [dead EXCEPT ![r] = {}]
  /\ facts' = [facts EXCEPT ![r] = FALSE]

\* One transaction of recover_incomplete_runs: every row the run has gathered
\* is deleted, its requested tests are accepted again and it is queued, with
\* the submission time it had.
RecoverRun(r) ==
  /\ server = "recovering" /\ r \in recovering
  /\ recovering' = recovering \ {r}
  /\ reportRow' = [reportRow EXCEPT ![r] = FALSE]
  /\ results' = [results EXCEPT ![r] = [t \in Tests |-> 0]]
  /\ planned' = [planned EXCEPT ![r] = [t \in Tests |-> "absent"]]
  /\ DeleteDiscovery(r)
  /\ outcome' = [outcome EXCEPT ![r] = [i \in Ids |-> "accepted"]]
  /\ runState' = [runState EXCEPT ![r] = "queued"]
  /\ UNCHANGED <<submittedAt, reportFile, server, clock, worker, tasks, bounds>>

\* A failing recovery transaction ends the server before it spawns a worker;
\* so does the last one when only its reply is lost, and a failing spawn.
RecoverFails ==
  /\ server = "recovering"
  /\ errors < MaxErrors /\ errors' = errors + 1
  /\ server' = "down"
  /\ recovering' = {}
  /\ UNCHANGED <<rows, reportFile, clock, worker, tasks, crashes, stops>>

\* The worker process is spawned and the listener bound.
ServerReady ==
  /\ server = "recovering" /\ recovering = {}
  /\ server' = "up"
  /\ loop' = "claim"
  /\ shutdown' = FALSE
  /\ accepting' = TRUE
  /\ activeCount' = 0
  /\ UNCHANGED <<rows, reportFile, recovering, clock, tasks, bounds>>

\* submit_run inserts a queued run and its accepted requested tests.
SubmitRun(r) ==
  /\ server = "up"
  /\ runState[r] = "absent"
  /\ runState' = [runState EXCEPT ![r] = "queued"]
  /\ submittedAt' = [submittedAt EXCEPT ![r] = clock + 1]
  /\ clock' = clock + 1
  /\ UNCHANGED <<outcome, facts, dead, planned, results, reportRow, reportFile,
                 server, recovering, worker, tasks, bounds>>

\* ctrl-c reaches the process group: the server stops accepting requests and
\* the worker's flag is raised, when there is still a worker.
CtrlC ==
  /\ server = "up"
  /\ stops < MaxStops /\ stops' = stops + 1
  /\ server' = "stopping"
  /\ shutdown' = (loop # "down")
  /\ UNCHANGED <<rows, reportFile, recovering, clock, loop, accepting, activeCount,
                 tasks, errors, crashes>>

\* run_server returns once its worker has exited.
ServerStop ==
  /\ server = "stopping" /\ loop = "down"
  /\ server' = "down"
  /\ UNCHANGED <<rows, reportFile, recovering, clock, worker, tasks, bounds>>

\* Mutant: tasks that outlive the loop of their worker.
LoopGone ==
  /\ loop' = "down"
  /\ shutdown' = FALSE
  /\ accepting' = FALSE
  /\ activeCount' = 0
  /\ UNCHANGED tasks

\* The memory of the worker process is gone.
WorkerGone ==
  /\ loop' = "down"
  /\ shutdown' = FALSE
  /\ accepting' = FALSE
  /\ activeCount' = 0
  /\ task' = [r \in Runs |-> "none"]
  /\ plan' = [r \in Runs |-> {}]
  /\ todo' = [r \in Runs |-> {}]
  /\ test' = [r \in Runs |-> [t \in Tests |-> "idle"]]

\* The worker process dies; the server goes on serving requests.
WorkerCrash ==
  /\ loop # "down"
  /\ crashes < MaxCrashes /\ crashes' = crashes + 1
  /\ WorkerGone
  /\ UNCHANGED <<rows, reportFile, serverVars, errors, stops>>

\* The machine, or the whole process group, dies.
Crash ==
  /\ server # "down"
  /\ crashes < MaxCrashes /\ crashes' = crashes + 1
  /\ WorkerGone
  /\ server' = "down"
  /\ recovering' = {}
  /\ UNCHANGED <<rows, reportFile, clock, errors, stops>>

-----------------------------------------------------------------------------
\* The worker's run loop. Back at its top it stops accepting once the flag is up.

\* Mutant: a claim that also takes runs that are active.
OldestUnfinished(r) ==
  /\ runState[r] \in ActiveStates \union {"queued"}
  /\ \A q \in Runs : runState[q] = "queued" => submittedAt[r] <= submittedAt[q]

OldestQueued(r) ==
  /\ runState[r] = "queued"
  /\ \A q \in Runs : runState[q] = "queued" => submittedAt[r] <= submittedAt[q]

CanClaim == loop = "claim" /\ accepting /\ activeCount < MaxActive

\* claim_next_run: the oldest queued run becomes discovering and gets a task.
ClaimRun(r) ==
  /\ CanClaim /\ OldestQueued(r)
  /\ runState' = [runState EXCEPT ![r] = "discovering"]
  /\ task' = [task EXCEPT ![r] = "prepare"]
  /\ activeCount' = activeCount + 1
  /\ UNCHANGED <<submittedAt, outcome, facts, dead, planned, results, reportRow, reportFile,
                 serverVars, loop, shutdown, accepting, plan, todo, test, bounds>>

\* The update of claim_next_run went through and loading the row failed: the
\* run is discovering and no task has it.
ClaimLoadFails(r) ==
  /\ CanClaim /\ OldestQueued(r)
  /\ errors < MaxErrors /\ errors' = errors + 1
  /\ runState' = [runState EXCEPT ![r] = "discovering"]
  /\ loop' = "wait"
  /\ UNCHANGED <<submittedAt, outcome, facts, dead, planned, results, reportRow, reportFile,
                 serverVars, shutdown, accepting, activeCount, tasks, crashes, stops>>

\* The poll itself fails: nothing is claimed and the claim loop is left.
ClaimPollFails ==
  /\ CanClaim
  /\ errors < MaxErrors /\ errors' = errors + 1
  /\ loop' = "wait"
  /\ UNCHANGED <<rows, reportFile, serverVars, shutdown, accepting, activeCount, tasks,
                 crashes, stops>>

\* The claim loop ends: not accepting, at the limit, or nothing queued.
ClaimEnds ==
  /\ loop = "claim"
  /\ \/ ~accepting
     \/ activeCount >= MaxActive
     \/ \A r \in Runs : runState[r] # "queued"
  /\ loop' = "wait"
  /\ UNCHANGED <<rows, reportFile, serverVars, shutdown, accepting, activeCount, tasks, bounds>>

\* Mutant: a loop that does not look at the flag again.
AcceptingAsBefore == accepting

\* The check at the top of the loop.
StillAccepting == accepting /\ ~shutdown

\* With no active run and accepting, the loop sleeps or is notified.
PollAgain ==
  /\ loop = "wait" /\ activeCount = 0 /\ accepting
  /\ loop' = "claim"
  /\ accepting' = StillAccepting
  /\ UNCHANGED <<rows, reportFile, serverVars, shutdown, activeCount, tasks, bounds>>

\* Mutant: the joined run still counts as active.
JoinUncounted(r) ==
  /\ loop = "wait" /\ activeCount # 0
  /\ task[r] = "ended"
  /\ task' = [task EXCEPT ![r] = "none"]
  /\ loop' = "claim"
  /\ accepting' = StillAccepting
  /\ UNCHANGED <<rows, reportFile, serverVars, shutdown, activeCount, plan, todo, test, bounds>>

\* join_next returns one of the ended tasks.
JoinRun(r) ==
  /\ loop = "wait" /\ activeCount # 0
  /\ task[r] = "ended"
  /\ task' = [task EXCEPT ![r] = "none"]
  /\ activeCount' = activeCount - 1
  /\ loop' = "claim"
  /\ accepting' = StillAccepting
  /\ UNCHANGED <<rows, reportFile, serverVars, shutdown, plan, todo, test, bounds>>

\* Drained after a shutdown request, the worker process exits.
WorkerExit ==
  /\ loop = "wait" /\ activeCount = 0 /\ ~accepting
  /\ WorkerGone
  /\ UNCHANGED <<rows, reportFile, serverVars, bounds>>

-----------------------------------------------------------------------------
\* process_run: the task of one claimed run.

\* The task returns; its memory is dropped.
TaskEnds(r) ==
  /\ task' = [task EXCEPT ![r] = "ended"]
  /\ plan' = [plan EXCEPT ![r] = {}]
  /\ todo' = [todo EXCEPT ![r] = {}]

\* RunPaths::prepare removes the run's directory and makes it again.
Prepare(r) ==
  /\ task[r] = "prepare"
  /\ reportFile' = [reportFile EXCEPT ![r] = NoReport]
  /\ task' = [task EXCEPT ![r] = "discover"]
  /\ UNCHANGED <<rows, serverVars, worker, plan, todo, test, bounds>>

\* An error of RunPaths::prepare, before or after the directory is removed,
\* leaves process_run before its error handling.
PrepareFails(r) ==
  /\ task[r] = "prepare"
  /\ errors < MaxErrors /\ errors' = errors + 1
  /\ reportFile' \in {reportFile, [reportFile EXCEPT ![r] = NoReport]}
  /\ TaskEnds(r)
  /\ UNCHANGED <<rows, serverVars, worker, test, crashes, stops>>

\* perform_discovery and the transaction of insert_discovery.  The primary
\* keys of the rows make the insert fail when rows of an earlier try are left.
InsertDiscovery(r) ==
  /\ task[r] = "discover"
  /\ \/ /\ ~facts[r]
        /\ \E hosts \in SUBSET Hosts : dead' = [dead EXCEPT ![r] = hosts]
        /\ facts' = [facts EXCEPT ![r] = TRUE]
        /\ task' = [task EXCEPT ![r] = "discovered"]
     \/ /\ facts[r]
        /\ task' = [task EXCEPT ![r] = "fail"]
        /\ UNCHANGED <<facts, dead>>
  /\ UNCHANGED <<runState, submittedAt, outcome, planned, results, reportRow, reportFile,
                 serverVars, worker, plan, todo, test, bounds>>

\* Mutant: a shutdown that is handed to the error handling.
LeaveAsFailure(r) ==
  /\ task[r] \in {"discovered", "planned", "mainDone", "lateDone"}
  /\ shutdown
  /\ task' = [task EXCEPT ![r] = "fail"]
  /\ UNCHANGED <<rows, reportFile, serverVars, worker, plan, todo, test, bounds>>

\* The shutdown checks after discovery, planning and each phase: the run is
\* left incomplete for recovery.
Leave(r) ==
  /\ task[r] \in {"discovered", "planned", "mainDone", "lateDone"}
  /\ shutdown
  /\ TaskEnds(r)
  /\ UNCHANGED <<rows, reportFile, serverVars, worker, test, bounds>>

\* Too many subdomains: nothing is planned.
TooBig(r) ==
  /\ task[r] = "discovered" /\ ~shutdown
  /\ task' = [task EXCEPT ![r] = "bigOutcomes"]
  /\ todo' = [todo EXCEPT ![r] = Ids]
  /\ UNCHANGED <<rows, reportFile, serverVars, worker, plan, test, bounds>>

\* The run is planning; the rules give the planned tests of the requested ids.
StartPlanning(r) ==
  /\ task[r] = "discovered" /\ ~shutdown
  /\ runState' = [runState EXCEPT ![r] = "planning"]
  /\ \E found \in SUBSET Tests : plan' = [plan EXCEPT ![r] = found]
  /\ todo' = [todo EXCEPT ![r] = Ids]
  /\ task' = [task EXCEPT ![r] = "outcomes"]
  /\ UNCHANGED <<submittedAt, outcome, facts, dead, planned, results, reportRow, reportFile,
                 serverVars, worker, test, bounds>>

\* Mutants: the outcome named after the state of the planned tests; and late
\* tests not counted as planned.
OutcomeAsPlanned(id, tests) ==
  IF \E t \in tests : IdOf(t) = id THEN "queued" ELSE "accepted"
OutcomeOfMain(id, tests) ==
  IF id \in Probes THEN "accepted"
  ELSE IF \E t \in tests : IdOf(t) = id /\ ~IsLate(t) THEN "expanded_to_planned_tests"
  ELSE "rejected_not_applicable"

OutcomeOf(id, tests) ==
  IF id \in Probes THEN "accepted"
  ELSE IF \E t \in tests : IdOf(t) = id THEN "expanded_to_planned_tests"
  ELSE "rejected_not_applicable"

\* set_requested_test_outcome for the next requested id, in a fixed order.
SetOutcome(r) ==
  /\ task[r] \in {"outcomes", "bigOutcomes"} /\ todo[r] # {}
  /\ LET id == CHOOSE i \in todo[r] : TRUE
     IN  /\ outcome' = [outcome EXCEPT ![r][id] = OutcomeOf(id, plan[r])]
         /\ todo' = [todo EXCEPT ![r] = todo[r] \ {id}]
  /\ UNCHANGED <<runState, submittedAt, facts, dead, planned, results, reportRow, reportFile,
                 serverVars, worker, task, plan, test, bounds>>

\* The transaction of insert_planned_tests.
InsertPlanned(r) ==
  /\ task[r] = "outcomes" /\ todo[r] = {}
  /\ planned' = [planned EXCEPT ![r] =
                   [t \in Tests |-> IF t \in plan[r] THEN "queued" ELSE planned[r][t]]]
  /\ task' = [task EXCEPT ![r] = "planned"]
  /\ UNCHANGED <<runState, submittedAt, outcome, facts, dead, results, reportRow, reportFile,
                 serverVars, worker, plan, todo, test, bounds>>

\* Mutant: no test is deferred.
AllTests(r) == plan[r]

MainTests(r) == {t \in plan[r] : ~IsLate(t)}
LateTests(r) == {t \in plan[r] : IsLate(t)}

\* execute_planned_tests_phase spawns a task per test.  A spawn loop cut short
\* by the shutdown flag is a test that is spawned and finds the flag up.
Spawn(r, tests) ==
  test' = [test EXCEPT ![r] = [t \in Tests |-> IF t \in tests THEN "spawned" ELSE "idle"]]

\* The main phase, when it has tests; only then does the run become running.
StartMain(r) ==
  /\ task[r] = "planned" /\ ~shutdown
  /\ \/ /\ MainTests(r) # {}
        /\ runState' = [runState EXCEPT ![r] = "running"]
        /\ Spawn(r, MainTests(r))
        /\ task' = [task EXCEPT ![r] = "main"]
     \/ /\ MainTests(r) = {}
        /\ task' = [task EXCEPT ![r] = "mainDone"]
        /\ UNCHANGED <<runState, test>>
  /\ UNCHANGED <<submittedAt, outcome, facts, dead, planned, results, reportRow, reportFile,
                 serverVars, worker, plan, todo, bounds>>

StartLate(r) ==
  /\ task[r] = "mainDone" /\ ~shutdown
  /\ \/ /\ LateTests(r) # {}
        /\ Spawn(r, LateTests(r))
        /\ task' = [task EXCEPT ![r] = "late"]
     \/ /\ LateTests(r) = {}
        /\ task' = [task EXCEPT ![r] = "lateDone"]
        /\ UNCHANGED test
  /\ UNCHANGED <<rows, reportFile, serverVars, worker, plan, todo, bounds>>

\* The join loop of a phase ends when every spawned test task has returned.
PhaseDone(r) ==
  /\ task[r] \in {"main", "late"}
  /\ \A t \in Tests : test[r][t] = "idle"
  /\ task' = [task EXCEPT ![r] = IF task[r] = "main" THEN "mainDone" ELSE "lateDone"]
  /\ UNCHANGED <<rows, reportFile, serverVars, worker, plan, todo, test, bounds>>

\* Mutant: no check of the flag after the last phase.
ReadyUnchecked(r) ==
  \/ task[r] = "lateDone"
  \/ task[r] = "bigOutcomes" /\ todo[r] = {}

\* After the last check of the flag, or after a too big target.
ReadyToAggregate(r) ==
  \/ task[r] = "lateDone" /\ ~shutdown
  \/ task[r] = "bigOutcomes" /\ todo[r] = {}

\* set_run_state(Aggregating).
StartAggregating(r) ==
  /\ ReadyToAggregate(r)
  /\ runState' = [runState EXCEPT ![r] = "aggregating"]
  /\ task' = [task EXCEPT ![r] = "report"]
  /\ UNCHANGED <<submittedAt, outcome, facts, dead, planned, results, reportRow, reportFile,
                 serverVars, worker, plan, todo, test, bounds>>

\* Mutant: a report of the completed tests only.
ReportOfCompleted(r) ==
  [tests |-> {t \in Tests : planned[r][t] = "completed"}, written |-> TRUE]

ReportOf(r) == [tests |-> {t \in Tests : results[r][t] > 0}, written |-> TRUE]

\* write_report: the rows as they are now become report.json.
WriteReportFile(r) ==
  /\ task[r] = "report"
  /\ reportFile' = [reportFile EXCEPT ![r] = ReportOf(r)]
  /\ task' = [task EXCEPT ![r] = "record"]
  /\ UNCHANGED <<rows, serverVars, worker, plan, todo, test, bounds>>

\* write_report: the transaction of record_report.
RecordReport(r) ==
  /\ task[r] = "record"
  /\ reportRow' = [reportRow EXCEPT ![r] = TRUE]
  /\ task' = [task EXCEPT ![r] = "complete"]
  /\ UNCHANGED <<runState, submittedAt, outcome, facts, dead, planned, results, reportFile,
                 serverVars, worker, plan, todo, test, bounds>>

MarkCompleted(r) ==
  /\ task[r] = "complete"
  /\ runState' = [runState EXCEPT ![r] = "completed"]
  /\ TaskEnds(r)
  /\ UNCHANGED <<submittedAt, outcome, facts, dead, planned, results, reportRow, reportFile,
                 serverVars, worker, test, bounds>>

\* Mutant: test tasks that go on when their phase has failed.
DetachTests(r) == UNCHANGED test

\* The first failing step of the task itself or of one of its test tasks
\* leaves the phase; dropping the JoinSet aborts the other test tasks, of
\* which a database call already made may still take effect.
AbortTests(r) ==
  test' = [test EXCEPT ![r] =
             [t \in Tests |-> IF test[r][t] = "idle" THEN "idle" ELSE "aborted"]]

StepFails(r) ==
  /\ task[r] \in FallibleSteps
  /\ errors < MaxErrors /\ errors' = errors + 1
  /\ task' = [task EXCEPT ![r] = "fail"]
  /\ AbortTests(r)
  /\ UNCHANGED <<rows, reportFile, serverVars, worker, plan, todo, crashes, stops>>

\* The next update of runs.state by the task sets this state.
NextStates(r) ==
  {s \in ActiveStates \union {"completed"} :
     \/ s = "planning" /\ task[r] = "discovered" /\ ~shutdown
     \/ s = "running" /\ task[r] = "planned" /\ ~shutdown /\ MainTests(r) # {}
     \/ s = "aggregating" /\ ReadyToAggregate(r)
     \/ s = "completed" /\ task[r] = "complete"}

StateLands(r) ==
  /\ \E s \in NextStates(r) : runState' = [runState EXCEPT ![r] = s]
  /\ UNCHANGED <<outcome, facts, dead, planned, reportRow, reportFile>>

DiscoveryLands(r) ==
  /\ task[r] = "discover" /\ ~facts[r]
  /\ \E hosts \in SUBSET Hosts : dead' = [dead EXCEPT ![r] = hosts]
  /\ facts' = [facts EXCEPT ![r] = TRUE]
  /\ UNCHANGED <<runState, outcome, planned, reportRow, reportFile>>

OutcomeLands(r) ==
  /\ task[r] \in {"outcomes", "bigOutcomes"} /\ todo[r] # {}
  /\ LET id == CHOOSE i \in todo[r] : TRUE
     IN  outcome' = [outcome EXCEPT ![r][id] = OutcomeOf(id, plan[r])]
  /\ UNCHANGED <<runState, facts, dead, planned, reportRow, reportFile>>

PlannedLands(r) ==
  /\ task[r] = "outcomes" /\ todo[r] = {}
  /\ planned' = [planned EXCEPT ![r] =
                   [t \in Tests |-> IF t \in plan[r] THEN "queued" ELSE planned[r][t]]]
  /\ UNCHANGED <<runState, outcome, facts, dead, reportRow, reportFile>>

ReportLands(r) ==
  /\ \/ /\ task[r] = "report"
        /\ reportFile' = [reportFile EXCEPT ![r] = ReportOf(r)]
        /\ UNCHANGED reportRow
     \/ /\ task[r] = "record"
        /\ reportRow' = [reportRow EXCEPT ![r] = TRUE]
        /\ UNCHANGED reportFile
  /\ UNCHANGED <<runState, outcome, facts, dead, planned>>

\* The failing step took effect and its reply is lost: the task goes to its
\* error handling all the same, that of the completion with a completed run.
\* The statements of the tests of a phase land by AbortedTestLands.
ReplyLost(r) ==
  /\ errors < MaxErrors /\ errors' = errors + 1
  /\ \/ StateLands(r)
     \/ DiscoveryLands(r)
     \/ OutcomeLands(r)
     \/ PlannedLands(r)
     \/ ReportLands(r)
  /\ task' = [task EXCEPT ![r] = "fail"]
  /\ UNCHANGED <<submittedAt, results, serverVars, worker, plan, todo, test, crashes, stops>>

\* mark_run_failed overwrites whatever state the row has.
MarkFailed(r) ==
  /\ task[r] = "fail"
  /\ runState' = [runState EXCEPT ![r] = "failed"]
  /\ TaskEnds(r)
  /\ UNCHANGED <<submittedAt, outcome, facts, dead, planned, results, reportRow, reportFile,
                 serverVars, worker, test, bounds>>

\* mark_run_failed fails too: the run keeps its state and has no task.
MarkFailedFails(r) ==
  /\ task[r] = "fail"
  /\ errors < MaxErrors /\ errors' = errors + 1
  /\ TaskEnds(r)
  /\ UNCHANGED <<rows, reportFile, serverVars, worker, test, crashes, stops>>

-----------------------------------------------------------------------------
\* execute_one_planned_test: the task of one planned test of a run.

InPhase(r) == task[r] \in {"main", "late"}

\* The check after the permits are acquired: the test is not started.
TestSkipped(r, t) ==
  /\ InPhase(r) /\ test[r][t] = "spawned" /\ shutdown
  /\ test' = [test EXCEPT ![r][t] = "idle"]
  /\ UNCHANGED <<rows, reportFile, serverVars, worker, task, plan, todo, bounds>>

\* mark_planned_test_running.
MarkTestRunning(r, t) ==
  /\ InPhase(r) /\ test[r][t] = "spawned" /\ ~shutdown
  /\ planned' = [planned EXCEPT ![r][t] = "running"]
  /\ test' = [test EXCEPT ![r][t] = "executing"]
  /\ UNCHANGED <<runState, submittedAt, outcome, facts, dead, results, reportRow, reportFile,
                 serverVars, worker, task, plan, todo, bounds>>

\* A test on a dead host is skipped unless it bypasses dead hosts; any other
\* one completes, or does not start when its plugin is missing or not spawned.
FinalStates(r, t) ==
  IF HostOf(t) \in dead[r] /\ IdOf(t) \notin BypassIds
  THEN {"skipped_dead_host"}
  ELSE {"completed", "failed_to_start"}

\* The transaction of record_result.
RecordRows(r, t) ==
  /\ \E final \in FinalStates(r, t) : planned' = [planned EXCEPT ![r][t] = final]
  /\ results' = [results EXCEPT ![r][t] = results[r][t] + 1]

RecordResult(r, t) ==
  /\ InPhase(r) /\ test[r][t] = "executing"
  /\ RecordRows(r, t)
  /\ test' = [test EXCEPT ![r][t] = "idle"]
  /\ UNCHANGED <<runState, submittedAt, outcome, facts, dead, reportRow, reportFile,
                 serverVars, worker, task, plan, todo, bounds>>

\* The database call an aborted test task had made takes effect after all.
AbortedTestLands(r, t) ==
  /\ test[r][t] = "aborted"
  /\ test' = [test EXCEPT ![r][t] = "idle"]
  /\ \/ /\ planned[r][t] = "queued"
        /\ planned' = [planned EXCEPT ![r][t] = "running"]
        /\ UNCHANGED results
     \/ /\ planned[r][t] = "running"
        /\ RecordRows(r, t)
  /\ UNCHANGED <<runState, submittedAt, outcome, facts, dead, reportRow, reportFile,
                 serverVars, worker, task, plan, todo, bounds>>

-----------------------------------------------------------------------------
ServerNext ==
  \/ ServerStart
  \/ \E r \in Runs : RecoverRun(r)
  \/ RecoverFails
  \/ ServerReady
  \/ \E r \in Runs : SubmitRun(r)
  \/ CtrlC
  \/ ServerStop
  \/ WorkerCrash
  \/ Crash

LoopNext ==
  \/ \E r \in Runs : ClaimRun(r)
  \/ \E r \in Runs : ClaimLoadFails(r)
  \/ ClaimPollFails
  \/ ClaimEnds
  \/ PollAgain
  \/ \E r \in Runs : JoinRun(r)
  \/ WorkerExit

\* The steps of a task that only its own scheduling delays.
TaskStep(r) ==
  \/ Prepare(r)
  \/ InsertDiscovery(r)
  \/ Leave(r)
  \/ TooBig(r)
  \/ StartPlanning(r)
  \/ SetOutcome(r)
  \/ InsertPlanned(r)
  \/ StartMain(r)
  \/ StartLate(r)
  \/ PhaseDone(r)
  \/ StartAggregating(r)
  \/ WriteReportFile(r)
  \/ RecordReport(r)
  \/ MarkCompleted(r)
  \/ MarkFailed(r)

TaskFailure(r) ==
  \/ PrepareFails(r)
  \/ StepFails(r)
  \/ ReplyLost(r)
  \/ MarkFailedFails(r)

TestStep(r, t) ==
  \/ TestSkipped(r, t)
  \/ MarkTestRunning(r, t)
  \/ RecordResult(r, t)

Next ==
  \/ ServerNext
  \/ LoopNext
  \/ \E r \in Runs : TaskStep(r) \/ TaskFailure(r)
  \/ \E r \in Runs, t \in Tests : TestStep(r, t) \/ AbortedTestLands(r, t)

Spec == Init /\ [][Next]_vars

\* The runtime polls the loop, the tasks and the test tasks as long as the
\* worker process lives; plugins end by their timeout.  Nothing is assumed of
\* clients, operators, failures or crashes.
Fairness ==
  /\ WF_vars(LoopNext)
  /\ \A r \in Runs : WF_vars(TaskStep(r))
  /\ \A r \in Runs, t \in Tests : WF_vars(TestStep(r, t))

FairSpec == Spec /\ Fairness

-----------------------------------------------------------------------------
\* The variables have their types.
TypeOK ==
  /\ runState \in [Runs -> RunStates]
  /\ submittedAt \in [Runs -> Nat]
  /\ outcome \in [Runs -> [Ids -> Outcomes]]
  /\ facts \in [Runs -> BOOLEAN]
  /\ dead \in [Runs -> SUBSET Hosts]
  /\ planned \in [Runs -> [Tests -> PlannedStates]]
  /\ results \in [Runs -> [Tests -> Nat]]
  /\ reportRow \in [Runs -> BOOLEAN]
  /\ reportFile \in [Runs -> Reports]
  /\ server \in ServerStates
  /\ recovering \in SUBSET Runs
  /\ clock \in Nat
  /\ loop \in LoopStates
  /\ shutdown \in BOOLEAN
  /\ accepting \in BOOLEAN
  /\ activeCount \in Nat
  /\ task \in [Runs -> TaskStates]
  /\ plan \in [Runs -> SUBSET Tests]
  /\ todo \in [Runs -> SUBSET Ids]
  /\ test \in [Runs -> [Tests -> TestStates]]
  /\ errors \in Nat
  /\ crashes \in Nat
  /\ stops \in Nat

Settled(r) == runState[r] \in {"completed", "failed"}
HasTask(r) == task[r] \notin {"none", "ended"}

\* A run that is aggregating or completed has a terminal state and exactly one
\* result for every planned test: no shutdown, phase boundary, crash or
\* recovery lets a run be aggregated over missing or doubled results.
AggregatedRunsAreWhole ==
  \A r \in Runs : runState[r] \in {"aggregating", "completed"} =>
    \A t \in Tests : \/ planned[r][t] = "absent" /\ results[r][t] = 0
                     \/ planned[r][t] \in TerminalStates /\ results[r][t] = 1

\* A completed run has its row in reports, and report.json holds exactly the
\* results of the run's rows, never those of a try before a crash.
CompletedRunsAreReported ==
  \A r \in Runs : runState[r] = "completed" =>
    /\ reportRow[r]
    /\ reportFile[r] = [tests |-> {t \in Tests : results[r][t] > 0}, written |-> TRUE]

\* A queued run has nothing of an earlier try in the database, so the next
\* try starts like the first ("partial database rows for those runs are
\* cleared before retry", implementation_choices.md:28).
QueuedRunsAreClean ==
  \A r \in Runs : runState[r] \in {"absent", "queued"} =>
    /\ ~facts[r] /\ dead[r] = {} /\ ~reportRow[r]
    /\ \A t \in Tests : planned[r][t] = "absent" /\ results[r][t] = 0
    /\ \A i \in Ids : outcome[r][i] = "accepted"

\* The outcome of every requested id agrees with the planned tests of a run
\* that is past planning: expanded exactly when a test of that id was planned.
OutcomesMatchPlan ==
  \A r \in Runs : runState[r] \in {"running", "aggregating", "completed"} =>
    \A i \in Ids :
      /\ outcome[r][i] = "accepted" <=> i \in Probes
      /\ outcome[r][i] = "expanded_to_planned_tests" <=>
           \E t \in Tests : IdOf(t) = i /\ planned[r][t] # "absent"

\* A late test is not started before every main test of its run has a result.
LateTestsWaitForMain ==
  \A r \in Runs : (\E t \in Tests : IsLate(t) /\ planned[r][t] \notin {"absent", "queued"}) =>
    \A t \in Tests : ~IsLate(t) => planned[r][t] \in {"absent"} \union TerminalStates

\* A task works only on a run the database shows as active, but for the one
\* that completed its run without learning of it; and none is at work while
\* the recovery of a starting server re-queues runs.
TasksOwnActiveRuns ==
  /\ \A r \in Runs : HasTask(r) =>
       runState[r] \in ActiveStates \/ (task[r] = "fail" /\ runState[r] = "completed")
  /\ server \in {"down", "recovering"} => \A r \in Runs : ~HasTask(r)

\* A shutdown request fails no run: only an error does.
OnlyErrorsFailRuns ==
  \A r \in Runs : runState[r] = "failed" => errors > 0

\* Nothing of a completed run is ever changed again: neither a restart's
\* recovery nor a straggling task touches its rows or its report.  Only the
\* task that completed it, when it lost the reply, may still fail the run,
\* and leaves it everything else.
CompletedIsFinal ==
  [][\A r \in Runs : runState[r] = "completed" =>
       /\ runState'[r] = "completed" \/ (task[r] = "fail" /\ runState'[r] = "failed")
       /\ planned'[r] = planned[r] /\ results'[r] = results[r]
       /\ outcome'[r] = outcome[r] /\ dead'[r] = dead[r]
       /\ reportRow'[r] = reportRow[r] /\ reportFile'[r] = reportFile[r]]_vars

\* The service seen as a queue of runs: a run is owned while it has a task.
StatusOf(r) == IF runState[r] \in ActiveStates THEN "active" ELSE runState[r]
status == [r \in Runs |-> StatusOf(r)]
owned == {r \in Runs : HasTask(r)}

Queue == INSTANCE RunQueue WITH Runs <- Runs, status <- status, owned <- owned

\* The service keeps the promises of RunQueue: no run is re-queued under a
\* working task or finished by anyone but the task that claimed it, across
\* crashes, restarts and shutdowns.
ImplementsRunQueue == Queue!Spec

\* An active run that no task has: only a restart can bring it back.
Stranded(r) == runState[r] \in ActiveStates /\ ~HasTask(r)

\* A submitted run is completed or failed in the end, unless the service is
\* stopped or its worker dies.  One error strands a run only when it is met
\* before the error handling of process_run covers the run, that is while it
\* is discovering; later it takes a second error, of mark_run_failed.
SubmittedRunsSettle ==
  \A r \in Runs :
    (server = "up" /\ runState[r] = "queued") ~>
      \/ Settled(r)
      \/ server # "up" \/ loop = "down"
      \/ Stranded(r) /\ (errors > 1 \/ (errors = 1 /\ runState[r] = "discovering"))

\* A worker that was asked to shut down drains and exits.
ShutdownDrains == shutdown ~> (loop = "down")
=============================================================================
