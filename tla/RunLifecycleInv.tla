-------------------------- MODULE RunLifecycleInv ---------------------------
(***************************************************************************)
(* The inductive invariant behind the safety properties of RunLifecycle:   *)
(* what the rows of a run look like at each control point of its task.     *)
(***************************************************************************)
EXTENDS RunLifecycle

Fresh(r, t) == planned[r][t] = "absent" /\ results[r][t] = 0
Waiting(r, t) == planned[r][t] = "queued" /\ results[r][t] = 0
Recorded(r, t) == planned[r][t] \in TerminalStates /\ results[r][t] = 1

\* A test of a phase that is over, or that is being executed.
Over(r, t) == Recorded(r, t) \/ (shutdown /\ Waiting(r, t))
InFlight(r, t) ==
  \/ test[r][t] = "spawned" /\ Waiting(r, t)
  \/ test[r][t] = "executing" /\ planned[r][t] = "running" /\ results[r][t] = 0
  \/ test[r][t] = "idle" /\ Over(r, t)

\* The rows of planned test t while the task of run r is at its control point.
TestRowInv(r, t) ==
  /\ task[r] \in {"prepare", "discover", "discovered", "bigOutcomes", "outcomes"} => Fresh(r, t)
  /\ HasTask(r) /\ task[r] # "fail" /\ t \notin plan[r] => Fresh(r, t) /\ test[r][t] = "idle"
  /\ t \in plan[r] =>
       /\ task[r] = "planned" => Waiting(r, t)
       /\ task[r] = "main" =>
            IF IsLate(t) THEN Waiting(r, t) /\ test[r][t] = "idle" ELSE InFlight(r, t)
       /\ task[r] = "mainDone" => IF IsLate(t) THEN Waiting(r, t) ELSE Over(r, t)
       /\ task[r] = "late" =>
            IF IsLate(t) THEN InFlight(r, t) ELSE Recorded(r, t) /\ test[r][t] = "idle"
       /\ task[r] = "lateDone" => Over(r, t)
       /\ task[r] \in {"report", "record", "complete"} => Recorded(r, t)

MainTestsOver(r) == \A t \in Tests : ~IsLate(t) => planned[r][t] \in {"absent"} \union TerminalStates

\* A test task exists in a phase of its run, or it was aborted with it.
TestTaskInv(r, t) ==
  /\ test[r][t] \in {"spawned", "executing"} => InPhase(r)
  /\ test[r][t] = "aborted" =>
       /\ task[r] \in {"fail", "ended", "none"}
       /\ runState[r] \in {"planning", "running", "failed"}
       /\ planned[r][t] \in {"queued", "running"} /\ results[r][t] = 0
       /\ IsLate(t) => MainTestsOver(r)

\* runs.state at each control point of the run's task.
StateInv(r) ==
  /\ task[r] \in {"prepare", "discover", "discovered", "bigOutcomes"} =>
       runState[r] = "discovering"
  /\ task[r] \in {"none", "ended", "prepare", "discover", "discovered", "bigOutcomes"} =>
       plan[r] = {}
  /\ task[r] \in {"outcomes", "planned"} => runState[r] = "planning"
  /\ task[r] = "main" => runState[r] = "running"
  /\ task[r] \in {"mainDone", "late", "lateDone"} => runState[r] \in {"planning", "running"}
  /\ task[r] \in {"report", "record", "complete"} => runState[r] = "aggregating"
  /\ task[r] = "fail" => runState[r] \in ActiveStates \union {"completed"}

\* The rows and the report of a run, by runs.state.
RunWhole(r) ==
  runState[r] \in {"aggregating", "completed"} => \A t \in Tests : Fresh(r, t) \/ Recorded(r, t)
RunReported(r) ==
  LET held == [tests |-> {t \in Tests : results[r][t] > 0}, written |-> TRUE]
  IN  /\ task[r] \in {"record", "complete"} \/ runState[r] = "completed" => reportFile[r] = held
      /\ task[r] = "complete" \/ runState[r] = "completed" => reportRow[r]
RunClean(r) ==
  /\ runState[r] \in {"absent", "queued"} =>
       /\ ~facts[r] /\ dead[r] = {} /\ ~reportRow[r]
       /\ \A t \in Tests : Fresh(r, t)
       /\ \A i \in Ids : outcome[r][i] = "accepted"
RunLateWaits(r) ==
  (\E t \in Tests : IsLate(t) /\ planned[r][t] \notin {"absent", "queued"}) => MainTestsOver(r)

RunInv(r) ==
  /\ StateInv(r)
  /\ \A t \in Tests : TestRowInv(r, t) /\ TestTaskInv(r, t)
  /\ RunWhole(r) /\ RunReported(r) /\ RunClean(r) /\ RunLateWaits(r)

\* Which process is up, and where recovery stands.
ProcessInv ==
  /\ server \in {"down", "recovering"} => loop = "down"
  /\ loop = "down" =>
       ~shutdown /\ \A r \in Runs : task[r] = "none" /\ \A t \in Tests : test[r][t] = "idle"
  /\ server # "recovering" => recovering = {}
  /\ \A r \in recovering : runState[r] \in ActiveStates

RowsInv == TypeOK /\ ProcessInv /\ \A r \in Runs : RunInv(r)

\* The outcome of every requested id, from the first that planning sets: those
\* the task has still to set are in todo.
RequestsInv(r) ==
  /\ task[r] \in {"outcomes", "bigOutcomes"} =>
       \A i \in Ids \ todo[r] : outcome[r][i] = OutcomeOf(i, plan[r])
  /\ task[r] \in {"planned", "main", "mainDone", "late", "lateDone", "report", "record", "complete"} =>
       \A i \in Ids : outcome[r][i] = OutcomeOf(i, plan[r])
  /\ runState[r] \in {"running", "aggregating", "completed"} =>
       \A i \in Ids :
         outcome[r][i] = OutcomeOf(i, {t \in Tests : planned[r][t] # "absent"})

\* A run that goes to its error handling met an error: discovery always finds
\* the tables it fills empty.
ErrorsInv(r) ==
  /\ task[r] \in {"prepare", "discover"} => ~facts[r]
  /\ task[r] = "fail" \/ runState[r] = "failed" => errors > 0

IInv == RowsInv /\ \A r \in Runs : RequestsInv(r) /\ ErrorsInv(r)
=============================================================================
