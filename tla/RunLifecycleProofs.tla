------------------------ MODULE RunLifecycleProofs -------------------------
(***************************************************************************)
(* Proofs about RunLifecycle for every set of runs, ids and hosts and      *)
(* every bound: type correctness, the inductive invariant RowsInv, and the    *)
(* safety properties it implies.                                           *)
(***************************************************************************)
EXTENDS RunLifecycleInv, TLAPS

-----------------------------------------------------------------------------
(* Type correctness                                                        *)

\* Spawning the tests of a phase leaves every test task with its type.
LEMMA SpawnType ==
  ASSUME TypeOK, NEW r \in Runs, NEW S, Spawn(r, S)
  PROVE  test' \in [Runs -> [Tests -> TestStates]]
<1>1. [t \in Tests |-> IF t \in S THEN "spawned" ELSE "idle"] \in [Tests -> TestStates]
  BY DEF TestStates
<1>2. QED
  BY <1>1 DEF TypeOK, Spawn

\* The transaction of record_result keeps the types of the two tables it writes.
LEMMA RecordRowsType ==
  ASSUME TypeOK, NEW r \in Runs, NEW t \in Tests, RecordRows(r, t)
  PROVE  /\ planned' \in [Runs -> [Tests -> PlannedStates]]
         /\ results' \in [Runs -> [Tests -> Nat]]
<1>1. PICK final \in FinalStates(r, t) : planned' = [planned EXCEPT ![r][t] = final]
  BY DEF RecordRows
<1>2. final \in PlannedStates
  BY <1>1 DEF FinalStates, PlannedStates, TerminalStates
<1>3. planned' \in [Runs -> [Tests -> PlannedStates]]
  BY <1>1, <1>2 DEF TypeOK
<1>4. results' \in [Runs -> [Tests -> Nat]]
  BY DEF TypeOK, RecordRows
<1>5. QED
  BY <1>3, <1>4

\* What is left of a worker process that is gone has its type.
LEMMA WorkerGoneType ==
  ASSUME WorkerGone
  PROVE  /\ loop' \in LoopStates /\ activeCount' \in Nat
         /\ shutdown' \in BOOLEAN /\ accepting' \in BOOLEAN
         /\ task' \in [Runs -> TaskStates] /\ plan' \in [Runs -> SUBSET Tests]
         /\ todo' \in [Runs -> SUBSET Ids] /\ test' \in [Runs -> [Tests -> TestStates]]
<1> USE DEF WorkerGone
<1>1. shutdown' \in BOOLEAN /\ accepting' \in BOOLEAN
  OBVIOUS
<1>2. loop' \in LoopStates /\ activeCount' \in Nat
  BY DEF LoopStates
<1>3. task' \in [Runs -> TaskStates]
  BY DEF TaskStates
<1>4. plan' \in [Runs -> SUBSET Tests] /\ todo' \in [Runs -> SUBSET Ids]
  OBVIOUS
<1>5. test' \in [Runs -> [Tests -> TestStates]]
  BY DEF TestStates
<1>6. QED
  BY <1>1, <1>2, <1>3, <1>4, <1>5

\* The server's steps keep the types.
LEMMA ServerTypes ==
  ASSUME TypeOK, ServerNext
  PROVE  TypeOK'
<1>1. CASE ServerStart
  BY <1>1 DEF TypeOK, ServerStart, Incomplete, ServerStates, rows, tasks, worker,
      bounds
<1>2. ASSUME NEW r \in Runs, RecoverRun(r) PROVE TypeOK'
  BY <1>2 DEF TypeOK, RecoverRun, DeleteDiscovery, RunStates, ActiveStates, Outcomes,
      PlannedStates, TerminalStates, tasks, worker, bounds
<1>3. CASE RecoverFails
  BY <1>3 DEF TypeOK, RecoverFails, ServerStates, rows, tasks, worker
<1>4. CASE ServerReady
  <2>1. server' \in ServerStates /\ loop' \in LoopStates /\ activeCount' \in Nat
    BY <1>4 DEF ServerReady, ServerStates, LoopStates
  <2>2. shutdown' \in BOOLEAN /\ accepting' \in BOOLEAN
    BY <1>4 DEF ServerReady
  <2>3. QED
    BY <1>4, <2>1, <2>2 DEF TypeOK, ServerReady, rows, tasks, bounds
<1>5. ASSUME NEW r \in Runs, SubmitRun(r) PROVE TypeOK'
  BY <1>5 DEF TypeOK, SubmitRun, RunStates, ActiveStates, tasks, worker, bounds
<1>6. CASE CtrlC
  BY <1>6 DEF TypeOK, CtrlC, ServerStates, rows, tasks
<1>7. CASE ServerStop
  BY <1>7 DEF TypeOK, ServerStop, ServerStates, rows, tasks, worker, bounds
<1>8. CASE WorkerCrash
  BY <1>8, WorkerGoneType DEF TypeOK, WorkerCrash, rows, serverVars
<1>9. CASE Crash
  BY <1>9, WorkerGoneType DEF TypeOK, Crash, ServerStates, rows
<1>10. QED
  BY <1>1, <1>2, <1>3, <1>4, <1>5, <1>6, <1>7, <1>8, <1>9 DEF ServerNext

\* The run loop's steps keep the types.
LEMMA LoopTypes ==
  ASSUME TypeOK, LoopNext
  PROVE  TypeOK'
<1>1. ASSUME NEW r \in Runs, ClaimRun(r) PROVE TypeOK'
  BY <1>1 DEF TypeOK, ClaimRun, TaskStates, FallibleSteps, RunStates, ActiveStates,
      serverVars, bounds
<1>2. ASSUME NEW r \in Runs, ClaimLoadFails(r) PROVE TypeOK'
  BY <1>2 DEF TypeOK, ClaimLoadFails, LoopStates, RunStates, ActiveStates, tasks,
      serverVars
<1>3. CASE ClaimPollFails
  BY <1>3 DEF TypeOK, ClaimPollFails, LoopStates, rows, tasks, serverVars
<1>4. CASE ClaimEnds
  BY <1>4 DEF TypeOK, ClaimEnds, LoopStates, rows, tasks, serverVars, bounds
<1>5. CASE PollAgain
  BY <1>5 DEF TypeOK, PollAgain, StillAccepting, LoopStates, rows, tasks, serverVars,
      bounds
<1>6. ASSUME NEW r \in Runs, JoinRun(r) PROVE TypeOK'
  BY <1>6 DEF TypeOK, JoinRun, StillAccepting, LoopStates, TaskStates, FallibleSteps,
      rows, serverVars, bounds
<1>7. CASE WorkerExit
  BY <1>7, WorkerGoneType DEF TypeOK, WorkerExit, rows, serverVars, bounds
<1>8. QED
  BY <1>1, <1>2, <1>3, <1>4, <1>5, <1>6, <1>7 DEF LoopNext

\* A step of a run's task whose reply is lost keeps the types.
LEMMA ReplyLostTypes ==
  ASSUME TypeOK, NEW r \in Runs, ReplyLost(r)
  PROVE  TypeOK'
<1>1. task' \in [Runs -> TaskStates] /\ errors' \in Nat
  BY DEF TypeOK, ReplyLost, TaskStates
<1>2. /\ runState' \in [Runs -> RunStates] /\ outcome' \in [Runs -> [Ids -> Outcomes]]
      /\ facts' \in [Runs -> BOOLEAN] /\ dead' \in [Runs -> SUBSET Hosts]
      /\ planned' \in [Runs -> [Tests -> PlannedStates]]
      /\ reportRow' \in [Runs -> BOOLEAN] /\ reportFile' \in [Runs -> Reports]
  <2>1. CASE StateLands(r)
    BY <2>1 DEF TypeOK, StateLands, NextStates, RunStates
  <2>2. CASE DiscoveryLands(r)
    BY <2>2 DEF TypeOK, DiscoveryLands
  <2>3. CASE OutcomeLands(r)
    BY <2>3 DEF TypeOK, OutcomeLands, OutcomeOf, Outcomes
  <2>4. CASE PlannedLands(r)
    BY <2>4 DEF TypeOK, PlannedLands, PlannedStates
  <2>5. CASE ReportLands(r)
    <3>1. ReportOf(r) \in Reports
      BY DEF ReportOf, Reports
    <3>2. /\ reportFile' = [reportFile EXCEPT ![r] = ReportOf(r)] \/ reportFile' = reportFile
          /\ reportRow' = [reportRow EXCEPT ![r] = TRUE] \/ reportRow' = reportRow
      BY <2>5 DEF ReportLands
    <3>3. reportFile' \in [Runs -> Reports]
      BY <3>1, <3>2 DEF TypeOK
    <3>4. reportRow' \in [Runs -> BOOLEAN]
      BY <3>2 DEF TypeOK
    <3>5. QED
      BY <2>5, <3>3, <3>4 DEF TypeOK, ReportLands
  <2>6. QED
    BY <2>1, <2>2, <2>3, <2>4, <2>5 DEF ReplyLost
<1>3. QED
  BY <1>1, <1>2 DEF TypeOK, ReplyLost, serverVars, worker

\* The steps of a run's task keep the types.
LEMMA TaskTypes ==
  ASSUME TypeOK, NEW r \in Runs, TaskStep(r) \/ TaskFailure(r)
  PROVE  TypeOK'
<1>1. CASE Prepare(r)
  BY <1>1 DEF TypeOK, Prepare, TaskStates, FallibleSteps, Reports, NoReport, rows,
      worker, serverVars, bounds
<1>2. CASE InsertDiscovery(r)
  <2>1. dead' \in [Runs -> SUBSET Hosts]
    BY <1>2 DEF TypeOK, InsertDiscovery
  <2>2. facts' \in [Runs -> BOOLEAN]
    BY <1>2 DEF TypeOK, InsertDiscovery
  <2>3. task' \in [Runs -> TaskStates]
    BY <1>2 DEF TypeOK, InsertDiscovery, TaskStates, FallibleSteps
  <2>4. QED
    BY <1>2, <2>1, <2>2, <2>3 DEF TypeOK, InsertDiscovery, serverVars, worker, bounds
<1>3. CASE Leave(r)
  BY <1>3 DEF TypeOK, Leave, TaskEnds, TaskStates, FallibleSteps, rows, worker,
      serverVars, bounds
<1>4. CASE TooBig(r)
  BY <1>4 DEF TypeOK, TooBig, TaskStates, FallibleSteps, rows, worker, serverVars,
      bounds
<1>5. CASE StartPlanning(r)
  BY <1>5 DEF TypeOK, StartPlanning, TaskStates, FallibleSteps, RunStates,
      ActiveStates, worker, serverVars, bounds
<1>6. CASE SetOutcome(r)
  BY <1>6 DEF TypeOK, SetOutcome, OutcomeOf, Outcomes, worker, serverVars, bounds
<1>7. CASE InsertPlanned(r)
  BY <1>7 DEF TypeOK, InsertPlanned, TaskStates, FallibleSteps, PlannedStates,
      TerminalStates, worker, serverVars, bounds
<1>8. CASE StartMain(r)
  <2>1. runState' \in [Runs -> RunStates]
    BY <1>8 DEF TypeOK, StartMain, RunStates, ActiveStates
  <2>2. task' \in [Runs -> TaskStates]
    BY <1>8 DEF TypeOK, StartMain, TaskStates, FallibleSteps
  <2>3. test' \in [Runs -> [Tests -> TestStates]]
    BY <1>8, SpawnType DEF TypeOK, StartMain
  <2>4. QED
    BY <1>8, <2>1, <2>2, <2>3 DEF TypeOK, StartMain, serverVars, worker, bounds
<1>9. CASE StartLate(r)
  <2>1. task' \in [Runs -> TaskStates]
    BY <1>9 DEF TypeOK, StartLate, TaskStates, FallibleSteps
  <2>2. test' \in [Runs -> [Tests -> TestStates]]
    BY <1>9, SpawnType DEF TypeOK, StartLate
  <2>3. QED
    BY <1>9, <2>1, <2>2 DEF TypeOK, StartLate, rows, serverVars, worker, bounds
<1>10. CASE PhaseDone(r)
  BY <1>10 DEF TypeOK, PhaseDone, TaskStates, FallibleSteps, rows, worker, serverVars,
      bounds
<1>11. CASE StartAggregating(r)
  BY <1>11 DEF TypeOK, StartAggregating, ReadyToAggregate, TaskStates, FallibleSteps,
      RunStates, ActiveStates, worker, serverVars, bounds
<1>12. CASE WriteReportFile(r)
  BY <1>12 DEF TypeOK, WriteReportFile, ReportOf, TaskStates, FallibleSteps, Reports,
      NoReport, rows, worker, serverVars, bounds
<1>13. CASE RecordReport(r)
  BY <1>13 DEF TypeOK, RecordReport, TaskStates, FallibleSteps, worker, serverVars,
      bounds
<1>14. CASE MarkCompleted(r)
  BY <1>14 DEF TypeOK, MarkCompleted, TaskEnds, TaskStates, FallibleSteps, RunStates,
      ActiveStates, worker, serverVars, bounds
<1>15. CASE MarkFailed(r)
  BY <1>15 DEF TypeOK, MarkFailed, TaskEnds, TaskStates, FallibleSteps, RunStates,
      ActiveStates, worker, serverVars, bounds
<1>16. CASE PrepareFails(r)
  <2>1. reportFile' \in [Runs -> Reports]
    <3>1. NoReport \in Reports
      BY DEF Reports, NoReport
    <3>2. QED
      BY <1>16, <3>1 DEF TypeOK, PrepareFails
  <2>2. task' \in [Runs -> TaskStates]
    BY <1>16 DEF TypeOK, PrepareFails, TaskEnds, TaskStates
  <2>3. QED
    BY <1>16, <2>1, <2>2 DEF TypeOK, PrepareFails, TaskEnds, rows, worker, serverVars
<1>17. CASE StepFails(r)
  BY <1>17 DEF TypeOK, StepFails, AbortTests, TaskStates, FallibleSteps, TestStates,
      rows, worker, serverVars
<1>18. CASE MarkFailedFails(r)
  BY <1>18 DEF TypeOK, MarkFailedFails, TaskEnds, TaskStates, FallibleSteps, rows,
      worker, serverVars
<1>19. CASE ReplyLost(r)
  BY <1>19, ReplyLostTypes
<1>20. QED
  BY <1>1, <1>2, <1>3, <1>4, <1>5, <1>6, <1>7, <1>8, <1>9, <1>10, <1>11, <1>12, <1>13,
      <1>14, <1>15, <1>16, <1>17, <1>18, <1>19 DEF TaskStep, TaskFailure

\* The steps of a test task keep the types.
LEMMA TestTypes ==
  ASSUME TypeOK, NEW r \in Runs, NEW t \in Tests, TestStep(r, t)
  PROVE  TypeOK'
<1>1. CASE TestSkipped(r, t)
  BY <1>1 DEF TypeOK, TestSkipped, TestStates, rows, worker, serverVars, bounds
<1>2. CASE MarkTestRunning(r, t)
  BY <1>2 DEF TypeOK, MarkTestRunning, PlannedStates, TerminalStates, TestStates,
      worker, serverVars, bounds
<1>3. CASE RecordResult(r, t)
  <2>1. test' \in [Runs -> [Tests -> TestStates]]
    BY <1>3 DEF TypeOK, RecordResult, TestStates
  <2>2. QED
    BY <1>3, <2>1, RecordRowsType DEF TypeOK, RecordResult, serverVars, worker, bounds
<1>4. QED
  BY <1>1, <1>2, <1>3 DEF TestStep

\* So does the late effect of an aborted test task.
LEMMA AbortedTestTypes ==
  ASSUME TypeOK, NEW r \in Runs, NEW t \in Tests, AbortedTestLands(r, t)
  PROVE  TypeOK'
<1>1. planned' \in [Runs -> [Tests -> PlannedStates]] /\ results' \in [Runs -> [Tests -> Nat]]
  <2>1. CASE RecordRows(r, t)
    BY <2>1, RecordRowsType
  <2>2. CASE planned' = [planned EXCEPT ![r][t] = "running"] /\ UNCHANGED results
    BY <2>2 DEF TypeOK, PlannedStates
  <2>3. QED
    BY <2>1, <2>2 DEF AbortedTestLands
<1>2. test' \in [Runs -> [Tests -> TestStates]]
  BY DEF TypeOK, AbortedTestLands, TestStates
<1>3. QED
  BY <1>1, <1>2 DEF TypeOK, AbortedTestLands, serverVars, worker, bounds

\* Initially the variables have their types.
LEMMA InitTypes == Init => TypeOK
<1> SUFFICES ASSUME Init PROVE TypeOK
  OBVIOUS
<1> USE DEF Init
<1>1. runState \in [Runs -> RunStates] /\ submittedAt \in [Runs -> Nat]
  BY DEF RunStates
<1>2. outcome \in [Runs -> [Ids -> Outcomes]]
  BY DEF Outcomes
<1>3. planned \in [Runs -> [Tests -> PlannedStates]] /\ results \in [Runs -> [Tests -> Nat]]
  BY DEF PlannedStates
<1>4. /\ facts \in [Runs -> BOOLEAN] /\ dead \in [Runs -> SUBSET Hosts]
      /\ reportRow \in [Runs -> BOOLEAN]
  OBVIOUS
<1>5. reportFile \in [Runs -> Reports]
  BY DEF Reports, NoReport
<1>6. server \in ServerStates /\ recovering \in SUBSET Runs /\ clock \in Nat
  BY DEF ServerStates
<1>7. loop \in LoopStates /\ activeCount \in Nat /\ shutdown \in BOOLEAN /\ accepting \in BOOLEAN
  <2>1. loop \in LoopStates /\ activeCount \in Nat
    BY DEF LoopStates
  <2>2. QED
    BY <2>1
<1>8. /\ task \in [Runs -> TaskStates] /\ plan \in [Runs -> SUBSET Tests]
      /\ todo \in [Runs -> SUBSET Ids]
  BY DEF TaskStates
<1>9. test \in [Runs -> [Tests -> TestStates]]
  BY DEF TestStates
<1>10. errors \in Nat /\ crashes \in Nat /\ stops \in Nat
  OBVIOUS
<1>11. QED
  BY <1>1, <1>2, <1>3, <1>4, <1>5, <1>6, <1>7, <1>8, <1>9, <1>10 DEF TypeOK

\* Every step keeps the types.
LEMMA NextTypes == TypeOK /\ [Next]_vars => TypeOK'
<1> SUFFICES ASSUME TypeOK, [Next]_vars PROVE TypeOK'
  OBVIOUS
<1>1. CASE UNCHANGED vars
  BY <1>1 DEF TypeOK, vars, rows, tasks, worker, serverVars, bounds
<1>2. CASE Next
  BY <1>2, ServerTypes, LoopTypes, TaskTypes, TestTypes, AbortedTestTypes DEF Next
<1>3. QED
  BY <1>1, <1>2

\* The variables always have their types.
THEOREM TypeCorrect == Spec => []TypeOK
<1>1. QED
  BY InitTypes, NextTypes, PTL DEF Spec

-----------------------------------------------------------------------------
(* A step of one run leaves the rows, the task and the tests of the others *)

SameRun(q) ==
  /\ runState'[q] = runState[q] /\ outcome'[q] = outcome[q]
  /\ facts'[q] = facts[q] /\ dead'[q] = dead[q]
  /\ planned'[q] = planned[q] /\ results'[q] = results[q]
  /\ reportRow'[q] = reportRow[q] /\ reportFile'[q] = reportFile[q]
  /\ task'[q] = task[q] /\ plan'[q] = plan[q] /\ todo'[q] = todo[q] /\ test'[q] = test[q]
  /\ shutdown => shutdown'

\* A run that a step leaves alone keeps its invariant.
LEMMA Frame ==
  ASSUME NEW q \in Runs, RunInv(q), SameRun(q)
  PROVE  RunInv(q)'
<1> USE DEF SameRun, RunInv
<1>1. StateInv(q)'
  BY DEF StateInv
<1>2. ASSUME NEW t \in Tests PROVE TestRowInv(q, t)'
  BY DEF TestRowInv, Fresh, HasTask, Waiting, InFlight, Over, Recorded
<1>3. ASSUME NEW t \in Tests PROVE TestTaskInv(q, t)'
  BY DEF TestTaskInv, InPhase, MainTestsOver
<1>4. RunWhole(q)'
  BY DEF RunWhole, Fresh, Recorded
<1>5. RunReported(q)'
  BY DEF RunReported
<1>6. RunClean(q)' /\ RunLateWaits(q)'
  BY DEF RunClean, Fresh, RunLateWaits, MainTestsOver
<1>7. QED
  BY <1>1, <1>2, <1>3, <1>4, <1>5, <1>6

\* A step whose reply is lost touches no other run.
LEMMA ReplyLostIsolation ==
  ASSUME TypeOK, NEW r \in Runs, ReplyLost(r)
  PROVE  \A q \in Runs \ {r} : SameRun(q)
<1> SUFFICES ASSUME NEW q \in Runs \ {r} PROVE SameRun(q)
  OBVIOUS
<1>1. /\ task'[q] = task[q] /\ plan'[q] = plan[q] /\ todo'[q] = todo[q] /\ test'[q] = test[q]
      /\ results'[q] = results[q] /\ shutdown' = shutdown
  BY DEF ReplyLost, TypeOK, worker
<1>2. /\ runState'[q] = runState[q] /\ outcome'[q] = outcome[q]
      /\ facts'[q] = facts[q] /\ dead'[q] = dead[q] /\ planned'[q] = planned[q]
      /\ reportRow'[q] = reportRow[q] /\ reportFile'[q] = reportFile[q]
  <2>1. CASE StateLands(r)
    BY <2>1 DEF TypeOK, StateLands
  <2>2. CASE DiscoveryLands(r)
    BY <2>2 DEF TypeOK, DiscoveryLands
  <2>3. CASE OutcomeLands(r)
    BY <2>3 DEF TypeOK, OutcomeLands
  <2>4. CASE PlannedLands(r)
    BY <2>4 DEF TypeOK, PlannedLands
  <2>5. CASE ReportLands(r)
    BY <2>5 DEF TypeOK, ReportLands
  <2>6. QED
    BY <2>1, <2>2, <2>3, <2>4, <2>5 DEF ReplyLost
<1>3. QED
  BY <1>1, <1>2 DEF SameRun

\* The task of a run touches no other run.
LEMMA TaskIsolation ==
  ASSUME TypeOK, NEW r \in Runs, TaskStep(r) \/ TaskFailure(r)
  PROVE  \A q \in Runs \ {r} : SameRun(q)
<1>1. CASE Prepare(r)
  BY <1>1 DEF TypeOK, SameRun, Prepare, rows, worker, serverVars, bounds
<1>2. CASE InsertDiscovery(r)
  BY <1>2 DEF TypeOK, SameRun, InsertDiscovery, worker, serverVars, bounds
<1>3. CASE Leave(r)
  BY <1>3 DEF TypeOK, SameRun, Leave, TaskEnds, rows, worker, serverVars, bounds
<1>4. CASE TooBig(r)
  BY <1>4 DEF TypeOK, SameRun, TooBig, rows, worker, serverVars, bounds
<1>5. CASE StartPlanning(r)
  BY <1>5 DEF TypeOK, SameRun, StartPlanning, worker, serverVars, bounds
<1>6. CASE SetOutcome(r)
  BY <1>6 DEF TypeOK, SameRun, SetOutcome, OutcomeOf, worker, serverVars, bounds
<1>7. CASE InsertPlanned(r)
  BY <1>7 DEF TypeOK, SameRun, InsertPlanned, worker, serverVars, bounds
<1>8. CASE StartMain(r)
  BY <1>8 DEF TypeOK, SameRun, StartMain, Spawn, MainTests, worker, serverVars, bounds
<1>9. CASE StartLate(r)
  BY <1>9 DEF TypeOK, SameRun, StartLate, Spawn, LateTests, rows, worker, serverVars,
      bounds
<1>10. CASE PhaseDone(r)
  BY <1>10 DEF TypeOK, SameRun, PhaseDone, rows, worker, serverVars, bounds
<1>11. CASE StartAggregating(r)
  BY <1>11 DEF TypeOK, SameRun, StartAggregating, ReadyToAggregate, worker,
      serverVars, bounds
<1>12. CASE WriteReportFile(r)
  BY <1>12 DEF TypeOK, SameRun, WriteReportFile, ReportOf, rows, worker, serverVars,
      bounds
<1>13. CASE RecordReport(r)
  BY <1>13 DEF TypeOK, SameRun, RecordReport, worker, serverVars, bounds
<1>14. CASE MarkCompleted(r)
  BY <1>14 DEF TypeOK, SameRun, MarkCompleted, TaskEnds, worker, serverVars, bounds
<1>15. CASE MarkFailed(r)
  BY <1>15 DEF TypeOK, SameRun, MarkFailed, TaskEnds, worker, serverVars, bounds
<1>16. CASE PrepareFails(r)
  BY <1>16 DEF TypeOK, SameRun, PrepareFails, TaskEnds, rows, worker, serverVars
<1>17. CASE StepFails(r)
  BY <1>17 DEF TypeOK, SameRun, StepFails, AbortTests, rows, worker, serverVars
<1>18. CASE MarkFailedFails(r)
  BY <1>18 DEF TypeOK, SameRun, MarkFailedFails, TaskEnds, rows, worker, serverVars
<1>19. CASE ReplyLost(r)
  BY <1>19, ReplyLostIsolation
<1>20. QED
  BY <1>1, <1>2, <1>3, <1>4, <1>5, <1>6, <1>7, <1>8, <1>9, <1>10, <1>11, <1>12, <1>13,
      <1>14, <1>15, <1>16, <1>17, <1>18, <1>19 DEF TaskStep, TaskFailure

\* Nor does a test task of it.
LEMMA TestIsolation ==
  ASSUME TypeOK, NEW r \in Runs, NEW t \in Tests, TestStep(r, t) \/ AbortedTestLands(r, t)
  PROVE  \A q \in Runs \ {r} : SameRun(q)
<1>1. CASE TestSkipped(r, t)
  BY <1>1 DEF TypeOK, SameRun, TestSkipped, rows, worker, serverVars, bounds
<1>2. CASE MarkTestRunning(r, t)
  BY <1>2 DEF TypeOK, SameRun, MarkTestRunning, worker, serverVars, bounds
<1>3. CASE RecordResult(r, t)
  BY <1>3 DEF TypeOK, SameRun, RecordResult, RecordRows, worker, serverVars, bounds
<1>4. CASE AbortedTestLands(r, t)
  BY <1>4 DEF TypeOK, SameRun, AbortedTestLands, RecordRows, worker, serverVars,
      bounds
<1>5. QED
  BY <1>1, <1>2, <1>3, <1>4 DEF TestStep

-----------------------------------------------------------------------------
(* Which process is up                                                     *)

\* The server's steps keep ProcessInv.
LEMMA ServerProcess ==
  ASSUME TypeOK, ProcessInv, ServerNext
  PROVE  ProcessInv'
<1>1. CASE ServerStart
  BY <1>1 DEF TypeOK, ProcessInv, ServerStart, Incomplete, rows, tasks, worker, bounds
<1>2. ASSUME NEW r \in Runs, RecoverRun(r) PROVE ProcessInv'
  BY <1>2 DEF TypeOK, ProcessInv, RecoverRun, DeleteDiscovery, tasks, worker, bounds,
      ActiveStates
<1>3. CASE RecoverFails
  BY <1>3 DEF TypeOK, ProcessInv, RecoverFails, rows, tasks, worker
<1>4. CASE ServerReady
  BY <1>4 DEF TypeOK, ProcessInv, ServerReady, rows, tasks, bounds
<1>5. ASSUME NEW r \in Runs, SubmitRun(r) PROVE ProcessInv'
  BY <1>5 DEF TypeOK, ProcessInv, SubmitRun, tasks, worker, bounds, ActiveStates
<1>6. CASE CtrlC
  BY <1>6 DEF TypeOK, ProcessInv, CtrlC, rows, tasks
<1>7. CASE ServerStop
  BY <1>7 DEF TypeOK, ProcessInv, ServerStop, rows, tasks, worker, bounds
<1>8. CASE WorkerCrash
  BY <1>8 DEF TypeOK, ProcessInv, WorkerCrash, WorkerGone, rows, serverVars
<1>9. CASE Crash
  BY <1>9 DEF TypeOK, ProcessInv, Crash, WorkerGone, rows
<1>10. QED
  BY <1>1, <1>2, <1>3, <1>4, <1>5, <1>6, <1>7, <1>8, <1>9 DEF ServerNext

\* The run loop's steps keep ProcessInv.
LEMMA LoopProcess ==
  ASSUME TypeOK, ProcessInv, LoopNext
  PROVE  ProcessInv'
<1>1. ASSUME NEW r \in Runs, ClaimRun(r) PROVE ProcessInv'
  BY <1>1 DEF TypeOK, ProcessInv, ClaimRun, CanClaim, OldestQueued, serverVars,
      bounds, ActiveStates
<1>2. ASSUME NEW r \in Runs, ClaimLoadFails(r) PROVE ProcessInv'
  BY <1>2 DEF TypeOK, ProcessInv, ClaimLoadFails, CanClaim, OldestQueued, tasks,
      serverVars, ActiveStates
<1>3. CASE ClaimPollFails
  BY <1>3 DEF TypeOK, ProcessInv, ClaimPollFails, CanClaim, rows, tasks, serverVars
<1>4. CASE ClaimEnds
  BY <1>4 DEF TypeOK, ProcessInv, ClaimEnds, rows, tasks, serverVars, bounds
<1>5. CASE PollAgain
  BY <1>5 DEF TypeOK, ProcessInv, PollAgain, StillAccepting, rows, tasks, serverVars,
      bounds
<1>6. ASSUME NEW r \in Runs, JoinRun(r) PROVE ProcessInv'
  BY <1>6 DEF TypeOK, ProcessInv, JoinRun, StillAccepting, rows, serverVars, bounds,
      ActiveStates
<1>7. CASE WorkerExit
  BY <1>7 DEF TypeOK, ProcessInv, WorkerExit, WorkerGone, rows, serverVars, bounds
<1>8. QED
  BY <1>1, <1>2, <1>3, <1>4, <1>5, <1>6, <1>7 DEF LoopNext

\* The steps of a run's task keep ProcessInv.
LEMMA TaskProcess ==
  ASSUME TypeOK, ProcessInv, NEW r \in Runs, TaskStep(r) \/ TaskFailure(r)
  PROVE  ProcessInv'
<1>1. CASE Prepare(r)
  BY <1>1 DEF TypeOK, ProcessInv, Prepare, rows, worker, serverVars, bounds,
      ActiveStates
<1>2. CASE InsertDiscovery(r)
  BY <1>2 DEF TypeOK, ProcessInv, InsertDiscovery, worker, serverVars, bounds,
      ActiveStates
<1>3. CASE Leave(r)
  BY <1>3 DEF TypeOK, ProcessInv, Leave, TaskEnds, rows, worker, serverVars, bounds,
      ActiveStates
<1>4. CASE TooBig(r)
  BY <1>4 DEF TypeOK, ProcessInv, TooBig, rows, worker, serverVars, bounds,
      ActiveStates
<1>5. CASE StartPlanning(r)
  BY <1>5 DEF TypeOK, ProcessInv, StartPlanning, worker, serverVars, bounds,
      ActiveStates
<1>6. CASE SetOutcome(r)
  BY <1>6 DEF TypeOK, ProcessInv, SetOutcome, OutcomeOf, worker, serverVars, bounds,
      ActiveStates
<1>7. CASE InsertPlanned(r)
  BY <1>7 DEF TypeOK, ProcessInv, InsertPlanned, worker, serverVars, bounds,
      ActiveStates
<1>8. CASE StartMain(r)
  BY <1>8 DEF TypeOK, ProcessInv, StartMain, Spawn, MainTests, worker, serverVars,
      bounds, ActiveStates
<1>9. CASE StartLate(r)
  BY <1>9 DEF TypeOK, ProcessInv, StartLate, Spawn, LateTests, rows, worker,
      serverVars, bounds, ActiveStates
<1>10. CASE PhaseDone(r)
  BY <1>10 DEF TypeOK, ProcessInv, PhaseDone, rows, worker, serverVars, bounds,
      ActiveStates
<1>11. CASE StartAggregating(r)
  BY <1>11 DEF TypeOK, ProcessInv, StartAggregating, ReadyToAggregate, worker,
      serverVars, bounds, ActiveStates
<1>12. CASE WriteReportFile(r)
  BY <1>12 DEF TypeOK, ProcessInv, WriteReportFile, ReportOf, rows, worker,
      serverVars, bounds, ActiveStates
<1>13. CASE RecordReport(r)
  BY <1>13 DEF TypeOK, ProcessInv, RecordReport, worker, serverVars, bounds,
      ActiveStates
<1>14. CASE MarkCompleted(r)
  BY <1>14 DEF TypeOK, ProcessInv, MarkCompleted, TaskEnds, worker, serverVars,
      bounds, ActiveStates
<1>15. CASE MarkFailed(r)
  BY <1>15 DEF TypeOK, ProcessInv, MarkFailed, TaskEnds, worker, serverVars, bounds,
      ActiveStates
<1>16. CASE PrepareFails(r)
  BY <1>16 DEF TypeOK, ProcessInv, PrepareFails, TaskEnds, rows, worker, serverVars,
      ActiveStates
<1>17. CASE StepFails(r)
  BY <1>17 DEF TypeOK, ProcessInv, StepFails, AbortTests, rows, worker, serverVars,
      ActiveStates, FallibleSteps
<1>18. CASE MarkFailedFails(r)
  BY <1>18 DEF TypeOK, ProcessInv, MarkFailedFails, TaskEnds, rows, worker,
      serverVars, ActiveStates
<1>19. CASE ReplyLost(r)
  BY <1>19 DEF TypeOK, ProcessInv, ReplyLost, StateLands, NextStates, ReadyToAggregate,
      DiscoveryLands, OutcomeLands, PlannedLands, ReportLands, worker, serverVars
<1>20. QED
  BY <1>1, <1>2, <1>3, <1>4, <1>5, <1>6, <1>7, <1>8, <1>9, <1>10, <1>11, <1>12, <1>13,
      <1>14, <1>15, <1>16, <1>17, <1>18, <1>19 DEF TaskStep, TaskFailure

\* The steps of a test task keep ProcessInv.
LEMMA TestProcess ==
  ASSUME TypeOK, ProcessInv, NEW r \in Runs, NEW t \in Tests, 
         TestStep(r, t) \/ AbortedTestLands(r, t)
  PROVE  ProcessInv'
<1>1. CASE TestSkipped(r, t)
  BY <1>1 DEF TypeOK, ProcessInv, TestSkipped, InPhase, rows, worker, serverVars,
      bounds, ActiveStates
<1>2. CASE MarkTestRunning(r, t)
  BY <1>2 DEF TypeOK, ProcessInv, MarkTestRunning, InPhase, worker, serverVars,
      bounds, ActiveStates
<1>3. CASE RecordResult(r, t)
  BY <1>3 DEF TypeOK, ProcessInv, RecordResult, RecordRows, InPhase, worker,
      serverVars, bounds, ActiveStates
<1>4. CASE AbortedTestLands(r, t)
  BY <1>4 DEF TypeOK, ProcessInv, AbortedTestLands, RecordRows, worker, serverVars,
      bounds, ActiveStates, InPhase
<1>5. QED
  BY <1>1, <1>2, <1>3, <1>4 DEF TestStep

-----------------------------------------------------------------------------
(* The rows, the task and the tests of the run a step is about             *)

\* A task has only runs whose row is active, or that it completed without
\* learning of it.
LEMMA OwnedIsActive ==
  ASSUME RowsInv, NEW r \in Runs, HasTask(r)
  PROVE  runState[r] \in ActiveStates \/ (task[r] = "fail" /\ runState[r] = "completed")
<1>1. task[r] \in TaskStates /\ StateInv(r)
  BY DEF RowsInv, TypeOK, RunInv
<1>2. QED
  BY <1>1 DEF StateInv, HasTask, TaskStates, FallibleSteps, ActiveStates

\* A queued run has no task, no test task and no rows.
LEMMA QueuedIsIdle ==
  ASSUME RowsInv, NEW r \in Runs, runState[r] = "queued"
  PROVE  /\ task[r] \in {"none", "ended"} /\ plan[r] = {}
         /\ \A t \in Tests : test[r][t] = "idle" /\ Fresh(r, t)
<1>1. task[r] \in {"none", "ended"}
  BY OwnedIsActive DEF HasTask, ActiveStates
<1>2. plan[r] = {} /\ \A t \in Tests : Fresh(r, t)
  BY <1>1 DEF RowsInv, RunInv, StateInv, RunClean
<1>3. ASSUME NEW t \in Tests PROVE test[r][t] = "idle"
  <2>1. test[r][t] \in TestStates /\ TestTaskInv(r, t)
    BY DEF RowsInv, RunInv, TypeOK
  <2>2. QED
    BY <1>1, <2>1 DEF TestTaskInv, TestStates, InPhase
<1>4. QED
  BY <1>1, <1>2, <1>3

\* In the late phase every main test has its result.
LEMMA LatePhase ==
  ASSUME RowsInv, NEW r \in Runs, task[r] = "late"
  PROVE  MainTestsOver(r)
<1>1. SUFFICES ASSUME NEW t \in Tests, ~IsLate(t)
               PROVE  planned[r][t] \in {"absent"} \union TerminalStates
  BY DEF MainTestsOver
<1>2. TestRowInv(r, t)
  BY DEF RowsInv, RunInv
<1>3. QED
  BY <1>1, <1>2 DEF TestRowInv, Fresh, Recorded, HasTask

\* Claiming a queued run.
LEMMA ClaimRunInv ==
  ASSUME RowsInv, NEW r \in Runs, ClaimRun(r)
  PROVE  RunInv(r)'
<1>1. task'[r] = "prepare" /\ plan'[r] = {} /\ runState'[r] = "discovering"
  BY QueuedIsIdle DEF RowsInv, TypeOK, ClaimRun, OldestQueued
<1>2. ASSUME NEW t \in Tests PROVE Fresh(r, t)' /\ test'[r][t] = "idle"
  BY QueuedIsIdle DEF ClaimRun, OldestQueued, Fresh
<1>3. StateInv(r)' /\ RunWhole(r)' /\ RunReported(r)' /\ RunClean(r)'
  BY <1>1 DEF StateInv, RunWhole, RunReported, RunClean
<1>4. ASSUME NEW t \in Tests PROVE TestRowInv(r, t)' /\ TestTaskInv(r, t)'
  BY <1>1, <1>2 DEF TestRowInv, TestTaskInv, HasTask, InPhase
<1>5. RunLateWaits(r)'
  BY <1>2 DEF RunLateWaits, Fresh
<1>6. QED
  BY <1>3, <1>4, <1>5 DEF RunInv

\* Recovery empties the rows of a run no task has.
LEMMA RecoverRunInv ==
  ASSUME RowsInv, NEW r \in Runs, RecoverRun(r)
  PROVE  RunInv(r)'
BY DEF RecoverRun, DeleteDiscovery, RowsInv, ProcessInv, RunInv, TypeOK, StateInv,
    TestRowInv, TestTaskInv, RunWhole, RunReported, RunClean, RunLateWaits,
    MainTestsOver, Fresh, Waiting, Recorded, Over, InFlight, HasTask, InPhase, tasks,
    worker, bounds, ActiveStates, TerminalStates

\* A submitted run starts empty.
LEMMA SubmitRunInv ==
  ASSUME RowsInv, NEW r \in Runs, SubmitRun(r)
  PROVE  RunInv(r)'
<1>1. StateInv(r)'
  BY DEF RowsInv, RunInv, TypeOK, SubmitRun, StateInv, tasks, worker, bounds,
      ActiveStates, TerminalStates
<1>2. ASSUME NEW u \in Tests PROVE TestRowInv(r, u)'
  BY DEF RowsInv, RunInv, TypeOK, SubmitRun, TestRowInv, StateInv, HasTask, Fresh,
      Waiting, Recorded, Over, InFlight, tasks, worker, bounds, ActiveStates,
      TerminalStates
<1>3. ASSUME NEW u \in Tests PROVE TestTaskInv(r, u)'
  BY DEF RowsInv, RunInv, TypeOK, SubmitRun, TestTaskInv, StateInv, TestRowInv, InPhase,
      MainTestsOver, HasTask, Fresh, Waiting, Recorded, Over, InFlight, tasks, worker,
      bounds, ActiveStates, TerminalStates
<1>4. RunWhole(r)'
  BY DEF RowsInv, RunInv, TypeOK, SubmitRun, RunWhole, StateInv, TestRowInv,
      TestTaskInv, Fresh, Waiting, Recorded, HasTask, tasks, worker, bounds,
      ActiveStates, TerminalStates
<1>5. RunReported(r)'
  BY DEF RowsInv, RunInv, TypeOK, SubmitRun, RunReported, StateInv, TestTaskInv, tasks,
      worker, bounds, ActiveStates, TerminalStates
<1>6. RunClean(r)'
  BY DEF RowsInv, RunInv, TypeOK, SubmitRun, RunClean, StateInv, TestTaskInv, Fresh,
      tasks, worker, bounds, ActiveStates, TerminalStates
<1>7. RunLateWaits(r)'
  BY DEF RowsInv, RunInv, TypeOK, SubmitRun, RunLateWaits, MainTestsOver, StateInv,
      TestRowInv, TestTaskInv, Fresh, Waiting, Recorded, Over, InFlight, HasTask,
      tasks, worker, bounds, ActiveStates, TerminalStates
<1>8. QED
  BY <1>1, <1>2, <1>3, <1>4, <1>5, <1>6, <1>7 DEF RunInv

\* A claim whose row cannot be loaded.
LEMMA ClaimLoadFailsInv ==
  ASSUME RowsInv, NEW r \in Runs, ClaimLoadFails(r)
  PROVE  RunInv(r)'
BY DEF ClaimLoadFails, CanClaim, OldestQueued, RowsInv, RunInv, TypeOK, StateInv,
    TestRowInv, TestTaskInv, RunWhole, RunReported, RunClean, RunLateWaits,
    MainTestsOver, Fresh, Waiting, Recorded, Over, InFlight, HasTask, InPhase, tasks,
    serverVars, ActiveStates, TerminalStates

\* Joining an ended task.
LEMMA JoinRunInv ==
  ASSUME RowsInv, NEW r \in Runs, JoinRun(r)
  PROVE  RunInv(r)'
<1>1. StateInv(r)'
  BY DEF RowsInv, RunInv, TypeOK, JoinRun, StillAccepting, StateInv, rows, serverVars,
      bounds, ActiveStates, TerminalStates
<1>2. ASSUME NEW u \in Tests PROVE TestRowInv(r, u)'
  BY DEF RowsInv, RunInv, TypeOK, JoinRun, StillAccepting, TestRowInv, StateInv,
      HasTask, Fresh, Waiting, Recorded, Over, InFlight, rows, serverVars, bounds,
      ActiveStates, TerminalStates
<1>3. ASSUME NEW u \in Tests PROVE TestTaskInv(r, u)'
  BY DEF RowsInv, RunInv, TypeOK, JoinRun, StillAccepting, TestTaskInv, StateInv,
      TestRowInv, InPhase, MainTestsOver, HasTask, Fresh, Waiting, Recorded, Over,
      InFlight, rows, serverVars, bounds, ActiveStates, TerminalStates
<1>4. RunWhole(r)'
  BY DEF RowsInv, RunInv, TypeOK, JoinRun, StillAccepting, RunWhole, StateInv,
      TestRowInv, TestTaskInv, Fresh, Waiting, Recorded, HasTask, rows, serverVars,
      bounds, ActiveStates, TerminalStates
<1>5. RunReported(r)'
  BY DEF RowsInv, RunInv, TypeOK, JoinRun, StillAccepting, RunReported, StateInv,
      TestTaskInv, rows, serverVars, bounds, ActiveStates, TerminalStates
<1>6. RunClean(r)'
  BY DEF RowsInv, RunInv, TypeOK, JoinRun, StillAccepting, RunClean, StateInv,
      TestTaskInv, Fresh, rows, serverVars, bounds, ActiveStates, TerminalStates
<1>7. RunLateWaits(r)'
  BY DEF RowsInv, RunInv, TypeOK, JoinRun, StillAccepting, RunLateWaits, MainTestsOver,
      StateInv, TestRowInv, TestTaskInv, Fresh, Waiting, Recorded, Over, InFlight,
      HasTask, rows, serverVars, bounds, ActiveStates, TerminalStates
<1>8. QED
  BY <1>1, <1>2, <1>3, <1>4, <1>5, <1>6, <1>7 DEF RunInv

\* Preparing the run's directory.
LEMMA PrepareInv ==
  ASSUME RowsInv, NEW r \in Runs, Prepare(r)
  PROVE  RunInv(r)'
<1>1. StateInv(r)'
  BY DEF RowsInv, RunInv, TypeOK, Prepare, StateInv, rows, worker, serverVars, bounds,
      ActiveStates, TerminalStates
<1>2. ASSUME NEW u \in Tests PROVE TestRowInv(r, u)'
  <2>1. task'[r] = "discover" /\ plan'[r] = {}
    BY DEF RowsInv, RunInv, StateInv, TypeOK, Prepare
  <2>2. Fresh(r, u)' /\ test'[r][u] = "idle"
    BY DEF RowsInv, RunInv, TestRowInv, StateInv, TypeOK, Prepare, Fresh, HasTask, rows
  <2>3. QED
    BY <2>1, <2>2 DEF TestRowInv, HasTask
<1>3. ASSUME NEW u \in Tests PROVE TestTaskInv(r, u)'
  BY DEF RowsInv, RunInv, TypeOK, Prepare, TestTaskInv, StateInv, TestRowInv, InPhase,
      MainTestsOver, HasTask, Fresh, Waiting, Recorded, Over, InFlight, rows, worker,
      serverVars, bounds, ActiveStates, TerminalStates
<1>4. RunWhole(r)'
  BY DEF RowsInv, RunInv, TypeOK, Prepare, RunWhole, StateInv, TestRowInv, TestTaskInv,
      Fresh, Waiting, Recorded, HasTask, rows, worker, serverVars, bounds,
      ActiveStates, TerminalStates
<1>5. RunReported(r)'
  BY DEF RowsInv, RunInv, TypeOK, Prepare, RunReported, StateInv, TestTaskInv, rows,
      worker, serverVars, bounds, ActiveStates, TerminalStates
<1>6. RunClean(r)'
  BY DEF RowsInv, RunInv, TypeOK, Prepare, RunClean, StateInv, TestTaskInv, Fresh, rows,
      worker, serverVars, bounds, ActiveStates, TerminalStates
<1>7. RunLateWaits(r)'
  BY DEF RowsInv, RunInv, Prepare, rows, RunLateWaits, MainTestsOver
<1>8. QED
  BY <1>1, <1>2, <1>3, <1>4, <1>5, <1>6, <1>7 DEF RunInv

\* A failing preparation leaves the run discovering.
LEMMA PrepareFailsInv ==
  ASSUME RowsInv, NEW r \in Runs, PrepareFails(r)
  PROVE  RunInv(r)'
BY DEF PrepareFails, TaskEnds, RowsInv, RunInv, TypeOK, StateInv, TestRowInv,
    TestTaskInv, RunWhole, RunReported, RunClean, RunLateWaits, MainTestsOver, Fresh,
    Waiting, Recorded, Over, InFlight, HasTask, InPhase, rows, worker, serverVars,
    ActiveStates, TerminalStates

\* Inserting what discovery found, or failing to.
LEMMA InsertDiscoveryInv ==
  ASSUME RowsInv, NEW r \in Runs, InsertDiscovery(r)
  PROVE  RunInv(r)'
BY DEF InsertDiscovery, RowsInv, RunInv, TypeOK, StateInv, TestRowInv, TestTaskInv,
    RunWhole, RunReported, RunClean, RunLateWaits, MainTestsOver, Fresh, Waiting,
    Recorded, Over, InFlight, HasTask, InPhase, worker, serverVars, bounds,
    ActiveStates, TerminalStates

\* Leaving the run for recovery.
LEMMA LeaveInv ==
  ASSUME RowsInv, NEW r \in Runs, Leave(r)
  PROVE  RunInv(r)'
<1>1. StateInv(r)'
  BY DEF RowsInv, RunInv, TypeOK, Leave, TaskEnds, StateInv, rows, worker, serverVars,
      bounds, ActiveStates, TerminalStates
<1>2. ASSUME NEW u \in Tests PROVE TestRowInv(r, u)'
  BY DEF RowsInv, RunInv, TypeOK, Leave, TaskEnds, TestRowInv, StateInv, HasTask, Fresh,
      Waiting, Recorded, Over, InFlight, rows, worker, serverVars, bounds,
      ActiveStates, TerminalStates
<1>3. ASSUME NEW u \in Tests PROVE TestTaskInv(r, u)'
  BY DEF RowsInv, RunInv, TypeOK, Leave, TaskEnds, TestTaskInv, StateInv, TestRowInv,
      InPhase, MainTestsOver, HasTask, Fresh, Waiting, Recorded, Over, InFlight, rows,
      worker, serverVars, bounds, ActiveStates, TerminalStates
<1>4. RunWhole(r)'
  BY DEF RowsInv, RunInv, TypeOK, Leave, TaskEnds, RunWhole, StateInv, TestRowInv,
      TestTaskInv, Fresh, Waiting, Recorded, HasTask, rows, worker, serverVars,
      bounds, ActiveStates, TerminalStates
<1>5. RunReported(r)'
  BY DEF RowsInv, RunInv, TypeOK, Leave, TaskEnds, RunReported, StateInv, TestTaskInv,
      rows, worker, serverVars, bounds, ActiveStates, TerminalStates
<1>6. RunClean(r)'
  BY DEF RowsInv, RunInv, TypeOK, Leave, TaskEnds, RunClean, StateInv, TestTaskInv,
      Fresh, rows, worker, serverVars, bounds, ActiveStates, TerminalStates
<1>7. RunLateWaits(r)'
  BY DEF RowsInv, RunInv, Leave, rows, RunLateWaits, MainTestsOver
<1>8. QED
  BY <1>1, <1>2, <1>3, <1>4, <1>5, <1>6, <1>7 DEF RunInv

\* A target that is too big is not planned.
LEMMA TooBigInv ==
  ASSUME RowsInv, NEW r \in Runs, TooBig(r)
  PROVE  RunInv(r)'
<1>1. StateInv(r)'
  BY DEF RowsInv, RunInv, TypeOK, TooBig, StateInv, rows, worker, serverVars, bounds,
      ActiveStates, TerminalStates
<1>2. ASSUME NEW u \in Tests PROVE TestRowInv(r, u)'
  <2>1. task'[r] = "bigOutcomes" /\ plan'[r] = {}
    BY DEF RowsInv, RunInv, StateInv, TypeOK, TooBig
  <2>2. Fresh(r, u)' /\ test'[r][u] = "idle"
    BY DEF RowsInv, RunInv, TestRowInv, StateInv, TypeOK, TooBig, Fresh, HasTask, rows
  <2>3. QED
    BY <2>1, <2>2 DEF TestRowInv, HasTask
<1>3. ASSUME NEW u \in Tests PROVE TestTaskInv(r, u)'
  BY DEF RowsInv, RunInv, TypeOK, TooBig, TestTaskInv, StateInv, TestRowInv, InPhase,
      MainTestsOver, HasTask, Fresh, Waiting, Recorded, Over, InFlight, rows, worker,
      serverVars, bounds, ActiveStates, TerminalStates
<1>4. RunWhole(r)'
  BY DEF RowsInv, RunInv, TypeOK, TooBig, RunWhole, StateInv, TestRowInv, TestTaskInv,
      Fresh, Waiting, Recorded, HasTask, rows, worker, serverVars, bounds,
      ActiveStates, TerminalStates
<1>5. RunReported(r)'
  BY DEF RowsInv, RunInv, TypeOK, TooBig, RunReported, StateInv, TestTaskInv, rows,
      worker, serverVars, bounds, ActiveStates, TerminalStates
<1>6. RunClean(r)'
  BY DEF RowsInv, RunInv, TypeOK, TooBig, RunClean, StateInv, TestTaskInv, Fresh, rows,
      worker, serverVars, bounds, ActiveStates, TerminalStates
<1>7. RunLateWaits(r)'
  BY DEF RowsInv, RunInv, TooBig, rows, RunLateWaits, MainTestsOver
<1>8. QED
  BY <1>1, <1>2, <1>3, <1>4, <1>5, <1>6, <1>7 DEF RunInv

\* Planning the run.
LEMMA StartPlanningInv ==
  ASSUME RowsInv, NEW r \in Runs, StartPlanning(r)
  PROVE  RunInv(r)'
<1>1. StateInv(r)'
  BY DEF RowsInv, RunInv, TypeOK, StartPlanning, StateInv, worker, serverVars, bounds,
      ActiveStates, TerminalStates
<1>2. ASSUME NEW u \in Tests PROVE TestRowInv(r, u)'
  <2>1. task'[r] = "outcomes"
    BY DEF RowsInv, RunInv, StateInv, TypeOK, StartPlanning
  <2>2. Fresh(r, u)' /\ test'[r][u] = "idle"
    BY DEF RowsInv, RunInv, TestRowInv, StateInv, TypeOK, StartPlanning, Fresh, HasTask
  <2>3. QED
    BY <2>1, <2>2 DEF TestRowInv, HasTask
<1>3. ASSUME NEW u \in Tests PROVE TestTaskInv(r, u)'
  BY DEF RowsInv, RunInv, TypeOK, StartPlanning, TestTaskInv, StateInv, TestRowInv,
      InPhase, MainTestsOver, HasTask, Fresh, Waiting, Recorded, Over, InFlight,
      worker, serverVars, bounds, ActiveStates, TerminalStates
<1>4. RunWhole(r)'
  BY DEF RowsInv, RunInv, TypeOK, StartPlanning, RunWhole, StateInv, TestRowInv,
      TestTaskInv, Fresh, Waiting, Recorded, HasTask, worker, serverVars, bounds,
      ActiveStates, TerminalStates
<1>5. RunReported(r)'
  BY DEF RowsInv, RunInv, TypeOK, StartPlanning, RunReported, StateInv, TestTaskInv,
      worker, serverVars, bounds, ActiveStates, TerminalStates
<1>6. RunClean(r)'
  BY DEF RowsInv, RunInv, TypeOK, StartPlanning, RunClean, StateInv, TestTaskInv, Fresh,
      worker, serverVars, bounds, ActiveStates, TerminalStates
<1>7. RunLateWaits(r)'
  BY DEF RowsInv, RunInv, StartPlanning, RunLateWaits, MainTestsOver
<1>8. QED
  BY <1>1, <1>2, <1>3, <1>4, <1>5, <1>6, <1>7 DEF RunInv

\* Setting the outcome of a requested id.
LEMMA SetOutcomeInv ==
  ASSUME RowsInv, NEW r \in Runs, SetOutcome(r)
  PROVE  RunInv(r)'
BY DEF SetOutcome, OutcomeOf, RowsInv, RunInv, TypeOK, StateInv, TestRowInv,
    TestTaskInv, RunWhole, RunReported, RunClean, RunLateWaits, MainTestsOver, Fresh,
    Waiting, Recorded, Over, InFlight, HasTask, InPhase, worker, serverVars, bounds,
    ActiveStates, TerminalStates

\* Inserting the planned tests.
LEMMA InsertPlannedInv ==
  ASSUME RowsInv, NEW r \in Runs, InsertPlanned(r)
  PROVE  RunInv(r)'
<1>1. StateInv(r)'
  BY DEF RowsInv, RunInv, TypeOK, InsertPlanned, StateInv, worker, serverVars, bounds,
      ActiveStates, TerminalStates
<1>2. ASSUME NEW u \in Tests PROVE TestRowInv(r, u)'
  <2>1. task'[r] = "planned"
    BY DEF RowsInv, RunInv, StateInv, TypeOK, InsertPlanned
  <2>2. CASE u \in plan[r]
    <3>1. Waiting(r, u)' /\ plan' = plan
      BY <2>2 DEF RowsInv, RunInv, TestRowInv, TypeOK, InsertPlanned, Fresh, Waiting
    <3>2. QED
      BY <2>1, <2>2, <3>1 DEF TestRowInv, HasTask
  <2>3. CASE u \notin plan[r]
    <3>1. Fresh(r, u)' /\ test'[r][u] = "idle" /\ plan' = plan
      BY <2>3 DEF RowsInv, RunInv, TestRowInv, TypeOK, InsertPlanned, Fresh, HasTask
    <3>2. QED
      BY <2>1, <2>3, <3>1 DEF TestRowInv, HasTask
  <2>4. QED
    BY <2>2, <2>3
<1>3. ASSUME NEW u \in Tests PROVE TestTaskInv(r, u)'
  BY DEF RowsInv, RunInv, TypeOK, InsertPlanned, TestTaskInv, StateInv, TestRowInv,
      InPhase, MainTestsOver, HasTask, Fresh, Waiting, Recorded, Over, InFlight,
      worker, serverVars, bounds, ActiveStates, TerminalStates
<1>4. RunWhole(r)'
  BY DEF RowsInv, RunInv, TypeOK, InsertPlanned, RunWhole, StateInv, TestRowInv,
      TestTaskInv, Fresh, Waiting, Recorded, HasTask, worker, serverVars, bounds,
      ActiveStates, TerminalStates
<1>5. RunReported(r)'
  BY DEF RowsInv, RunInv, TypeOK, InsertPlanned, RunReported, StateInv, TestTaskInv,
      worker, serverVars, bounds, ActiveStates, TerminalStates
<1>6. RunClean(r)'
  BY DEF RowsInv, RunInv, TypeOK, InsertPlanned, RunClean, StateInv, TestTaskInv, Fresh,
      worker, serverVars, bounds, ActiveStates, TerminalStates
<1>7. RunLateWaits(r)'
  BY DEF RowsInv, RunInv, TypeOK, InsertPlanned, RunLateWaits, MainTestsOver, StateInv,
      TestRowInv, TestTaskInv, Fresh, Waiting, Recorded, Over, InFlight, HasTask,
      worker, serverVars, bounds, ActiveStates, TerminalStates
<1>8. QED
  BY <1>1, <1>2, <1>3, <1>4, <1>5, <1>6, <1>7 DEF RunInv

\* A test row when StartMain starts its phase or passes it by.
LEMMA StartMainTests ==
  ASSUME RowsInv, NEW r \in Runs, StartMain(r), NEW u \in Tests
  PROVE  TestRowInv(r, u)' /\ TestTaskInv(r, u)'
<1>1. /\ planned' = planned /\ results' = results /\ plan' = plan
      /\ shutdown' = shutdown /\ ~shutdown
  BY DEF StartMain, worker
<1>2. task[r] = "planned" /\ TestRowInv(r, u) /\ TestTaskInv(r, u)
  BY DEF StartMain, RowsInv, RunInv
<1>3. u \in plan[r] => Waiting(r, u)
  BY <1>1, <1>2 DEF TestRowInv, Over
<1>4. u \notin plan[r] => Fresh(r, u)
  BY <1>2 DEF TestRowInv, HasTask
<1>5. test[r][u] = "idle"
  BY <1>2 DEF TestTaskInv, InPhase, RowsInv, TypeOK, TestStates
<1>6. CASE task'[r] = "main"
  <2>1. test'[r][u] = IF u \in MainTests(r) THEN "spawned" ELSE "idle"
    BY <1>6 DEF StartMain, Spawn, RowsInv, TypeOK
  <2>2. QED
    BY <1>1, <1>3, <1>4, <1>6, <2>1
    DEF TestRowInv, TestTaskInv, MainTests, InPhase, InFlight, Over, Waiting,
        Recorded, Fresh, HasTask
<1>7. CASE task'[r] = "mainDone" /\ MainTests(r) = {} /\ test' = test
  BY <1>1, <1>3, <1>4, <1>5, <1>7
  DEF TestRowInv, TestTaskInv, MainTests, InPhase, Over, Waiting, Recorded, Fresh, HasTask
<1>8. QED
  BY <1>6, <1>7 DEF StartMain, RowsInv, TypeOK

\* Starting the main phase.
LEMMA StartMainInv ==
  ASSUME RowsInv, NEW r \in Runs, StartMain(r)
  PROVE  RunInv(r)'
<1>1. StateInv(r)'
  BY DEF RowsInv, RunInv, TypeOK, StartMain, Spawn, MainTests, StateInv, worker,
      serverVars, bounds, ActiveStates, TerminalStates
<1>2. ASSUME NEW u \in Tests PROVE TestRowInv(r, u)'
  BY StartMainTests
<1>3. ASSUME NEW u \in Tests PROVE TestTaskInv(r, u)'
  BY StartMainTests
<1>4. RunWhole(r)'
  BY DEF RowsInv, RunInv, TypeOK, StartMain, Spawn, MainTests, RunWhole, StateInv,
      TestRowInv, TestTaskInv, Fresh, Waiting, Recorded, HasTask, worker, serverVars,
      bounds, ActiveStates, TerminalStates
<1>5. RunReported(r)'
  BY DEF RowsInv, RunInv, TypeOK, StartMain, Spawn, MainTests, RunReported, StateInv,
      TestTaskInv, worker, serverVars, bounds, ActiveStates, TerminalStates
<1>6. RunClean(r)'
  BY DEF RowsInv, RunInv, TypeOK, StartMain, Spawn, MainTests, RunClean, StateInv,
      TestTaskInv, Fresh, worker, serverVars, bounds, ActiveStates, TerminalStates
<1>7. RunLateWaits(r)'
  BY DEF RowsInv, RunInv, StartMain, RunLateWaits, MainTestsOver
<1>8. QED
  BY <1>1, <1>2, <1>3, <1>4, <1>5, <1>6, <1>7 DEF RunInv

\* A test row when StartLate starts its phase or passes it by.
LEMMA StartLateTests ==
  ASSUME RowsInv, NEW r \in Runs, StartLate(r), NEW u \in Tests
  PROVE  TestRowInv(r, u)' /\ TestTaskInv(r, u)'
<1>1. /\ planned' = planned /\ results' = results /\ plan' = plan
      /\ shutdown' = shutdown /\ ~shutdown
  BY DEF StartLate, worker, rows
<1>2. task[r] = "mainDone" /\ TestRowInv(r, u) /\ TestTaskInv(r, u)
  BY DEF StartLate, RowsInv, RunInv
<1>3. u \in plan[r] => IF IsLate(u) THEN Waiting(r, u) ELSE Recorded(r, u)
  BY <1>1, <1>2 DEF TestRowInv, Over
<1>4. u \notin plan[r] => Fresh(r, u)
  BY <1>2 DEF TestRowInv, HasTask
<1>5. test[r][u] = "idle"
  BY <1>2 DEF TestTaskInv, InPhase, RowsInv, TypeOK, TestStates
<1>6. CASE task'[r] = "late"
  <2>1. test'[r][u] = IF u \in LateTests(r) THEN "spawned" ELSE "idle"
    BY <1>6 DEF StartLate, Spawn, RowsInv, TypeOK
  <2>2. QED
    BY <1>1, <1>3, <1>4, <1>6, <2>1
    DEF TestRowInv, TestTaskInv, LateTests, InPhase, InFlight, Over, Waiting,
        Recorded, Fresh, HasTask
<1>7. CASE task'[r] = "lateDone" /\ LateTests(r) = {} /\ test' = test
  BY <1>1, <1>3, <1>4, <1>5, <1>7
  DEF TestRowInv, TestTaskInv, LateTests, InPhase, Over, Waiting, Recorded, Fresh, HasTask
<1>8. QED
  BY <1>6, <1>7 DEF StartLate, RowsInv, TypeOK

\* Starting the late phase.
LEMMA StartLateInv ==
  ASSUME RowsInv, NEW r \in Runs, StartLate(r)
  PROVE  RunInv(r)'
<1>1. StateInv(r)'
  BY DEF RowsInv, RunInv, TypeOK, StartLate, Spawn, LateTests, StateInv, rows, worker,
      serverVars, bounds, ActiveStates, TerminalStates
<1>2. ASSUME NEW u \in Tests PROVE TestRowInv(r, u)'
  BY StartLateTests
<1>3. ASSUME NEW u \in Tests PROVE TestTaskInv(r, u)'
  BY StartLateTests
<1>4. RunWhole(r)'
  BY DEF RowsInv, RunInv, TypeOK, StartLate, Spawn, LateTests, RunWhole, StateInv,
      TestRowInv, TestTaskInv, Fresh, Waiting, Recorded, HasTask, rows, worker,
      serverVars, bounds, ActiveStates, TerminalStates
<1>5. RunReported(r)'
  BY DEF RowsInv, RunInv, TypeOK, StartLate, Spawn, LateTests, RunReported, StateInv,
      TestTaskInv, rows, worker, serverVars, bounds, ActiveStates, TerminalStates
<1>6. RunClean(r)'
  BY DEF RowsInv, RunInv, TypeOK, StartLate, Spawn, LateTests, RunClean, StateInv,
      TestTaskInv, Fresh, rows, worker, serverVars, bounds, ActiveStates,
      TerminalStates
<1>7. RunLateWaits(r)'
  BY DEF RowsInv, RunInv, StartLate, rows, RunLateWaits, MainTestsOver
<1>8. QED
  BY <1>1, <1>2, <1>3, <1>4, <1>5, <1>6, <1>7 DEF RunInv

\* The end of a phase.
LEMMA PhaseDoneInv ==
  ASSUME RowsInv, NEW r \in Runs, PhaseDone(r)
  PROVE  RunInv(r)'
<1>1. StateInv(r)'
  BY DEF RowsInv, RunInv, TypeOK, PhaseDone, StateInv, rows, worker, serverVars, bounds,
      ActiveStates, TerminalStates
<1>2. ASSUME NEW u \in Tests PROVE TestRowInv(r, u)'
  <2>1. /\ planned' = planned /\ results' = results /\ plan' = plan
        /\ test' = test /\ shutdown' = shutdown
    BY DEF PhaseDone, rows, worker
  <2>2. test[r][u] = "idle" /\ TestRowInv(r, u)
    BY DEF PhaseDone, RowsInv, RunInv
  <2>3. CASE task[r] = "main"
    <3>1. task'[r] = "mainDone"
      BY <2>3 DEF PhaseDone, RowsInv, TypeOK
    <3>2. QED
      BY <2>1, <2>2, <2>3, <3>1
      DEF TestRowInv, InFlight, Over, Fresh, Waiting, Recorded, HasTask
  <2>4. CASE task[r] = "late"
    <3>1. task'[r] = "lateDone"
      BY <2>4 DEF PhaseDone, RowsInv, TypeOK
    <3>2. QED
      BY <2>1, <2>2, <2>4, <3>1
      DEF TestRowInv, InFlight, Over, Fresh, Waiting, Recorded, HasTask
  <2>5. QED
    BY <2>3, <2>4 DEF PhaseDone
<1>3. ASSUME NEW u \in Tests PROVE TestTaskInv(r, u)'
  BY DEF RowsInv, RunInv, TypeOK, PhaseDone, TestTaskInv, StateInv, TestRowInv, InPhase,
      MainTestsOver, HasTask, Fresh, Waiting, Recorded, Over, InFlight, rows, worker,
      serverVars, bounds, ActiveStates, TerminalStates
<1>4. RunWhole(r)'
  BY DEF RowsInv, RunInv, TypeOK, PhaseDone, RunWhole, StateInv, TestRowInv,
      TestTaskInv, Fresh, Waiting, Recorded, HasTask, rows, worker, serverVars,
      bounds, ActiveStates, TerminalStates
<1>5. RunReported(r)'
  BY DEF RowsInv, RunInv, TypeOK, PhaseDone, RunReported, StateInv, TestTaskInv, rows,
      worker, serverVars, bounds, ActiveStates, TerminalStates
<1>6. RunClean(r)'
  BY DEF RowsInv, RunInv, TypeOK, PhaseDone, RunClean, StateInv, TestTaskInv, Fresh,
      rows, worker, serverVars, bounds, ActiveStates, TerminalStates
<1>7. RunLateWaits(r)'
  BY DEF RowsInv, RunInv, PhaseDone, rows, RunLateWaits, MainTestsOver
<1>8. QED
  BY <1>1, <1>2, <1>3, <1>4, <1>5, <1>6, <1>7 DEF RunInv

\* When aggregation starts, every planned test has its one result: no shutdown
\* got between the last phase and its check.
LEMMA AggregatingIsWhole ==
  ASSUME RowsInv, NEW r \in Runs, ReadyToAggregate(r), NEW u \in Tests
  PROVE  /\ u \in plan[r] => Recorded(r, u)
         /\ u \notin plan[r] => Fresh(r, u) /\ test[r][u] = "idle"
<1>1. (task[r] = "lateDone" /\ ~shutdown) \/ task[r] = "bigOutcomes"
  BY DEF ReadyToAggregate
<1>2. TestRowInv(r, u) /\ StateInv(r)
  BY DEF RowsInv, RunInv
<1>3. u \in plan[r] => Recorded(r, u)
  BY <1>1, <1>2 DEF TestRowInv, StateInv, Over
<1>4. u \notin plan[r] => Fresh(r, u) /\ test[r][u] = "idle"
  BY <1>1, <1>2 DEF TestRowInv, HasTask
<1>5. QED
  BY <1>3, <1>4

\* Starting the aggregation.
LEMMA StartAggregatingInv ==
  ASSUME RowsInv, NEW r \in Runs, StartAggregating(r)
  PROVE  RunInv(r)'
<1>1. StateInv(r)'
  BY DEF RowsInv, RunInv, TypeOK, StartAggregating, ReadyToAggregate, StateInv, worker,
      serverVars, bounds, ActiveStates, TerminalStates
<1>2. ASSUME NEW u \in Tests PROVE TestRowInv(r, u)'
  <2>1. planned' = planned /\ results' = results /\ plan' = plan /\ test' = test
    BY DEF StartAggregating
  <2>2. task'[r] = "report"
    BY DEF StartAggregating, RowsInv, TypeOK
  <2>3. QED
    BY <2>1, <2>2, AggregatingIsWhole DEF StartAggregating, TestRowInv, Fresh, Recorded, HasTask
<1>3. ASSUME NEW u \in Tests PROVE TestTaskInv(r, u)'
  BY DEF RowsInv, RunInv, TypeOK, StartAggregating, ReadyToAggregate, TestTaskInv,
      StateInv, TestRowInv, InPhase, MainTestsOver, HasTask, Fresh, Waiting, Recorded,
      Over, InFlight, worker, serverVars, bounds, ActiveStates, TerminalStates
<1>4. RunWhole(r)'
  <2>1. planned' = planned /\ results' = results
    BY DEF StartAggregating
  <2>2. QED
    BY <2>1, AggregatingIsWhole DEF StartAggregating, RunWhole, Fresh, Recorded
<1>5. RunReported(r)'
  BY DEF RowsInv, RunInv, TypeOK, StartAggregating, ReadyToAggregate, RunReported,
      StateInv, TestTaskInv, worker, serverVars, bounds, ActiveStates, TerminalStates
<1>6. RunClean(r)'
  BY DEF RowsInv, RunInv, TypeOK, StartAggregating, ReadyToAggregate, RunClean,
      StateInv, TestTaskInv, Fresh, worker, serverVars, bounds, ActiveStates,
      TerminalStates
<1>7. RunLateWaits(r)'
  BY DEF RowsInv, RunInv, TypeOK, StartAggregating, ReadyToAggregate, RunLateWaits,
      MainTestsOver, StateInv, TestRowInv, TestTaskInv, Fresh, Waiting, Recorded,
      Over, InFlight, HasTask, worker, serverVars, bounds, ActiveStates,
      TerminalStates
<1>8. QED
  BY <1>1, <1>2, <1>3, <1>4, <1>5, <1>6, <1>7 DEF RunInv

\* Writing report.json.
LEMMA WriteReportFileInv ==
  ASSUME RowsInv, NEW r \in Runs, WriteReportFile(r)
  PROVE  RunInv(r)'
<1>1. StateInv(r)'
  BY DEF RowsInv, RunInv, TypeOK, WriteReportFile, ReportOf, StateInv, rows, worker,
      serverVars, bounds, ActiveStates, TerminalStates
<1>2. ASSUME NEW u \in Tests PROVE TestRowInv(r, u)'
  <2>1. planned' = planned /\ results' = results /\ plan' = plan /\ test' = test
    BY DEF WriteReportFile, rows
  <2>2. task[r] = "report" /\ TestRowInv(r, u)
    BY DEF WriteReportFile, RowsInv, RunInv
  <2>3. task'[r] = "record"
    BY DEF WriteReportFile, RowsInv, TypeOK
  <2>4. QED
    BY <2>1, <2>2, <2>3 DEF TestRowInv, Fresh, Recorded, HasTask
<1>3. ASSUME NEW u \in Tests PROVE TestTaskInv(r, u)'
  BY DEF RowsInv, RunInv, TypeOK, WriteReportFile, ReportOf, TestTaskInv, StateInv,
      TestRowInv, InPhase, MainTestsOver, HasTask, Fresh, Waiting, Recorded, Over,
      InFlight, rows, worker, serverVars, bounds, ActiveStates, TerminalStates
<1>4. RunWhole(r)'
  BY DEF RowsInv, RunInv, TypeOK, WriteReportFile, ReportOf, RunWhole, StateInv,
      TestRowInv, TestTaskInv, Fresh, Waiting, Recorded, HasTask, rows, worker,
      serverVars, bounds, ActiveStates, TerminalStates
<1>5. RunReported(r)'
  BY DEF RowsInv, RunInv, TypeOK, WriteReportFile, ReportOf, RunReported, StateInv,
      TestTaskInv, rows, worker, serverVars, bounds, ActiveStates, TerminalStates
<1>6. RunClean(r)'
  BY DEF RowsInv, RunInv, TypeOK, WriteReportFile, ReportOf, RunClean, StateInv,
      TestTaskInv, Fresh, rows, worker, serverVars, bounds, ActiveStates,
      TerminalStates
<1>7. RunLateWaits(r)'
  BY DEF RowsInv, RunInv, TypeOK, WriteReportFile, ReportOf, RunLateWaits,
      MainTestsOver, StateInv, TestRowInv, TestTaskInv, Fresh, Waiting, Recorded,
      Over, InFlight, HasTask, rows, worker, serverVars, bounds, ActiveStates,
      TerminalStates
<1>8. QED
  BY <1>1, <1>2, <1>3, <1>4, <1>5, <1>6, <1>7 DEF RunInv

\* Recording the report.
LEMMA RecordReportInv ==
  ASSUME RowsInv, NEW r \in Runs, RecordReport(r)
  PROVE  RunInv(r)'
<1>1. StateInv(r)'
  BY DEF RowsInv, RunInv, TypeOK, RecordReport, StateInv, worker, serverVars, bounds,
      ActiveStates, TerminalStates
<1>2. ASSUME NEW u \in Tests PROVE TestRowInv(r, u)'
  <2>1. planned' = planned /\ results' = results /\ plan' = plan /\ test' = test
    BY DEF RecordReport
  <2>2. task[r] = "record" /\ TestRowInv(r, u)
    BY DEF RecordReport, RowsInv, RunInv
  <2>3. task'[r] = "complete"
    BY DEF RecordReport, RowsInv, TypeOK
  <2>4. QED
    BY <2>1, <2>2, <2>3 DEF TestRowInv, Fresh, Recorded, HasTask
<1>3. ASSUME NEW u \in Tests PROVE TestTaskInv(r, u)'
  BY DEF RowsInv, RunInv, TypeOK, RecordReport, TestTaskInv, StateInv, TestRowInv,
      InPhase, MainTestsOver, HasTask, Fresh, Waiting, Recorded, Over, InFlight,
      worker, serverVars, bounds, ActiveStates, TerminalStates
<1>4. RunWhole(r)'
  BY DEF RowsInv, RunInv, TypeOK, RecordReport, RunWhole, StateInv, TestRowInv,
      TestTaskInv, Fresh, Waiting, Recorded, HasTask, worker, serverVars, bounds,
      ActiveStates, TerminalStates
<1>5. RunReported(r)'
  BY DEF RowsInv, RunInv, TypeOK, RecordReport, RunReported, StateInv, TestTaskInv,
      worker, serverVars, bounds, ActiveStates, TerminalStates
<1>6. RunClean(r)'
  BY DEF RowsInv, RunInv, TypeOK, RecordReport, RunClean, StateInv, TestTaskInv, Fresh,
      worker, serverVars, bounds, ActiveStates, TerminalStates
<1>7. RunLateWaits(r)'
  BY DEF RowsInv, RunInv, TypeOK, RecordReport, RunLateWaits, MainTestsOver, StateInv,
      TestRowInv, TestTaskInv, Fresh, Waiting, Recorded, Over, InFlight, HasTask,
      worker, serverVars, bounds, ActiveStates, TerminalStates
<1>8. QED
  BY <1>1, <1>2, <1>3, <1>4, <1>5, <1>6, <1>7 DEF RunInv

\* Completing the run.
LEMMA MarkCompletedInv ==
  ASSUME RowsInv, NEW r \in Runs, MarkCompleted(r)
  PROVE  RunInv(r)'
<1>1. StateInv(r)'
  BY DEF RowsInv, RunInv, TypeOK, MarkCompleted, TaskEnds, StateInv, worker, serverVars,
      bounds, ActiveStates, TerminalStates
<1>2. ASSUME NEW u \in Tests PROVE TestRowInv(r, u)'
  BY DEF RowsInv, RunInv, TypeOK, MarkCompleted, TaskEnds, TestRowInv, StateInv,
      HasTask, Fresh, Waiting, Recorded, Over, InFlight, worker, serverVars, bounds,
      ActiveStates, TerminalStates
<1>3. ASSUME NEW u \in Tests PROVE TestTaskInv(r, u)'
  BY DEF RowsInv, RunInv, TypeOK, MarkCompleted, TaskEnds, TestTaskInv, StateInv,
      TestRowInv, InPhase, MainTestsOver, HasTask, Fresh, Waiting, Recorded, Over,
      InFlight, worker, serverVars, bounds, ActiveStates, TerminalStates
<1>4. RunWhole(r)'
  BY DEF RowsInv, RunInv, TypeOK, MarkCompleted, TaskEnds, RunWhole, StateInv,
      TestRowInv, TestTaskInv, Fresh, Waiting, Recorded, HasTask, worker, serverVars,
      bounds, ActiveStates, TerminalStates
<1>5. RunReported(r)'
  BY DEF RowsInv, RunInv, TypeOK, MarkCompleted, TaskEnds, RunReported, StateInv,
      TestTaskInv, worker, serverVars, bounds, ActiveStates, TerminalStates
<1>6. RunClean(r)'
  BY DEF RowsInv, RunInv, TypeOK, MarkCompleted, TaskEnds, RunClean, StateInv,
      TestTaskInv, Fresh, worker, serverVars, bounds, ActiveStates, TerminalStates
<1>7. RunLateWaits(r)'
  BY DEF RowsInv, RunInv, TypeOK, MarkCompleted, TaskEnds, RunLateWaits, MainTestsOver,
      StateInv, TestRowInv, TestTaskInv, Fresh, Waiting, Recorded, Over, InFlight,
      HasTask, worker, serverVars, bounds, ActiveStates, TerminalStates
<1>8. QED
  BY <1>1, <1>2, <1>3, <1>4, <1>5, <1>6, <1>7 DEF RunInv

\* A test task that is at work when a step of its run fails leaves its row
\* without a result; a late one leaves the main tests over.
LEMMA StepFailsTests ==
  ASSUME RowsInv, NEW r \in Runs, StepFails(r), NEW u \in Tests
  PROVE  TestTaskInv(r, u)'
<1>1. planned' = planned /\ results' = results /\ runState' = runState
  BY DEF StepFails, rows
<1>2. /\ TestTaskInv(r, u) /\ TestRowInv(r, u) /\ StateInv(r)
      /\ test[r][u] \in TestStates /\ task[r] \in FallibleSteps
  BY DEF StepFails, RowsInv, RunInv, TypeOK
<1>3. /\ task'[r] = "fail"
      /\ test'[r][u] = IF test[r][u] = "idle" THEN "idle" ELSE "aborted"
  BY DEF StepFails, AbortTests, RowsInv, TypeOK
<1>4. CASE test[r][u] = "idle"
  BY <1>3, <1>4 DEF TestTaskInv
<1>5. CASE test[r][u] = "aborted"
  BY <1>1, <1>2, <1>3, <1>5 DEF TestTaskInv, MainTestsOver, FallibleSteps
<1>6. CASE test[r][u] \in {"spawned", "executing"}
  <2>1. InPhase(r) /\ u \in plan[r]
    BY <1>2, <1>6 DEF TestTaskInv, TestRowInv, HasTask, InPhase
  <2>2. InFlight(r, u) /\ (IsLate(u) => task[r] = "late")
    BY <1>2, <1>6, <2>1 DEF TestRowInv, InPhase
  <2>3. planned[r][u] \in {"queued", "running"} /\ results[r][u] = 0
    BY <1>6, <2>2 DEF InFlight, Waiting
  <2>4. runState[r] \in {"planning", "running", "failed"}
    BY <1>2, <2>1 DEF StateInv, InPhase
  <2>5. IsLate(u) => MainTestsOver(r)
    BY <2>2, LatePhase
  <2>6. QED
    BY <1>1, <1>3, <1>6, <2>3, <2>4, <2>5 DEF TestTaskInv, MainTestsOver
<1>7. QED
  BY <1>2, <1>4, <1>5, <1>6 DEF TestStates

\* A failing step of the task or of one of its tests.
LEMMA StepFailsInv ==
  ASSUME RowsInv, NEW r \in Runs, StepFails(r)
  PROVE  RunInv(r)'
<1>1. StateInv(r)'
  BY DEF RowsInv, RunInv, TypeOK, StepFails, AbortTests, StateInv, rows, worker,
      serverVars, ActiveStates, TerminalStates, FallibleSteps
<1>2. ASSUME NEW u \in Tests PROVE TestRowInv(r, u)'
  BY DEF RowsInv, RunInv, TypeOK, StepFails, AbortTests, TestRowInv, StateInv, HasTask,
      Fresh, Waiting, Recorded, Over, InFlight, rows, worker, serverVars,
      ActiveStates, TerminalStates, FallibleSteps
<1>3. ASSUME NEW u \in Tests PROVE TestTaskInv(r, u)'
  BY StepFailsTests
<1>4. RunWhole(r)'
  BY DEF RowsInv, RunInv, TypeOK, StepFails, AbortTests, RunWhole, StateInv, TestRowInv,
      TestTaskInv, Fresh, Waiting, Recorded, HasTask, rows, worker, serverVars,
      ActiveStates, TerminalStates, FallibleSteps
<1>5. RunReported(r)'
  BY DEF RowsInv, RunInv, TypeOK, StepFails, AbortTests, RunReported, StateInv,
      TestTaskInv, rows, worker, serverVars, ActiveStates, TerminalStates,
      FallibleSteps
<1>6. RunClean(r)'
  BY DEF RowsInv, RunInv, TypeOK, StepFails, AbortTests, RunClean, StateInv,
      TestTaskInv, Fresh, rows, worker, serverVars, ActiveStates, TerminalStates,
      FallibleSteps
<1>7. RunLateWaits(r)'
  <2>1. planned' = planned /\ RunLateWaits(r)
    BY DEF RowsInv, RunInv, StepFails, rows
  <2>2. QED
    BY <2>1 DEF RunLateWaits, MainTestsOver
<1>8. QED
  BY <1>1, <1>2, <1>3, <1>4, <1>5, <1>6, <1>7 DEF RunInv

\* Where the task stands whose reply is lost, and what it had at its tests.
LEMMA ReplyLostFrom ==
  ASSUME RowsInv, NEW r \in Runs, ReplyLost(r)
  PROVE  /\ task[r] \in {"discover", "discovered", "outcomes", "bigOutcomes", "planned",
                         "lateDone", "report", "record", "complete"}
         /\ \A u \in Tests : test[r][u] = "idle"
         /\ runState[r] \in ActiveStates
<1>1. task[r] \in {"discover", "discovered", "outcomes", "bigOutcomes", "planned",
                   "lateDone", "report", "record", "complete"}
  BY DEF ReplyLost, StateLands, NextStates, ReadyToAggregate, DiscoveryLands, OutcomeLands,
     PlannedLands, ReportLands
<1>2. ASSUME NEW u \in Tests PROVE test[r][u] = "idle"
  <2>1. TestTaskInv(r, u) /\ test[r][u] \in TestStates
    BY DEF RowsInv, RunInv, TypeOK
  <2>2. QED
    BY <1>1, <2>1 DEF TestTaskInv, TestStates, InPhase
<1>3. runState[r] \in ActiveStates
  BY <1>1, OwnedIsActive DEF HasTask
<1>4. QED
  BY <1>1, <1>2, <1>3

\* Whichever statement it is that took effect, the run stays active or is
\* completed, whole and reported.
LEMMA ReplyLostRows ==
  ASSUME RowsInv, NEW r \in Runs, ReplyLost(r)
  PROVE  /\ runState'[r] \in ActiveStates \union {"completed"}
         /\ RunWhole(r)' /\ RunReported(r)' /\ RunLateWaits(r)'
<1> USE DEF RowsInv, RunInv, TypeOK
<1>1. /\ results' = results /\ task'[r] = "fail" /\ runState[r] \in ActiveStates
      /\ StateInv(r) /\ RunWhole(r) /\ RunReported(r) /\ RunLateWaits(r)
  BY ReplyLostFrom DEF ReplyLost
<1>2. CASE StateLands(r)
  <2>1. PICK s \in NextStates(r) : runState'[r] = s
    BY <1>2 DEF StateLands
  <2>2. planned' = planned /\ reportRow' = reportRow /\ reportFile' = reportFile
    BY <1>2 DEF StateLands
  <2>3. /\ s \in ActiveStates \union {"completed"}
        /\ s = "aggregating" => ReadyToAggregate(r)
        /\ s = "completed" => task[r] = "complete"
    BY DEF NextStates
  <2>4. RunWhole(r)'
    <3>1. CASE s = "aggregating"
      BY <1>1, <2>1, <2>2, <2>3, <3>1, AggregatingIsWhole DEF RunWhole, Fresh, Recorded
    <3>2. CASE s = "completed"
      BY <1>1, <2>1, <2>2, <2>3, <3>2 DEF RunWhole, StateInv, Fresh, Recorded
    <3>3. QED
      BY <2>1, <3>1, <3>2 DEF RunWhole
  <2>5. RunReported(r)'
    BY <1>1, <2>1, <2>2, <2>3 DEF RunReported
  <2>6. RunLateWaits(r)'
    BY <1>1, <2>2 DEF RunLateWaits, MainTestsOver
  <2>7. QED
    BY <2>1, <2>3, <2>4, <2>5, <2>6
<1>3. CASE PlannedLands(r)
  <2>1. runState'[r] = "planning"
    BY <1>1, <1>3 DEF PlannedLands, StateInv
  <2>2. \A t \in Tests : planned'[r][t] \in {"absent", "queued"}
    BY <1>3 DEF PlannedLands, TestRowInv, Fresh
  <2>3. QED
    BY <1>1, <2>1, <2>2 DEF RunWhole, RunReported, RunLateWaits, ActiveStates
<1>4. CASE ReportLands(r) \/ DiscoveryLands(r) \/ OutcomeLands(r)
  <2>1. planned' = planned /\ runState' = runState
    BY <1>4 DEF ReportLands, DiscoveryLands, OutcomeLands
  <2>2. QED
    BY <1>1, <2>1 DEF RunWhole, RunReported, RunLateWaits, MainTestsOver, Fresh, Recorded, ActiveStates
<1>5. QED
  BY <1>2, <1>3, <1>4 DEF ReplyLost

\* A step that took effect and whose reply is lost.
LEMMA ReplyLostInv ==
  ASSUME RowsInv, NEW r \in Runs, ReplyLost(r)
  PROVE  RunInv(r)'
<1>1. task'[r] = "fail" /\ test' = test
  BY DEF ReplyLost, RowsInv, TypeOK
<1>2. StateInv(r)' /\ RunClean(r)'
  BY <1>1, ReplyLostRows DEF StateInv, RunClean, ActiveStates
<1>3. ASSUME NEW u \in Tests PROVE TestRowInv(r, u)' /\ TestTaskInv(r, u)'
  BY <1>1, ReplyLostFrom DEF TestRowInv, TestTaskInv
<1>4. QED
  BY <1>2, <1>3, ReplyLostRows DEF RunInv

\* Failing the run.
LEMMA MarkFailedInv ==
  ASSUME RowsInv, NEW r \in Runs, MarkFailed(r)
  PROVE  RunInv(r)'
<1>1. StateInv(r)'
  BY DEF RowsInv, RunInv, TypeOK, MarkFailed, TaskEnds, StateInv, worker, serverVars,
      bounds, ActiveStates, TerminalStates
<1>2. ASSUME NEW u \in Tests PROVE TestRowInv(r, u)'
  BY DEF RowsInv, RunInv, TypeOK, MarkFailed, TaskEnds, TestRowInv, StateInv, HasTask,
      Fresh, Waiting, Recorded, Over, InFlight, worker, serverVars, bounds,
      ActiveStates, TerminalStates
<1>3. ASSUME NEW u \in Tests PROVE TestTaskInv(r, u)'
  <2>1. planned' = planned /\ results' = results /\ test' = test
    BY DEF MarkFailed
  <2>2. task[r] = "fail" /\ TestTaskInv(r, u)
    BY DEF MarkFailed, RowsInv, RunInv
  <2>3. task'[r] = "ended" /\ runState'[r] = "failed"
    BY DEF MarkFailed, TaskEnds, RowsInv, TypeOK
  <2>4. QED
    BY <2>1, <2>2, <2>3 DEF TestTaskInv, InPhase, MainTestsOver
<1>4. RunWhole(r)'
  BY DEF RowsInv, RunInv, TypeOK, MarkFailed, TaskEnds, RunWhole, StateInv, TestRowInv,
      TestTaskInv, Fresh, Waiting, Recorded, HasTask, worker, serverVars, bounds,
      ActiveStates, TerminalStates
<1>5. RunReported(r)'
  BY DEF RowsInv, RunInv, TypeOK, MarkFailed, TaskEnds, RunReported, StateInv,
      TestTaskInv, worker, serverVars, bounds, ActiveStates, TerminalStates
<1>6. RunClean(r)'
  BY DEF RowsInv, RunInv, TypeOK, MarkFailed, TaskEnds, RunClean, StateInv, TestTaskInv,
      Fresh, worker, serverVars, bounds, ActiveStates, TerminalStates
<1>7. RunLateWaits(r)'
  BY DEF RowsInv, RunInv, TypeOK, MarkFailed, TaskEnds, RunLateWaits, MainTestsOver,
      StateInv, TestRowInv, TestTaskInv, Fresh, Waiting, Recorded, Over, InFlight,
      HasTask, worker, serverVars, bounds, ActiveStates, TerminalStates
<1>8. QED
  BY <1>1, <1>2, <1>3, <1>4, <1>5, <1>6, <1>7 DEF RunInv

\* Failing to fail the run.
LEMMA MarkFailedFailsInv ==
  ASSUME RowsInv, NEW r \in Runs, MarkFailedFails(r)
  PROVE  RunInv(r)'
<1>1. StateInv(r)'
  BY DEF RowsInv, RunInv, TypeOK, MarkFailedFails, TaskEnds, StateInv, rows, worker,
      serverVars, ActiveStates, TerminalStates
<1>2. ASSUME NEW u \in Tests PROVE TestRowInv(r, u)'
  BY DEF RowsInv, RunInv, TypeOK, MarkFailedFails, TaskEnds, TestRowInv, StateInv,
      HasTask, Fresh, Waiting, Recorded, Over, InFlight, rows, worker, serverVars,
      ActiveStates, TerminalStates
<1>3. ASSUME NEW u \in Tests PROVE TestTaskInv(r, u)'
  BY DEF RowsInv, RunInv, TypeOK, MarkFailedFails, TaskEnds, TestTaskInv, StateInv,
      TestRowInv, InPhase, MainTestsOver, HasTask, Fresh, Waiting, Recorded, Over,
      InFlight, rows, worker, serverVars, ActiveStates, TerminalStates
<1>4. RunWhole(r)'
  BY DEF RowsInv, RunInv, TypeOK, MarkFailedFails, TaskEnds, RunWhole, StateInv,
      TestRowInv, TestTaskInv, Fresh, Waiting, Recorded, HasTask, rows, worker,
      serverVars, ActiveStates, TerminalStates
<1>5. RunReported(r)'
  BY DEF RowsInv, RunInv, TypeOK, MarkFailedFails, TaskEnds, RunReported, StateInv,
      TestTaskInv, rows, worker, serverVars, ActiveStates, TerminalStates
<1>6. RunClean(r)'
  BY DEF RowsInv, RunInv, TypeOK, MarkFailedFails, TaskEnds, RunClean, StateInv,
      TestTaskInv, Fresh, rows, worker, serverVars, ActiveStates, TerminalStates
<1>7. RunLateWaits(r)'
  BY DEF RowsInv, RunInv, TypeOK, MarkFailedFails, TaskEnds, RunLateWaits,
      MainTestsOver, StateInv, TestRowInv, TestTaskInv, Fresh, Waiting, Recorded,
      Over, InFlight, HasTask, rows, worker, serverVars, ActiveStates, TerminalStates
<1>8. QED
  BY <1>1, <1>2, <1>3, <1>4, <1>5, <1>6, <1>7 DEF RunInv

\* A test that finds the shutdown flag up.
LEMMA TestSkippedInv ==
  ASSUME RowsInv, NEW r \in Runs, NEW t \in Tests, TestSkipped(r, t)
  PROVE  RunInv(r)'
BY DEF TestSkipped, InPhase, RowsInv, RunInv, TypeOK, StateInv, TestRowInv, TestTaskInv,
    RunWhole, RunReported, RunClean, RunLateWaits, MainTestsOver, Fresh, Waiting,
    Recorded, Over, InFlight, HasTask, rows, worker, serverVars, bounds, ActiveStates,
    TerminalStates

\* A test that starts.
LEMMA MarkTestRunningInv ==
  ASSUME RowsInv, NEW r \in Runs, NEW t \in Tests, MarkTestRunning(r, t)
  PROVE  RunInv(r)'
BY DEF MarkTestRunning, InPhase, RowsInv, RunInv, TypeOK, StateInv, TestRowInv,
    TestTaskInv, RunWhole, RunReported, RunClean, RunLateWaits, MainTestsOver, Fresh,
    Waiting, Recorded, Over, InFlight, HasTask, worker, serverVars, bounds,
    ActiveStates, TerminalStates

\* The result of a late test is recorded only after those of the main tests.
LEMMA RecordResultWaits ==
  ASSUME RowsInv, NEW r \in Runs, NEW t \in Tests, RecordResult(r, t)
  PROVE  RunLateWaits(r)'
<1>1. PICK final \in TerminalStates : planned' = [planned EXCEPT ![r][t] = final]
  BY DEF RecordResult, RecordRows, FinalStates, TerminalStates
<1>2. MainTestsOver(r) => MainTestsOver(r)'
  BY <1>1 DEF MainTestsOver, RowsInv, TypeOK
<1>3. CASE IsLate(t)
  <2>1. task[r] = "late"
    BY <1>3 DEF RecordResult, InPhase, RowsInv, RunInv, TestRowInv, HasTask
  <2>2. QED
    BY <1>2, <2>1, LatePhase DEF RunLateWaits
<1>4. CASE ~IsLate(t)
  <2>1. \A u \in Tests : IsLate(u) => planned'[r][u] = planned[r][u]
    BY <1>1, <1>4 DEF RowsInv, TypeOK
  <2>2. QED
    BY <1>2, <2>1 DEF RunLateWaits, RowsInv, RunInv
<1>5. QED
  BY <1>3, <1>4

\* Recording the result of a test.
LEMMA RecordResultInv ==
  ASSUME RowsInv, NEW r \in Runs, NEW t \in Tests, RecordResult(r, t)
  PROVE  RunInv(r)'
<1>1. StateInv(r)'
  BY DEF RowsInv, RunInv, TypeOK, RecordResult, RecordRows, InPhase, StateInv, worker,
      serverVars, bounds, ActiveStates, TerminalStates, FinalStates
<1>2. ASSUME NEW u \in Tests PROVE TestRowInv(r, u)'
  BY DEF RowsInv, RunInv, TypeOK, RecordResult, RecordRows, InPhase, TestRowInv,
      StateInv, HasTask, Fresh, Waiting, Recorded, Over, InFlight, worker, serverVars,
      bounds, ActiveStates, TerminalStates, FinalStates
<1>3. ASSUME NEW u \in Tests PROVE TestTaskInv(r, u)'
  BY DEF RowsInv, RunInv, TypeOK, RecordResult, RecordRows, InPhase, TestTaskInv,
      StateInv, TestRowInv, MainTestsOver, HasTask, Fresh, Waiting, Recorded, Over,
      InFlight, worker, serverVars, bounds, ActiveStates, TerminalStates, FinalStates
<1>4. RunWhole(r)'
  BY DEF RowsInv, RunInv, TypeOK, RecordResult, RecordRows, InPhase, RunWhole, StateInv,
      TestRowInv, TestTaskInv, Fresh, Waiting, Recorded, HasTask, worker, serverVars,
      bounds, ActiveStates, TerminalStates, FinalStates
<1>5. RunReported(r)'
  BY DEF RowsInv, RunInv, TypeOK, RecordResult, RecordRows, InPhase, RunReported,
      StateInv, TestTaskInv, worker, serverVars, bounds, ActiveStates, TerminalStates,
      FinalStates
<1>6. RunClean(r)'
  BY DEF RowsInv, RunInv, TypeOK, RecordResult, RecordRows, InPhase, RunClean, StateInv,
      TestTaskInv, Fresh, worker, serverVars, bounds, ActiveStates, TerminalStates,
      FinalStates
<1>7. RunLateWaits(r)'
  BY RecordResultWaits
<1>8. QED
  BY <1>1, <1>2, <1>3, <1>4, <1>5, <1>6, <1>7 DEF RunInv

\* The late effect of an aborted test task finds a run that is failed, being
\* failed or stranded in its phase, and never one that is aggregated.
LEMMA AbortedTestLandsInv ==
  ASSUME RowsInv, NEW r \in Runs, NEW t \in Tests, AbortedTestLands(r, t)
  PROVE  RunInv(r)'
<1>1. PICK s \in {"running"} \union TerminalStates : planned' = [planned EXCEPT ![r][t] = s]
  BY DEF AbortedTestLands, RecordRows, FinalStates, TerminalStates
<1>2. /\ task[r] \in {"fail", "ended", "none"}
      /\ runState[r] \in {"planning", "running", "failed"}
      /\ planned[r][t] \in {"queued", "running"}
      /\ IsLate(t) => MainTestsOver(r)
  BY DEF AbortedTestLands, RowsInv, RunInv, TestTaskInv
<1>3. /\ task' = task /\ runState' = runState /\ plan' = plan /\ facts' = facts
      /\ test' = [test EXCEPT ![r][t] = "idle"]
      /\ \A u \in Tests : u # t => results'[r][u] = results[r][u]
  BY DEF AbortedTestLands, RecordRows, RowsInv, TypeOK
<1>4. \A u \in Tests : u # t => planned'[r][u] = planned[r][u]
  BY <1>1 DEF RowsInv, TypeOK
<1>5. MainTestsOver(r) => IsLate(t) /\ MainTestsOver(r)'
  <2>1. MainTestsOver(r) => IsLate(t)
    BY <1>2 DEF MainTestsOver, TerminalStates
  <2>2. QED
    BY <2>1, <1>4 DEF MainTestsOver
<1>6. StateInv(r)' /\ RunWhole(r)' /\ RunReported(r)' /\ RunClean(r)'
  BY <1>2, <1>3 DEF StateInv, RunWhole, RunReported, RunClean, RowsInv, RunInv
<1>7. ASSUME NEW u \in Tests PROVE TestRowInv(r, u)'
  BY <1>2, <1>3 DEF TestRowInv, HasTask
<1>8. ASSUME NEW u \in Tests PROVE TestTaskInv(r, u)'
  <2>1. CASE u = t
    BY <1>3, <2>1 DEF TestTaskInv, RowsInv, TypeOK
  <2>2. CASE u # t
    <3>1. test'[r][u] = test[r][u] /\ TestTaskInv(r, u)
      BY <1>3, <2>2 DEF RowsInv, RunInv, TypeOK
    <3>2. QED
      BY <1>2, <1>3, <1>4, <1>5, <2>2, <3>1 DEF TestTaskInv, InPhase
  <2>3. QED
    BY <2>1, <2>2
<1>9. RunLateWaits(r)'
  <2>1. CASE IsLate(t)
    BY <1>2, <1>5, <2>1 DEF RunLateWaits
  <2>2. CASE ~IsLate(t)
    BY <1>4, <1>5, <2>2 DEF RunLateWaits, RowsInv, RunInv
  <2>3. QED
    BY <2>1, <2>2
<1>10. QED
  BY <1>6, <1>7, <1>8, <1>9 DEF RunInv

\* The end of the worker process leaves every run without task and tests.
LEMMA WorkerGoneInv ==
  ASSUME RowsInv, WorkerGone, UNCHANGED <<rows, reportFile>>, NEW r \in Runs
  PROVE  RunInv(r)'
<1>1. StateInv(r)'
  BY DEF WorkerGone, StateInv
<1>2. ASSUME NEW u \in Tests PROVE TestRowInv(r, u)' /\ TestTaskInv(r, u)'
  BY DEF WorkerGone, TestRowInv, TestTaskInv, HasTask
<1>3. RunWhole(r)' /\ RunReported(r)'
  BY DEF WorkerGone, RowsInv, RunInv, RunWhole, RunReported, Fresh, Recorded, rows
<1>4. RunClean(r)' /\ RunLateWaits(r)'
  BY DEF RowsInv, RunInv, RunClean, RunLateWaits, MainTestsOver, Fresh, rows
<1>5. QED
  BY <1>1, <1>2, <1>3, <1>4 DEF RunInv

-----------------------------------------------------------------------------
(* The inductive invariant                                                 *)

\* The server's steps keep the invariant of every run.
LEMMA ServerRuns ==
  ASSUME RowsInv, ServerNext, NEW q \in Runs
  PROVE  RunInv(q)'
<1>1. ASSUME NEW r \in Runs, RecoverRun(r) PROVE RunInv(q)'
  <2>1. q # r => SameRun(q)
    BY <1>1 DEF RecoverRun, DeleteDiscovery, SameRun, RowsInv, TypeOK, worker, tasks, bounds
  <2>2. QED
    BY <1>1, <2>1, RecoverRunInv, Frame DEF RowsInv
<1>2. ASSUME NEW r \in Runs, SubmitRun(r) PROVE RunInv(q)'
  <2>1. q # r => SameRun(q)
    BY <1>2 DEF SubmitRun, SameRun, RowsInv, TypeOK, worker, tasks, bounds
  <2>2. QED
    BY <1>2, <2>1, SubmitRunInv, Frame DEF RowsInv
<1>3. CASE WorkerCrash
  BY <1>3, WorkerGoneInv DEF WorkerCrash
<1>4. CASE Crash
  BY <1>4, WorkerGoneInv DEF Crash
<1>5. CASE ServerStart \/ RecoverFails \/ ServerStop
  <2>1. SameRun(q)
    BY <1>5 DEF ServerStart, RecoverFails, ServerStop, SameRun, rows, worker, tasks
  <2>2. QED
    BY <2>1, Frame DEF RowsInv
<1>6. CASE ServerReady \/ CtrlC
  <2>1. SameRun(q)
    BY <1>6 DEF ServerReady, CtrlC, SameRun, RowsInv, ProcessInv, rows, tasks
  <2>2. QED
    BY <2>1, Frame DEF RowsInv
<1>7. QED
  BY <1>1, <1>2, <1>3, <1>4, <1>5, <1>6 DEF ServerNext

\* So do the steps of the run loop.
LEMMA LoopRuns ==
  ASSUME RowsInv, LoopNext, NEW q \in Runs
  PROVE  RunInv(q)'
<1>1. ASSUME NEW r \in Runs, ClaimRun(r) PROVE RunInv(q)'
  <2>1. q # r => SameRun(q)
    BY <1>1 DEF ClaimRun, SameRun, RowsInv, TypeOK
  <2>2. QED
    BY <1>1, <2>1, ClaimRunInv, Frame DEF RowsInv
<1>2. ASSUME NEW r \in Runs, ClaimLoadFails(r) PROVE RunInv(q)'
  <2>1. q # r => SameRun(q)
    BY <1>2 DEF ClaimLoadFails, SameRun, RowsInv, TypeOK, tasks
  <2>2. QED
    BY <1>2, <2>1, ClaimLoadFailsInv, Frame DEF RowsInv
<1>3. ASSUME NEW r \in Runs, JoinRun(r) PROVE RunInv(q)'
  <2>1. q # r => SameRun(q)
    BY <1>3 DEF JoinRun, SameRun, RowsInv, TypeOK, rows
  <2>2. QED
    BY <1>3, <2>1, JoinRunInv, Frame DEF RowsInv
<1>4. CASE WorkerExit
  BY <1>4, WorkerGoneInv DEF WorkerExit
<1>5. CASE ClaimPollFails \/ ClaimEnds \/ PollAgain
  <2>1. SameRun(q)
    BY <1>5 DEF ClaimPollFails, ClaimEnds, PollAgain, SameRun, rows, tasks
  <2>2. QED
    BY <2>1, Frame DEF RowsInv
<1>6. QED
  BY <1>1, <1>2, <1>3, <1>4, <1>5 DEF LoopNext

\* So do those of a run's task.
LEMMA TaskRuns ==
  ASSUME RowsInv, NEW r \in Runs, TaskStep(r) \/ TaskFailure(r), NEW q \in Runs
  PROVE  RunInv(q)'
<1>1. CASE q = r
  BY <1>1, PrepareInv, InsertDiscoveryInv, LeaveInv, TooBigInv, StartPlanningInv,
     SetOutcomeInv, InsertPlannedInv, StartMainInv, StartLateInv, PhaseDoneInv,
     StartAggregatingInv, WriteReportFileInv, RecordReportInv, MarkCompletedInv,
     MarkFailedInv, PrepareFailsInv, StepFailsInv, ReplyLostInv,
     MarkFailedFailsInv
  DEF TaskStep, TaskFailure
<1>2. CASE q # r
  BY <1>2, TaskIsolation, Frame DEF RowsInv
<1>3. QED
  BY <1>1, <1>2

\* So do those of its test tasks.
LEMMA TestRuns ==
  ASSUME RowsInv, NEW r \in Runs, NEW t \in Tests, TestStep(r, t) \/ AbortedTestLands(r, t),
         NEW q \in Runs
  PROVE  RunInv(q)'
<1>1. CASE q = r
  BY <1>1, TestSkippedInv, MarkTestRunningInv, RecordResultInv, AbortedTestLandsInv
  DEF TestStep
<1>2. CASE q # r
  BY <1>2, TestIsolation, Frame DEF RowsInv
<1>3. QED
  BY <1>1, <1>2

\* The empty database of a first start satisfies the invariant.
LEMMA InitInv == Init => RowsInv
<1> SUFFICES ASSUME Init PROVE RowsInv
  OBVIOUS
<1>1. TypeOK
  BY InitTypes
<1>2. ProcessInv
  BY DEF Init, ProcessInv
<1>3. ASSUME NEW r \in Runs PROVE RunInv(r)
  <2>1. StateInv(r) /\ RunWhole(r) /\ RunReported(r) /\ RunLateWaits(r)
    BY <1>3 DEF Init, StateInv, RunWhole, RunReported, RunLateWaits
  <2>2. RunClean(r)
    BY <1>3 DEF Init, RunClean, Fresh
  <2>3. ASSUME NEW t \in Tests PROVE TestRowInv(r, t) /\ TestTaskInv(r, t)
    BY <1>3 DEF Init, TestRowInv, TestTaskInv, HasTask
  <2>4. QED
    BY <2>1, <2>2, <2>3 DEF RunInv
<1>4. QED
  BY <1>1, <1>2, <1>3 DEF RowsInv

\* Every step keeps the invariant.
LEMMA NextInv == RowsInv /\ [Next]_vars => RowsInv'
<1> SUFFICES ASSUME RowsInv, [Next]_vars PROVE RowsInv'
  OBVIOUS
<1>1. TypeOK'
  BY NextTypes DEF RowsInv
<1>2. ProcessInv'
  <2>1. CASE UNCHANGED vars
    BY <2>1 DEF RowsInv, ProcessInv, vars, rows, tasks, worker, serverVars
  <2>2. CASE Next
    BY <2>2, ServerProcess, LoopProcess, TaskProcess, TestProcess DEF Next, RowsInv
  <2>3. QED
    BY <2>1, <2>2
<1>3. ASSUME NEW q \in Runs PROVE RunInv(q)'
  <2>1. CASE UNCHANGED vars
    <3>1. SameRun(q)
      BY <2>1 DEF SameRun, vars, rows, tasks, worker
    <3>2. QED
      BY <3>1, Frame DEF RowsInv
  <2>2. CASE Next
    BY <2>2, ServerRuns, LoopRuns, TaskRuns, TestRuns DEF Next
  <2>3. QED
    BY <2>1, <2>2
<1>4. QED
  BY <1>1, <1>2, <1>3 DEF RowsInv

\* The inductive invariant always holds.
THEOREM InvariantHolds == Spec => []RowsInv
<1>1. QED
  BY InitInv, NextInv, PTL DEF Spec

-----------------------------------------------------------------------------
(* What the invariant implies                                              *)

\* No run is aggregated or completed over missing or doubled results.
THEOREM AggregatedWhole == Spec => []AggregatedRunsAreWhole
<1>1. RowsInv => AggregatedRunsAreWhole
  BY DEF RowsInv, RunInv, RunWhole, Fresh, Recorded, AggregatedRunsAreWhole
<1>2. QED
  BY <1>1, InvariantHolds, PTL

\* A completed run has a report, of exactly its own results.
THEOREM CompletedReported == Spec => []CompletedRunsAreReported
<1>1. RowsInv => CompletedRunsAreReported
  BY DEF RowsInv, RunInv, RunReported, CompletedRunsAreReported
<1>2. QED
  BY <1>1, InvariantHolds, PTL

\* Nothing of an earlier try is left of a run that is queued.
THEOREM QueuedClean == Spec => []QueuedRunsAreClean
<1>1. RowsInv => QueuedRunsAreClean
  BY DEF RowsInv, RunInv, RunClean, Fresh, QueuedRunsAreClean
<1>2. QED
  BY <1>1, InvariantHolds, PTL

\* Late tests wait for the main tests of their run, even those of a phase that
\* was aborted.
THEOREM LateWaits == Spec => []LateTestsWaitForMain
<1>1. RowsInv => LateTestsWaitForMain
  BY DEF RowsInv, RunInv, RunLateWaits, MainTestsOver, LateTestsWaitForMain
<1>2. QED
  BY <1>1, InvariantHolds, PTL

\* A task works only on an active run or on the one it completed without
\* learning of it, and none works during recovery.
THEOREM TasksOwn == Spec => []TasksOwnActiveRuns
<1>1. RowsInv => TasksOwnActiveRuns
  BY OwnedIsActive DEF RowsInv, ProcessInv, HasTask, TasksOwnActiveRuns
<1>2. QED
  BY <1>1, InvariantHolds, PTL
=============================================================================
