------------------------ MODULE RunLifecyclePromises ------------------------
(***************************************************************************)
(* What a client of the service relies on, proved for every set of runs,   *)
(* ids and hosts and every bound of RunLifecycle: the outcome of every     *)
(* requested id, the failure of runs by errors alone, the finality of      *)
(* completed runs, and the abstract queue of runs RunQueue.                *)
(***************************************************************************)
EXTENDS RunLifecycleProofs

-----------------------------------------------------------------------------
(* Errors are only counted up                                              *)

\* No step forgets an error.
LEMMA ErrorsGrow ==
  ASSUME TypeOK, [Next]_vars
  PROVE  errors <= errors'
<1> USE DEF TypeOK, bounds
<1>1. CASE ServerNext
  BY <1>1 DEF ServerNext, ServerStart, RecoverRun, RecoverFails, ServerReady, SubmitRun,
     CtrlC, ServerStop, WorkerCrash, Crash
<1>2. CASE LoopNext
  BY <1>2 DEF LoopNext, ClaimRun, ClaimLoadFails, ClaimPollFails, ClaimEnds, PollAgain,
     JoinRun, WorkerExit
<1>3. ASSUME NEW r \in Runs, TaskStep(r) PROVE errors <= errors'
  BY <1>3 DEF TaskStep, Prepare, InsertDiscovery, Leave, TooBig, StartPlanning, SetOutcome,
     InsertPlanned, StartMain, StartLate, PhaseDone, StartAggregating, WriteReportFile,
     RecordReport, MarkCompleted, MarkFailed
<1>4. ASSUME NEW r \in Runs, TaskFailure(r) PROVE errors <= errors'
  BY <1>4 DEF TaskFailure, PrepareFails, StepFails, ReplyLost, MarkFailedFails
<1>5. ASSUME NEW r \in Runs, NEW t \in Tests, TestStep(r, t) \/ AbortedTestLands(r, t)
      PROVE  errors <= errors'
  BY <1>5 DEF TestStep, TestSkipped, MarkTestRunning, RecordResult, AbortedTestLands
<1>6. CASE UNCHANGED vars
  BY <1>6 DEF vars
<1>7. QED
  BY <1>1, <1>2, <1>3, <1>4, <1>5, <1>6 DEF Next

-----------------------------------------------------------------------------
(* Outcomes and errors of the run a step is about                          *)

\* The tests of a run that have a row in planned_tests.
Present(r) == {t \in Tests : planned[r][t] # "absent"}

KeepsRequests(q) ==
  /\ runState'[q] = runState[q] /\ outcome'[q] = outcome[q] /\ facts'[q] = facts[q]
  /\ task'[q] = task[q] /\ plan'[q] = plan[q] /\ todo'[q] = todo[q]
  /\ \A t \in Tests : planned'[q][t] = "absent" <=> planned[q][t] = "absent"

\* A run of which a step keeps these keeps the two invariants.
LEMMA RequestsFrame ==
  ASSUME TypeOK, errors <= errors', errors' \in Nat, NEW q \in Runs,
         RequestsInv(q), ErrorsInv(q), KeepsRequests(q)
  PROVE  RequestsInv(q)' /\ ErrorsInv(q)'
<1> USE DEF KeepsRequests
<1>1. Present(q)' = Present(q)
  BY DEF Present
<1>2. RequestsInv(q)'
  BY <1>1 DEF RequestsInv, Present, OutcomeOf
<1>3. ErrorsInv(q)'
  BY DEF ErrorsInv, TypeOK
<1>4. QED
  BY <1>2, <1>3

\* A step that leaves a run alone keeps them.
LEMMA SameRunKeeps ==
  ASSUME NEW q \in Runs, SameRun(q)
  PROVE  KeepsRequests(q)
<1>1. QED
  BY DEF SameRun, KeepsRequests

\* A run whose task is past planning has rows for the tests of its plan, and
\* for no others.
LEMMA PlanIsPresent ==
  ASSUME RowsInv, NEW r \in Runs,
         task[r] \in {"planned", "main", "mainDone", "late", "lateDone", "report", "record", "complete"}
  PROVE  Present(r) = plan[r]
<1>1. plan[r] \subseteq Tests
  BY DEF RowsInv, TypeOK
<1>2. ASSUME NEW t \in Tests, t \in plan[r] PROVE planned[r][t] # "absent"
  <2>1. TestRowInv(r, t)
    BY DEF RowsInv, RunInv
  <2>2. QED
    BY <1>2, <2>1 DEF TestRowInv, Waiting, Recorded, Over, InFlight, TerminalStates
<1>3. ASSUME NEW t \in Tests, t \notin plan[r] PROVE planned[r][t] = "absent"
  <2>1. TestRowInv(r, t)
    BY DEF RowsInv, RunInv
  <2>2. QED
    BY <1>3, <2>1 DEF TestRowInv, Fresh, HasTask
<1>4. QED
  BY <1>1, <1>2, <1>3 DEF Present

\* A too big target has no plan and no rows of planned tests.
LEMMA BigIsEmpty ==
  ASSUME RowsInv, NEW r \in Runs, task[r] = "bigOutcomes"
  PROVE  plan[r] = {} /\ Present(r) = {}
<1>1. plan[r] = {}
  BY DEF RowsInv, RunInv, StateInv
<1>2. ASSUME NEW t \in Tests PROVE planned[r][t] = "absent"
  <2>1. TestRowInv(r, t)
    BY DEF RowsInv, RunInv
  <2>2. QED
    BY <2>1 DEF TestRowInv, Fresh
<1>3. QED
  BY <1>1, <1>2 DEF Present

\* The step of planning that sets one outcome.
LEMMA SetOutcomeRequests ==
  ASSUME RowsInv, NEW r \in Runs, RequestsInv(r), SetOutcome(r)
  PROVE  RequestsInv(r)'
<1> DEFINE id == CHOOSE i \in todo[r] : TRUE
<1>1. /\ runState[r] \in {"planning", "discovering"}
      /\ task[r] \in {"outcomes", "bigOutcomes"}
  BY DEF SetOutcome, RowsInv, RunInv, StateInv
<1>2. UNCHANGED <<runState, planned, task, plan>>
  BY DEF SetOutcome
<1>3. todo'[r] = todo[r] \ {id}
  BY DEF SetOutcome, RowsInv, TypeOK
<1>4. id \in Ids
  BY DEF SetOutcome, RowsInv, TypeOK
<1>5. \A i \in Ids : outcome'[r][i] = IF i = id THEN OutcomeOf(id, plan[r]) ELSE outcome[r][i]
  BY <1>4 DEF SetOutcome, RowsInv, TypeOK
<1>6. \A i \in Ids \ todo'[r] : outcome'[r][i] = OutcomeOf(i, plan[r])
  BY <1>1, <1>3, <1>5 DEF RequestsInv
<1>7. QED
  BY <1>1, <1>2, <1>6 DEF RequestsInv, OutcomeOf

\* A step whose reply is lost: only an update of runs.state brings the run to
\* a state in which its outcomes are claimed, past the insert of its tests.
LEMMA ReplyLostRequests ==
  ASSUME RowsInv, NEW r \in Runs, RequestsInv(r), ReplyLost(r)
  PROVE  RequestsInv(r)'
<1> USE DEF RowsInv, TypeOK
<1>1. task'[r] = "fail"
  BY DEF ReplyLost
<1>2. SUFFICES ASSUME runState'[r] \in {"running", "aggregating", "completed"}, NEW i \in Ids
               PROVE  outcome'[r][i] = OutcomeOf(i, Present(r)')
  BY <1>1 DEF RequestsInv, Present, OutcomeOf
<1>3. CASE StateLands(r)
  <2>1. task[r] \in {"planned", "lateDone", "complete", "bigOutcomes"}
    BY <1>2, <1>3 DEF StateLands, NextStates, ReadyToAggregate
  <2>2. outcome[r][i] = OutcomeOf(i, plan[r])
    BY <1>3, <2>1 DEF RequestsInv, StateLands, NextStates, ReadyToAggregate
  <2>3. Present(r) = plan[r]
    BY <2>1, PlanIsPresent, BigIsEmpty
  <2>4. outcome' = outcome /\ Present(r)' = Present(r)
    BY <1>3 DEF StateLands, Present
  <2>5. QED
    BY <2>2, <2>3, <2>4
<1>4. CASE ReportLands(r)
  <2>1. UNCHANGED <<runState, outcome, planned>>
    BY <1>4 DEF ReportLands
  <2>2. Present(r)' = Present(r)
    BY <2>1 DEF Present
  <2>3. QED
    BY <1>2, <2>1, <2>2 DEF RequestsInv, Present
<1>5. CASE DiscoveryLands(r) \/ OutcomeLands(r) \/ PlannedLands(r)
  <2>1. runState' = runState /\ task[r] \in {"discover", "outcomes", "bigOutcomes"}
    BY <1>5 DEF DiscoveryLands, OutcomeLands, PlannedLands
  <2>2. runState[r] \in {"discovering", "planning"}
    BY <2>1 DEF RunInv, StateInv
  <2>3. QED
    BY <1>2, <2>1, <2>2
<1>6. QED
  BY <1>3, <1>4, <1>5 DEF ReplyLost

\* The steps of a run's task keep the outcomes right.
LEMMA TaskRequests ==
  ASSUME RowsInv, NEW r \in Runs, RequestsInv(r), TaskStep(r) \/ TaskFailure(r)
  PROVE  RequestsInv(r)'
<1> USE DEF RowsInv, TypeOK
<1>1. CASE Prepare(r)
  BY <1>1 DEF Prepare, RequestsInv, OutcomeOf, rows, RunInv, StateInv
<1>2. CASE InsertDiscovery(r)
  BY <1>2 DEF InsertDiscovery, RequestsInv, OutcomeOf, RunInv, StateInv
<1>3. CASE Leave(r)
  BY <1>3 DEF Leave, TaskEnds, RequestsInv, OutcomeOf, rows
<1>4. CASE TooBig(r)
  BY <1>4 DEF TooBig, RequestsInv, OutcomeOf, rows, RunInv, StateInv
<1>5. CASE StartPlanning(r)
  BY <1>5 DEF StartPlanning, RequestsInv, OutcomeOf, RunInv, StateInv
<1>6. CASE SetOutcome(r)
  BY <1>6, SetOutcomeRequests
<1>7. CASE InsertPlanned(r)
  <2>1. task'[r] = "planned" /\ runState'[r] = "planning" /\ UNCHANGED <<outcome, plan>>
    BY <1>7 DEF InsertPlanned, RunInv, StateInv
  <2>2. \A i \in Ids : outcome[r][i] = OutcomeOf(i, plan[r])
    BY <1>7 DEF InsertPlanned, RequestsInv
  <2>3. QED
    BY <2>1, <2>2 DEF RequestsInv, OutcomeOf
<1>8. CASE StartMain(r)
  <2>1. task'[r] \in {"main", "mainDone"} /\ UNCHANGED <<outcome, plan, planned>>
    BY <1>8 DEF StartMain
  <2>2. \A i \in Ids : outcome[r][i] = OutcomeOf(i, plan[r])
    BY <1>8 DEF StartMain, RequestsInv
  <2>3. Present(r) = plan[r]
    BY <1>8, PlanIsPresent DEF StartMain
  <2>4. QED
    BY <2>1, <2>2, <2>3 DEF RequestsInv, OutcomeOf, Present
<1>9. CASE StartLate(r)
  BY <1>9 DEF StartLate, RequestsInv, OutcomeOf, rows
<1>10. CASE PhaseDone(r)
  BY <1>10 DEF PhaseDone, RequestsInv, OutcomeOf, rows
<1>11. CASE StartAggregating(r)
  <2>1. task'[r] = "report" /\ UNCHANGED <<outcome, plan, planned>>
    BY <1>11 DEF StartAggregating
  <2>2. \A i \in Ids : outcome[r][i] = OutcomeOf(i, plan[r])
    BY <1>11 DEF StartAggregating, ReadyToAggregate, RequestsInv
  <2>3. Present(r) = plan[r]
    BY <1>11, PlanIsPresent, BigIsEmpty DEF StartAggregating, ReadyToAggregate
  <2>4. QED
    BY <2>1, <2>2, <2>3 DEF RequestsInv, OutcomeOf, Present
<1>12. CASE WriteReportFile(r)
  BY <1>12 DEF WriteReportFile, RequestsInv, OutcomeOf, rows
<1>13. CASE RecordReport(r)
  BY <1>13 DEF RecordReport, RequestsInv, OutcomeOf
<1>14. CASE MarkCompleted(r)
  <2>1. task'[r] = "ended" /\ UNCHANGED <<outcome, planned>>
    BY <1>14 DEF MarkCompleted, TaskEnds
  <2>2. \A i \in Ids : outcome[r][i] = OutcomeOf(i, Present(r))
    BY <1>14, PlanIsPresent DEF MarkCompleted, RequestsInv, OutcomeOf
  <2>3. QED
    BY <2>1, <2>2 DEF RequestsInv, OutcomeOf, Present
<1>15. CASE MarkFailed(r)
  BY <1>15 DEF MarkFailed, TaskEnds, RequestsInv, OutcomeOf
<1>16. CASE PrepareFails(r)
  BY <1>16 DEF PrepareFails, TaskEnds, RequestsInv, OutcomeOf, rows
<1>17. CASE StepFails(r)
  BY <1>17 DEF StepFails, RequestsInv, OutcomeOf, rows
<1>18. CASE MarkFailedFails(r)
  BY <1>18 DEF MarkFailedFails, TaskEnds, RequestsInv, OutcomeOf, rows
<1>19. CASE ReplyLost(r)
  BY <1>19, ReplyLostRequests
<1>20. QED
  BY <1>1, <1>2, <1>3, <1>4, <1>5, <1>6, <1>7, <1>8, <1>9, <1>10, <1>11, <1>12, <1>13,
      <1>14, <1>15, <1>16, <1>17, <1>18, <1>19 DEF TaskStep, TaskFailure

\* They come to the error handling through an error only.
LEMMA TaskErrors ==
  ASSUME RowsInv, NEW r \in Runs, ErrorsInv(r), TaskStep(r) \/ TaskFailure(r)
  PROVE  ErrorsInv(r)'
<1> USE DEF RowsInv, TypeOK, ErrorsInv
<1>1. CASE Prepare(r) \/ InsertDiscovery(r)
  BY <1>1 DEF Prepare, InsertDiscovery, rows, bounds
<1>2. CASE Leave(r) \/ TooBig(r) \/ StartPlanning(r) \/ SetOutcome(r) \/ InsertPlanned(r)
  BY <1>2 DEF Leave, TaskEnds, TooBig, StartPlanning, SetOutcome, InsertPlanned, rows, bounds
<1>3. CASE StartMain(r) \/ StartLate(r) \/ PhaseDone(r) \/ StartAggregating(r)
  BY <1>3 DEF StartMain, StartLate, PhaseDone, StartAggregating, rows, bounds
<1>4. CASE WriteReportFile(r) \/ RecordReport(r) \/ MarkCompleted(r) \/ MarkFailed(r)
  BY <1>4 DEF WriteReportFile, RecordReport, MarkCompleted, MarkFailed, TaskEnds, rows, bounds
<1>5. CASE PrepareFails(r) \/ StepFails(r) \/ MarkFailedFails(r)
  BY <1>5 DEF PrepareFails, StepFails, MarkFailedFails, TaskEnds, rows
<1>6. CASE ReplyLost(r)
  BY <1>6 DEF ReplyLost
<1>7. QED
  BY <1>1, <1>2, <1>3, <1>4, <1>5, <1>6 DEF TaskStep, TaskFailure

\* A test task writes only rows that planning inserted.
LEMMA TestKeepsRequests ==
  ASSUME RowsInv, NEW r \in Runs, NEW t \in Tests, TestStep(r, t) \/ AbortedTestLands(r, t)
  PROVE  KeepsRequests(r)
<1> USE DEF RowsInv, TypeOK
<1>1. CASE TestSkipped(r, t)
  BY <1>1 DEF TestSkipped, KeepsRequests, rows
<1>2. CASE ~TestSkipped(r, t)
  <2>1. planned[r][t] # "absent"
    <3>1. TestRowInv(r, t) /\ TestTaskInv(r, t)
      BY DEF RunInv
    <3>2. CASE AbortedTestLands(r, t)
      BY <3>1, <3>2 DEF AbortedTestLands, TestTaskInv
    <3>3. CASE MarkTestRunning(r, t) \/ RecordResult(r, t)
      <4>1. InPhase(r) /\ test[r][t] \in {"spawned", "executing"}
        BY <3>3 DEF MarkTestRunning, RecordResult
      <4>2. QED
        BY <3>1, <4>1 DEF TestRowInv, InPhase, HasTask, InFlight, Waiting
    <3>4. QED
      BY <1>2, <3>2, <3>3 DEF TestStep
  <2>2. /\ UNCHANGED <<runState, outcome, facts, task, plan, todo>>
        /\ \E s \in {"running"} \union TerminalStates : planned' = [planned EXCEPT ![r][t] = s]
    BY <1>2 DEF TestStep, MarkTestRunning, RecordResult, AbortedTestLands, RecordRows,
       FinalStates, TerminalStates
  <2>3. QED
    BY <2>1, <2>2 DEF KeepsRequests, TerminalStates
<1>3. QED
  BY <1>1, <1>2

\* The server's steps keep the two invariants of every run: one that is queued,
\* or whose task is gone, has little of them left to keep.
LEMMA ServerRequests ==
  ASSUME RowsInv, NEW q \in Runs, RequestsInv(q), ErrorsInv(q), errors <= errors', errors' \in Nat,
         ServerNext
  PROVE  RequestsInv(q)' /\ ErrorsInv(q)'
<1> USE DEF RowsInv, TypeOK
<1>1. ASSUME NEW r \in Runs, RecoverRun(r) PROVE RequestsInv(q)' /\ ErrorsInv(q)'
  <2>1. q # r => SameRun(q)
    BY <1>1 DEF RecoverRun, DeleteDiscovery, SameRun, worker, tasks, bounds
  <2>2. CASE q = r
    <3>1. task'[r] = "none" /\ runState'[r] = "queued"
      BY <1>1 DEF RecoverRun, ProcessInv, tasks
    <3>2. QED
      BY <2>2, <3>1 DEF RequestsInv, ErrorsInv
  <2>3. QED
    BY <2>1, <2>2, SameRunKeeps, RequestsFrame
<1>2. ASSUME NEW r \in Runs, SubmitRun(r) PROVE RequestsInv(q)' /\ ErrorsInv(q)'
  <2>1. q # r => SameRun(q)
    BY <1>2 DEF SubmitRun, SameRun, worker, tasks, bounds
  <2>2. CASE q = r
    <3>1. task'[r] \in {"none", "ended"} /\ runState'[r] = "queued"
      BY <1>2, OwnedIsActive DEF SubmitRun, tasks, HasTask, ActiveStates
    <3>2. QED
      BY <2>2, <3>1 DEF RequestsInv, ErrorsInv
  <2>3. QED
    BY <2>1, <2>2, SameRunKeeps, RequestsFrame
<1>3. CASE WorkerCrash \/ Crash
  <2>1. WorkerGone /\ UNCHANGED rows
    BY <1>3 DEF WorkerCrash, Crash
  <2>2. QED
    BY <2>1 DEF WorkerGone, rows, RequestsInv, ErrorsInv, OutcomeOf
<1>4. CASE ServerStart \/ RecoverFails \/ ServerReady \/ CtrlC \/ ServerStop
  <2>1. KeepsRequests(q)
    BY <1>4 DEF ServerStart, RecoverFails, ServerReady, CtrlC, ServerStop, KeepsRequests,
       rows, worker, tasks
  <2>2. QED
    BY <2>1, RequestsFrame
<1>5. QED
  BY <1>1, <1>2, <1>3, <1>4 DEF ServerNext

\* The steps of the run loop keep the two invariants of every run.
LEMMA LoopRequests ==
  ASSUME RowsInv, NEW q \in Runs, RequestsInv(q), ErrorsInv(q), errors <= errors', errors' \in Nat,
         LoopNext
  PROVE  RequestsInv(q)' /\ ErrorsInv(q)'
<1> USE DEF RowsInv, TypeOK
<1>1. ASSUME NEW r \in Runs, ClaimRun(r) PROVE RequestsInv(q)' /\ ErrorsInv(q)'
  <2>1. q # r => SameRun(q)
    BY <1>1 DEF ClaimRun, SameRun
  <2>2. CASE q = r
    <3>1. task'[r] = "prepare" /\ runState'[r] = "discovering" /\ facts' = facts
      BY <1>1 DEF ClaimRun
    <3>2. ~facts[r]
      BY <1>1 DEF ClaimRun, OldestQueued, RunInv, RunClean
    <3>3. QED
      BY <2>2, <3>1, <3>2 DEF RequestsInv, ErrorsInv
  <2>3. QED
    BY <2>1, <2>2, SameRunKeeps, RequestsFrame
<1>2. ASSUME NEW r \in Runs, ClaimLoadFails(r) PROVE RequestsInv(q)' /\ ErrorsInv(q)'
  <2>1. q # r => SameRun(q)
    BY <1>2 DEF ClaimLoadFails, SameRun, tasks
  <2>2. CASE q = r
    <3>1. task'[r] \in {"none", "ended"} /\ runState'[r] = "discovering"
      BY <1>2, QueuedIsIdle DEF ClaimLoadFails, OldestQueued, tasks
    <3>2. QED
      BY <2>2, <3>1 DEF RequestsInv, ErrorsInv
  <2>3. QED
    BY <2>1, <2>2, SameRunKeeps, RequestsFrame
<1>3. ASSUME NEW r \in Runs, JoinRun(r) PROVE RequestsInv(q)' /\ ErrorsInv(q)'
  <2>1. q # r => SameRun(q)
    BY <1>3 DEF JoinRun, SameRun, rows
  <2>2. CASE q = r
    BY <1>3, <2>2 DEF JoinRun, rows, bounds, RequestsInv, ErrorsInv, OutcomeOf
  <2>3. QED
    BY <2>1, <2>2, SameRunKeeps, RequestsFrame
<1>4. CASE WorkerExit
  BY <1>4 DEF WorkerExit, WorkerGone, rows, RequestsInv, ErrorsInv, OutcomeOf
<1>5. CASE ClaimPollFails \/ ClaimEnds \/ PollAgain
  <2>1. KeepsRequests(q)
    BY <1>5 DEF ClaimPollFails, ClaimEnds, PollAgain, KeepsRequests, rows, tasks
  <2>2. QED
    BY <2>1, RequestsFrame
<1>6. QED
  BY <1>1, <1>2, <1>3, <1>4, <1>5 DEF LoopNext

-----------------------------------------------------------------------------
(* The inductive invariant                                                 *)

\* Every step keeps the outcomes and the reasons of failures.
LEMMA NextRequests ==
  ASSUME IInv, [Next]_vars, NEW q \in Runs
  PROVE  RequestsInv(q)' /\ ErrorsInv(q)'
<1> USE DEF IInv
<1>1. errors <= errors' /\ errors' \in Nat
  BY ErrorsGrow, NextTypes DEF RowsInv, TypeOK
<1>2. TypeOK
  BY DEF RowsInv
<1>3. CASE UNCHANGED vars
  <2>1. KeepsRequests(q)
    BY <1>3 DEF vars, rows, tasks, KeepsRequests
  <2>2. QED
    BY <1>1, <1>2, <2>1, RequestsFrame
<1>4. CASE ServerNext \/ LoopNext
  BY <1>1, <1>4, ServerRequests, LoopRequests
<1>5. ASSUME NEW r \in Runs, TaskStep(r) \/ TaskFailure(r)
      PROVE  RequestsInv(q)' /\ ErrorsInv(q)'
  <2>1. CASE q = r
    BY <1>5, <2>1, TaskRequests, TaskErrors
  <2>2. CASE q # r
    BY <1>1, <1>2, <1>5, <2>2, TaskIsolation, SameRunKeeps, RequestsFrame
  <2>3. QED
    BY <2>1, <2>2
<1>6. ASSUME NEW r \in Runs, NEW t \in Tests, TestStep(r, t) \/ AbortedTestLands(r, t)
      PROVE  RequestsInv(q)' /\ ErrorsInv(q)'
  <2>1. KeepsRequests(q)
    BY <1>2, <1>6, TestIsolation, SameRunKeeps, TestKeepsRequests
  <2>2. QED
    BY <1>1, <1>2, <2>1, RequestsFrame
<1>7. QED
  BY <1>3, <1>4, <1>5, <1>6 DEF Next

\* The whole inductive invariant always holds: rows, outcomes and errors.
THEOREM PromisesInvariant == Spec => []IInv
<1>1. Init => \A r \in Runs : RequestsInv(r) /\ ErrorsInv(r)
  BY DEF Init, RequestsInv, ErrorsInv
<1>2. Init => IInv
  BY <1>1, InitInv DEF IInv
<1>3. IInv /\ [Next]_vars => IInv'
  BY NextInv, NextRequests DEF IInv
<1>4. QED
  BY <1>2, <1>3, PTL DEF Spec

\* The outcome of every requested id agrees with the planned tests of a run
\* that is past planning.
THEOREM OutcomesMatch == Spec => []OutcomesMatchPlan
<1>1. ASSUME IInv PROVE OutcomesMatchPlan
  <2>1. SUFFICES ASSUME NEW r \in Runs, runState[r] \in {"running", "aggregating", "completed"},
                        NEW i \in Ids
                 PROVE  /\ outcome[r][i] = "accepted" <=> i \in Probes
                        /\ outcome[r][i] = "expanded_to_planned_tests" <=>
                             \E t \in Tests : IdOf(t) = i /\ planned[r][t] # "absent"
    BY DEF OutcomesMatchPlan
  <2>2. outcome[r][i] = OutcomeOf(i, {t \in Tests : planned[r][t] # "absent"})
    BY <1>1, <2>1 DEF IInv, RequestsInv
  <2>3. \A t \in Tests : IdOf(t) \notin Probes
    BY DEF Tests, IdOf
  <2>4. QED
    BY <2>2, <2>3 DEF OutcomeOf
<1>2. QED
  BY <1>1, PromisesInvariant, PTL

\* Only an error fails a run: no shutdown, no crash and no recovery does.
THEOREM ErrorsFail == Spec => []OnlyErrorsFailRuns
<1>1. IInv => OnlyErrorsFailRuns
  BY DEF IInv, ErrorsInv, OnlyErrorsFailRuns
<1>2. QED
  BY <1>1, PromisesInvariant, PTL

-----------------------------------------------------------------------------
(* Completed runs are final                                                *)

FinalAt(r) ==
  /\ runState'[r] = "completed" \/ (task[r] = "fail" /\ runState'[r] = "failed")
  /\ planned'[r] = planned[r] /\ results'[r] = results[r]
  /\ outcome'[r] = outcome[r] /\ dead'[r] = dead[r]
  /\ reportRow'[r] = reportRow[r] /\ reportFile'[r] = reportFile[r]

\* A step that leaves the rows and the report of a completed run alone.
LEMMA SameRunIsFinal ==
  ASSUME NEW q \in Runs, runState[q] = "completed", SameRun(q)
  PROVE  FinalAt(q)
<1>1. QED
  BY DEF SameRun, FinalAt

\* A completed run has no task but one at its error handling, no test task and
\* no place in a recovery.
LEMMA CompletedIsIdle ==
  ASSUME RowsInv, NEW q \in Runs, runState[q] = "completed"
  PROVE  /\ task[q] \in {"none", "ended", "fail"} /\ q \notin recovering
         /\ \A t \in Tests : test[q][t] = "idle"
<1>1. task[q] \in {"none", "ended", "fail"}
  BY OwnedIsActive DEF HasTask, ActiveStates
<1>2. q \notin recovering
  BY DEF RowsInv, ProcessInv, ActiveStates
<1>3. ASSUME NEW t \in Tests PROVE test[q][t] = "idle"
  <2>1. TestTaskInv(q, t) /\ test[q][t] \in TestStates
    BY DEF RowsInv, RunInv, TypeOK
  <2>2. QED
    BY <1>1, <2>1 DEF TestTaskInv, TestStates, InPhase
<1>4. QED
  BY <1>1, <1>2, <1>3

\* The server and the run loop change no row of a completed run.
LEMMA ProcessesAreFinal ==
  ASSUME RowsInv, ServerNext \/ LoopNext, NEW q \in Runs, runState[q] = "completed"
  PROVE  FinalAt(q)
<1> USE DEF RowsInv, TypeOK
<1>1. ASSUME NEW r \in Runs, RecoverRun(r) PROVE FinalAt(q)
  <2>1. q # r
    BY <1>1, CompletedIsIdle DEF RecoverRun
  <2>2. QED
    BY <1>1, <2>1 DEF RecoverRun, DeleteDiscovery, FinalAt
<1>2. ASSUME NEW r \in Runs, SubmitRun(r) \/ ClaimRun(r) \/ ClaimLoadFails(r)
      PROVE  FinalAt(q)
  <2>1. q # r
    BY <1>2 DEF SubmitRun, ClaimRun, ClaimLoadFails, OldestQueued
  <2>2. QED
    BY <1>2, <2>1 DEF SubmitRun, ClaimRun, ClaimLoadFails, FinalAt
<1>3. CASE ServerStart \/ RecoverFails \/ ServerReady \/ CtrlC \/ ServerStop \/ WorkerCrash \/ Crash
  BY <1>3 DEF ServerStart, RecoverFails, ServerReady, CtrlC, ServerStop, WorkerCrash, Crash,
     rows, FinalAt
<1>4. ASSUME \/ ClaimPollFails \/ ClaimEnds \/ PollAgain \/ WorkerExit
             \/ \E r \in Runs : JoinRun(r)
      PROVE  FinalAt(q)
  BY <1>4 DEF ClaimPollFails, ClaimEnds, PollAgain, WorkerExit, JoinRun, rows, FinalAt
<1>5. QED
  BY <1>1, <1>2, <1>3, <1>4 DEF ServerNext, LoopNext

\* A task step of a completed run is one of its error handling, which fails the
\* run or not; no test step, not even a late one of an aborted test, is of it.
LEMMA TasksAreOfOthers ==
  ASSUME RowsInv, NEW q \in Runs, runState[q] = "completed"
  PROVE  /\ TaskStep(q) \/ TaskFailure(q) => FinalAt(q)
         /\ \A t \in Tests : ~TestStep(q, t) /\ ~AbortedTestLands(q, t)
<1>1. task[q] \in {"none", "ended", "fail"} /\ \A t \in Tests : test[q][t] = "idle"
  BY CompletedIsIdle
<1>2. TaskStep(q) => MarkFailed(q)
  BY <1>1 DEF TaskStep, Prepare, InsertDiscovery, Leave, TooBig, StartPlanning, SetOutcome,
     InsertPlanned, StartMain, StartLate, PhaseDone, StartAggregating, ReadyToAggregate,
     WriteReportFile, RecordReport, MarkCompleted
<1>3. TaskFailure(q) => MarkFailedFails(q)
  BY <1>1, ReplyLostFrom DEF TaskFailure, PrepareFails, StepFails, FallibleSteps
<1>4. MarkFailed(q) \/ MarkFailedFails(q) => FinalAt(q)
  BY DEF MarkFailed, MarkFailedFails, rows, FinalAt, RowsInv, TypeOK
<1>5. ASSUME NEW t \in Tests PROVE ~TestStep(q, t) /\ ~AbortedTestLands(q, t)
  BY <1>1 DEF TestStep, TestSkipped, MarkTestRunning, RecordResult, AbortedTestLands
<1>6. QED
  BY <1>2, <1>3, <1>4, <1>5

\* No step changes a completed run, but the one that fails it.
LEMMA NextIsFinal ==
  ASSUME RowsInv, [Next]_vars, NEW q \in Runs, runState[q] = "completed"
  PROVE  FinalAt(q)
<1>1. TypeOK
  BY DEF RowsInv
<1>2. ASSUME NEW r \in Runs, TaskStep(r) \/ TaskFailure(r) PROVE FinalAt(q)
  BY <1>1, <1>2, TasksAreOfOthers, TaskIsolation, SameRunIsFinal
<1>3. ASSUME NEW r \in Runs, NEW t \in Tests, TestStep(r, t) \/ AbortedTestLands(r, t)
      PROVE  FinalAt(q)
  BY <1>1, <1>3, TasksAreOfOthers, TestIsolation, SameRunIsFinal
<1>4. CASE UNCHANGED vars
  BY <1>4 DEF vars, rows, FinalAt
<1>5. QED
  BY <1>2, <1>3, <1>4, ProcessesAreFinal DEF Next

\* Nothing of a completed run is ever changed again, by the recovery of a
\* restart or by a task or test task that straggles: the one step left is the
\* failing of the run by the task that lost the reply to its completion.
THEOREM Finality == Spec => CompletedIsFinal
<1>1. ASSUME RowsInv, [Next]_vars
      PROVE  [\A r \in Runs : runState[r] = "completed" =>
                /\ runState'[r] = "completed" \/ (task[r] = "fail" /\ runState'[r] = "failed")
                /\ planned'[r] = planned[r] /\ results'[r] = results[r]
                /\ outcome'[r] = outcome[r] /\ dead'[r] = dead[r]
                /\ reportRow'[r] = reportRow[r] /\ reportFile'[r] = reportFile[r]]_vars
  BY <1>1, NextIsFinal DEF FinalAt
<1>2. QED
  BY <1>1, InvariantHolds, PTL DEF Spec, CompletedIsFinal

-----------------------------------------------------------------------------
(* The abstract queue of runs                                              *)

\* A step that changes no status can only make runs lose their owners.
LEMMA LoseStep ==
  ASSUME \A q \in Runs : StatusOf(q)' = StatusOf(q) /\ (HasTask(q)' => HasTask(q))
  PROVE  Queue!Next
<1>1. status' = status
  BY DEF status
<1>2. owned' = owned \ {q \in owned : ~HasTask(q)'}
  BY DEF owned
<1>3. {q \in owned : ~HasTask(q)'} \in SUBSET owned
  OBVIOUS
<1>4. QED
  BY <1>1, <1>2, <1>3 DEF Queue!Next, Queue!Lose

\* The status and the owner of a run that a step leaves alone.
LEMMA SameRunStatus ==
  ASSUME NEW q \in Runs, SameRun(q)
  PROVE  StatusOf(q)' = StatusOf(q) /\ HasTask(q)' = HasTask(q)
<1>1. QED
  BY DEF SameRun, StatusOf, HasTask

\* A step about one run changes the status and the owner of that run only.
LEMMA OneRunStep ==
  ASSUME NEW r \in Runs, \A q \in Runs \ {r} : SameRun(q)
  PROVE  /\ status' = [status EXCEPT ![r] = StatusOf(r)']
         /\ HasTask(r)' => owned' = owned \union {r}
         /\ ~HasTask(r)' => owned' = owned \ {r}
         /\ ~HasTask(r)' /\ r \notin owned => owned' = owned
<1>1. \A q \in Runs \ {r} : StatusOf(q)' = StatusOf(q) /\ HasTask(q)' = HasTask(q)
  BY SameRunStatus
<1>2. status' = [status EXCEPT ![r] = StatusOf(r)']
  BY <1>1 DEF status
<1>3. HasTask(r)' => owned' = owned \union {r}
  BY <1>1 DEF owned
<1>4. ~HasTask(r)' => owned' = owned \ {r}
  BY <1>1 DEF owned
<1>5. ~HasTask(r)' /\ r \notin owned => owned' = owned
  BY <1>4
<1>6. QED
  BY <1>2, <1>3, <1>4, <1>5

\* A step that keeps the status of its run, and gives it no owner, is a loss.
LEMMA OneRunLoses ==
  ASSUME NEW r \in Runs, \A q \in Runs \ {r} : SameRun(q),
         StatusOf(r)' = StatusOf(r), HasTask(r)' => HasTask(r)
  PROVE  Queue!Next
<1>1. \A q \in Runs : StatusOf(q)' = StatusOf(q) /\ (HasTask(q)' => HasTask(q))
  BY SameRunStatus
<1>2. QED
  BY <1>1, LoseStep

\* The server submits, re-queues runs without an owner, and takes the owners
\* of all runs with it when the worker dies.
LEMMA ServerQueue ==
  ASSUME RowsInv, ServerNext
  PROVE  Queue!Next
<1> USE DEF RowsInv, TypeOK
<1>1. ASSUME NEW r \in Runs, RecoverRun(r) PROVE Queue!Next
  <2>1. \A q \in Runs \ {r} : SameRun(q)
    BY <1>1 DEF RecoverRun, DeleteDiscovery, SameRun, worker, tasks, bounds
  <2>2. r \notin owned /\ status[r] = "active"
    BY <1>1 DEF RecoverRun, ProcessInv, owned, HasTask, status, StatusOf
  <2>3. StatusOf(r)' = "queued" /\ ~HasTask(r)'
    BY <1>1, <2>2 DEF RecoverRun, tasks, StatusOf, ActiveStates, HasTask, owned
  <2>4. status' = [status EXCEPT ![r] = "queued"] /\ owned' = owned
    BY <2>1, <2>2, <2>3, OneRunStep
  <2>5. QED
    BY <2>2, <2>4 DEF Queue!Next, Queue!Requeue
<1>2. ASSUME NEW r \in Runs, SubmitRun(r) PROVE Queue!Next
  <2>1. \A q \in Runs \ {r} : SameRun(q)
    BY <1>2 DEF SubmitRun, SameRun, worker, tasks, bounds
  <2>2. r \notin owned /\ status[r] = "absent"
    BY <1>2, OwnedIsActive DEF SubmitRun, owned, status, StatusOf, ActiveStates
  <2>3. StatusOf(r)' = "queued" /\ ~HasTask(r)'
    BY <1>2, <2>2 DEF SubmitRun, tasks, StatusOf, ActiveStates, HasTask, owned
  <2>4. status' = [status EXCEPT ![r] = "queued"] /\ owned' = owned
    BY <2>1, <2>2, <2>3, OneRunStep
  <2>5. QED
    BY <2>2, <2>4 DEF Queue!Next, Queue!Submit
<1>3. CASE WorkerCrash \/ Crash
  BY <1>3, LoseStep DEF WorkerCrash, Crash, WorkerGone, rows, StatusOf, HasTask
<1>4. CASE ServerStart \/ RecoverFails \/ ServerReady \/ CtrlC \/ ServerStop
  BY <1>4, LoseStep DEF ServerStart, RecoverFails, ServerReady, CtrlC, ServerStop, rows, worker,
     tasks, StatusOf, HasTask
<1>5. QED
  BY <1>1, <1>2, <1>3, <1>4 DEF ServerNext

\* The run loop claims queued runs, and loses the owners that it joins.
LEMMA LoopQueue ==
  ASSUME RowsInv, LoopNext
  PROVE  Queue!Next
<1> USE DEF RowsInv, TypeOK
<1>1. ASSUME NEW r \in Runs, ClaimRun(r) PROVE Queue!Next
  <2>1. \A q \in Runs \ {r} : SameRun(q)
    BY <1>1 DEF ClaimRun, SameRun
  <2>2. status[r] = "queued"
    BY <1>1 DEF ClaimRun, OldestQueued, status, StatusOf, ActiveStates
  <2>3. StatusOf(r)' = "active" /\ HasTask(r)'
    BY <1>1 DEF ClaimRun, StatusOf, ActiveStates, HasTask
  <2>4. QED
    BY <2>1, <2>2, <2>3, OneRunStep DEF Queue!Next, Queue!Claim
<1>2. ASSUME NEW r \in Runs, ClaimLoadFails(r) PROVE Queue!Next
  <2>1. \A q \in Runs \ {r} : SameRun(q)
    BY <1>2 DEF ClaimLoadFails, SameRun, tasks
  <2>2. status[r] = "queued" /\ r \notin owned
    BY <1>2, OwnedIsActive DEF ClaimLoadFails, OldestQueued, status, StatusOf, ActiveStates, owned
  <2>3. StatusOf(r)' = "active" /\ ~HasTask(r)'
    BY <1>2, <2>2 DEF ClaimLoadFails, tasks, StatusOf, ActiveStates, HasTask, owned
  <2>4. status' = [status EXCEPT ![r] = "active"] /\ owned' = owned
    BY <2>1, <2>2, <2>3, OneRunStep
  <2>5. QED
    BY <2>2, <2>4 DEF Queue!Next, Queue!Claim
<1>3. ASSUME NEW r \in Runs, JoinRun(r) PROVE Queue!Next
  BY <1>3, LoseStep DEF JoinRun, rows, StatusOf, HasTask
<1>4. CASE WorkerExit
  BY <1>4, LoseStep DEF WorkerExit, WorkerGone, rows, StatusOf, HasTask
<1>5. CASE ClaimPollFails \/ ClaimEnds \/ PollAgain
  BY <1>5, LoseStep DEF ClaimPollFails, ClaimEnds, PollAgain, rows, tasks, StatusOf, HasTask
<1>6. QED
  BY <1>1, <1>2, <1>3, <1>4, <1>5 DEF LoopNext

\* A task finishes the run it owns, perhaps without learning of it, loses it,
\* or works on without changing the status.
LEMMA TaskQueue ==
  ASSUME RowsInv, NEW r \in Runs, TaskStep(r) \/ TaskFailure(r)
  PROVE  Queue!Next
<1> USE DEF RowsInv, TypeOK
<1>1. \A q \in Runs \ {r} : SameRun(q)
  BY TaskIsolation
<1>2. r \in owned /\ HasTask(r)
  BY DEF owned, HasTask, TaskStep, Prepare, InsertDiscovery, Leave, TooBig, StartPlanning,
     SetOutcome, InsertPlanned, StartMain, StartLate, PhaseDone, StartAggregating,
     ReadyToAggregate, WriteReportFile, RecordReport, MarkCompleted, MarkFailed, TaskFailure,
     PrepareFails, StepFails, FallibleSteps, ReplyLost, StateLands, NextStates, DiscoveryLands,
     OutcomeLands, PlannedLands, ReportLands, MarkFailedFails
<1>3. \/ runState[r] \in ActiveStates /\ status[r] = "active"
      \/ task[r] = "fail" /\ runState[r] = "completed" /\ status[r] = "completed"
  BY <1>2, OwnedIsActive DEF status, StatusOf, ActiveStates
<1>4. CASE MarkFailed(r)
  <2>1. StatusOf(r)' = "failed" /\ ~HasTask(r)'
    BY <1>4 DEF MarkFailed, TaskEnds, StatusOf, ActiveStates, HasTask
  <2>2. status' = [status EXCEPT ![r] = "failed"] /\ owned' = owned \ {r}
    BY <1>1, <2>1, OneRunStep
  <2>3. QED
    BY <1>2, <1>3, <2>2 DEF Queue!Next, Queue!Fail
<1>5. CASE MarkCompleted(r)
  <2>1. StatusOf(r)' = "completed" /\ ~HasTask(r)' /\ task[r] # "fail"
    BY <1>5 DEF MarkCompleted, TaskEnds, StatusOf, ActiveStates, HasTask
  <2>2. status' = [status EXCEPT ![r] = "completed"] /\ owned' = owned \ {r}
    BY <1>1, <2>1, OneRunStep
  <2>3. QED
    BY <1>2, <1>3, <2>1, <2>2 DEF Queue!Next, Queue!Complete
<1>6. CASE ReplyLost(r) /\ runState'[r] = "completed"
  <2>1. task'[r] = "fail" /\ task[r] # "fail"
    <3>1. task'[r] = "fail"
      BY <1>6 DEF ReplyLost
    <3>2. task[r] # "fail"
      BY <1>6, ReplyLostFrom
    <3>3. QED
      BY <3>1, <3>2
  <2>2. StatusOf(r)' = "completed" /\ HasTask(r)'
    BY <1>6, <2>1 DEF StatusOf, ActiveStates, HasTask
  <2>3. status' = [status EXCEPT ![r] = "completed"] /\ owned' = owned \union {r}
    BY <1>1, <2>2, OneRunStep
  <2>4. owned' = owned
    BY <1>2, <2>3
  <2>5. QED
    BY <1>2, <1>3, <2>1, <2>3, <2>4 DEF Queue!Next, Queue!Complete
<1>7. CASE ReplyLost(r) /\ runState'[r] # "completed"
  <2>1. runState'[r] \in ActiveStates /\ runState[r] \in ActiveStates
    BY <1>7, ReplyLostRows, ReplyLostFrom
  <2>2. QED
    BY <1>1, <1>2, <2>1, OneRunLoses DEF StatusOf
<1>8. CASE /\ ~MarkCompleted(r) /\ ~MarkFailed(r) /\ ~ReplyLost(r)
  <2>1. CASE runState'[r] = runState[r]
    BY <1>1, <1>2, <2>1, OneRunLoses DEF StatusOf
  <2>2. CASE runState'[r] # runState[r]
    <3>1. StartPlanning(r) \/ StartMain(r) \/ StartAggregating(r)
      BY <1>8, <2>2 DEF TaskStep, Prepare, InsertDiscovery, Leave, TooBig, SetOutcome,
         InsertPlanned, StartLate, PhaseDone, WriteReportFile, RecordReport, TaskFailure,
         PrepareFails, StepFails, MarkFailedFails, rows
    <3>2. runState'[r] \in ActiveStates /\ task[r] # "fail"
      BY <2>2, <3>1 DEF StartPlanning, StartMain, StartAggregating, ReadyToAggregate, ActiveStates
    <3>3. QED
      BY <1>1, <1>2, <1>3, <3>2, OneRunLoses DEF StatusOf
  <2>3. QED
    BY <2>1, <2>2
<1>9. QED
  BY <1>4, <1>5, <1>6, <1>7, <1>8

\* A test task changes no status and no owner.
LEMMA TestQueue ==
  ASSUME RowsInv, NEW r \in Runs, NEW t \in Tests, TestStep(r, t) \/ AbortedTestLands(r, t)
  PROVE  Queue!Next
<1>1. UNCHANGED <<runState, task>>
  BY DEF TestStep, TestSkipped, MarkTestRunning, RecordResult, AbortedTestLands, rows
<1>2. QED
  BY <1>1, LoseStep DEF StatusOf, HasTask

\* The service implements the abstract queue of runs: whatever crashes, stops
\* and recovers, a run is finished only by the owner that claimed it and is
\* queued again only after it has lost its owner unfinished.
THEOREM QueueRefinement == Spec => ImplementsRunQueue
<1>1. Init => Queue!Init
  BY DEF Init, Queue!Init, status, StatusOf, owned, HasTask, ActiveStates
<1>2. ASSUME RowsInv, [Next]_vars PROVE [Queue!Next]_Queue!vars
  <2>1. CASE UNCHANGED vars
    BY <2>1 DEF vars, rows, tasks, status, StatusOf, owned, HasTask, Queue!vars
  <2>2. CASE Next
    BY <1>2, <2>2, ServerQueue, LoopQueue, TaskQueue, TestQueue DEF Next
  <2>3. QED
    BY <1>2, <2>1, <2>2
<1>3. QED
  BY <1>1, <1>2, InvariantHolds, PTL DEF Spec, ImplementsRunQueue, Queue!Spec
=============================================================================
