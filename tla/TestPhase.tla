----------------------------- MODULE TestPhase ------------------------------
(***************************************************************************)
(* The execution of planned tests under the worker's three budgets         *)
(* (execute_planned_tests_phase of backend/worker.rs).  Every spawned test *)
(* task takes a permit of its run's phase, then one of the budget that all *)
(* runs share, then one of its host within the phase, and holds all three  *)
(* while its plugin runs.                                                  *)
(*                                                                         *)
(* A run is a slot of the worker: when its phase is over, the slot may     *)
(* start the next phase, of the same run or of another one.  What a test   *)
(* does to the database is modelled in RunLifecycle.                       *)
(***************************************************************************)
EXTENDS Integers, Sequences, FiniteSets, SequencesExt

CONSTANTS
  Runs,         \* the runs being processed at a time
  Tests,        \* planned tests
  PhaseTests,   \* the tests of each run's phases
  Hosts,        \* execution targets, lower-cased
  HostOf,              \* execution target of each test
  MaxWorkers,          \* execution.max_workers
  MaxConcurrentTests,  \* execution.max_concurrent_tests
  PerHostConcurrency   \* execution.per_host_concurrency

ASSUME TestPhaseAssumption ==
  /\ PhaseTests \in [Runs -> SUBSET Tests]
  /\ \A r \in Runs : IsFiniteSet(PhaseTests[r])
  /\ HostOf \in [Tests -> Hosts]
  /\ MaxWorkers \in Nat
  /\ MaxConcurrentTests \in Nat
  /\ PerHostConcurrency \in Nat

\* A limit of 0 counts as 1.
AtLeastOne(n) == IF n = 0 THEN 1 ELSE n

RunLimit == AtLeastOne(MaxWorkers)
GlobalLimit == AtLeastOne(MaxConcurrentTests)
HostLimit == AtLeastOne(PerHostConcurrency)

VARIABLES
  stage,        \* how far each test task of each run has come
  failing,      \* the run's phase returned an error, its JoinSet was dropped
  runFree,      \* free permits of run_budget
  runQueue,     \* tests waiting for one, in order
  globalFree,   \* free permits of shared_test_budget
  globalQueue,  \* <<run, test>> waiting for one, in order
  hostFree,     \* free permits of the semaphores in host_limits
  hostQueue,    \* tests waiting for one, in order
  shutdown      \* ShutdownState.requested

runPermits == <<runFree, runQueue>>
globalPermits == <<globalFree, globalQueue>>
hostPermits == <<hostFree, hostQueue>>
vars == <<stage, failing, runPermits, globalPermits, hostPermits, shutdown>>

Stages == {"none", "runWait", "globalWait", "hostWait", "executing"}

Init ==
  /\ stage = [r \in Runs |-> [t \in Tests |-> "none"]]
  /\ failing = [r \in Runs |-> FALSE]
  /\ runFree = [r \in Runs |-> RunLimit]
  /\ runQueue = [r \in Runs |-> <<>>]
  /\ globalFree = GlobalLimit
  /\ globalQueue = <<>>
  /\ hostFree = [r \in Runs |-> [h \in Hosts |-> HostLimit]]
  /\ hostQueue = [r \in Runs |-> [h \in Hosts |-> <<>>]]
  /\ shutdown = FALSE

\* A released permit is handed to the first waiter, so the waiters that may
\* go on are as many as there are permits, and are polled in any order.
Granted(queue, free, x) == \E i \in 1..Len(queue) : i <= free /\ queue[i] = x
Place(queue, x) == {i \in 1..Len(queue) : queue[i] = x}
Without(queue, x) ==
  IF Place(queue, x) = {} THEN queue ELSE RemoveAt(queue, CHOOSE i \in Place(queue, x) : TRUE)

\* The stages in which a test task holds a permit of each kind.
HoldsRun == {"globalWait", "hostWait", "executing"}
HoldsGlobal == {"hostWait", "executing"}
HoldsHost == {"executing"}

-----------------------------------------------------------------------------
\* Mutant: phases that are started during a shutdown.
MayAlwaysStart(r) == \A t \in Tests : stage[r][t] = "none"

\* A phase is started after a check of the flag, in a slot whose last test
\* tasks are gone.
MayStart(r) == ~shutdown /\ \A t \in Tests : stage[r][t] = "none"

\* The phase makes its budgets and spawns a task for each of its tests.  The
\* tasks queue for the run's budget in the order of their first polls.
StartPhase(r) ==
  /\ MayStart(r)
  /\ \E order \in SetToSeqs(PhaseTests[r]) : runQueue' = [runQueue EXCEPT ![r] = order]
  /\ stage' = [stage EXCEPT ![r] =
                 [t \in Tests |-> IF t \in PhaseTests[r] THEN "runWait" ELSE "none"]]
  /\ failing' = [failing EXCEPT ![r] = FALSE]
  /\ runFree' = [runFree EXCEPT ![r] = RunLimit]
  /\ hostFree' = [hostFree EXCEPT ![r] = [h \in Hosts |-> HostLimit]]
  /\ hostQueue' = [hostQueue EXCEPT ![r] = [h \in Hosts |-> <<>>]]
  /\ UNCHANGED <<globalPermits, shutdown>>

\* Mutant: the guard of the permit is dropped at once ("let _ =").
TakeRunDropGuard(r, t) ==
  /\ ~failing[r] /\ stage[r][t] = "runWait"
  /\ Granted(runQueue[r], runFree[r], t)
  /\ stage' = [stage EXCEPT ![r][t] = "globalWait"]
  /\ runQueue' = [runQueue EXCEPT ![r] = Without(runQueue[r], t)]
  /\ globalQueue' = Append(globalQueue, <<r, t>>)
  /\ UNCHANGED <<failing, runFree, globalFree, hostPermits, shutdown>>

\* A task runs until it waits for its next permit.
TakeRunPermit(r, t) ==
  /\ ~failing[r] /\ stage[r][t] = "runWait"
  /\ Granted(runQueue[r], runFree[r], t)
  /\ stage' = [stage EXCEPT ![r][t] = "globalWait"]
  /\ runFree' = [runFree EXCEPT ![r] = runFree[r] - 1]
  /\ runQueue' = [runQueue EXCEPT ![r] = Without(runQueue[r], t)]
  /\ globalQueue' = Append(globalQueue, <<r, t>>)
  /\ UNCHANGED <<failing, globalFree, hostPermits, shutdown>>

\* Mutant: the guard of the permit is dropped at once.
TakeGlobalDropGuard(r, t) ==
  /\ ~failing[r] /\ stage[r][t] = "globalWait"
  /\ Granted(globalQueue, globalFree, <<r, t>>)
  /\ stage' = [stage EXCEPT ![r][t] = "hostWait"]
  /\ globalQueue' = Without(globalQueue, <<r, t>>)
  /\ hostQueue' = [hostQueue EXCEPT ![r][HostOf[t]] = Append(hostQueue[r][HostOf[t]], t)]
  /\ UNCHANGED <<failing, runPermits, globalFree, hostFree, shutdown>>

TakeGlobalPermit(r, t) ==
  /\ ~failing[r] /\ stage[r][t] = "globalWait"
  /\ Granted(globalQueue, globalFree, <<r, t>>)
  /\ stage' = [stage EXCEPT ![r][t] = "hostWait"]
  /\ globalFree' = globalFree - 1
  /\ globalQueue' = Without(globalQueue, <<r, t>>)
  /\ hostQueue' = [hostQueue EXCEPT ![r][HostOf[t]] = Append(hostQueue[r][HostOf[t]], t)]
  /\ UNCHANGED <<failing, runPermits, hostFree, shutdown>>

\* Mutant: every test gets a host semaphore of its own.
TakeOwnHostPermit(r, t) ==
  /\ ~failing[r] /\ stage[r][t] = "hostWait"
  /\ stage' = [stage EXCEPT ![r][t] = "executing"]
  /\ hostQueue' = [hostQueue EXCEPT ![r][HostOf[t]] = Without(hostQueue[r][HostOf[t]], t)]
  /\ UNCHANGED <<failing, runPermits, globalPermits, hostFree, shutdown>>

TakeHostPermit(r, t) ==
  /\ ~failing[r] /\ stage[r][t] = "hostWait"
  /\ Granted(hostQueue[r][HostOf[t]], hostFree[r][HostOf[t]], t)
  /\ stage' = [stage EXCEPT ![r][t] = "executing"]
  /\ hostFree' = [hostFree EXCEPT ![r][HostOf[t]] = hostFree[r][HostOf[t]] - 1]
  /\ hostQueue' = [hostQueue EXCEPT ![r][HostOf[t]] = Without(hostQueue[r][HostOf[t]], t)]
  /\ UNCHANGED <<failing, runPermits, globalPermits, shutdown>>

\* The task of a test is gone: its place in a queue and its guards with it.
Release(r, t) ==
  LET was == stage[r][t]
      h == HostOf[t]
      Freed(holding) == IF was \in holding THEN 1 ELSE 0
  IN  /\ runFree' = [runFree EXCEPT ![r] = runFree[r] + Freed(HoldsRun)]
      /\ runQueue' = [runQueue EXCEPT ![r] = Without(runQueue[r], t)]
      /\ globalFree' = globalFree + Freed(HoldsGlobal)
      /\ globalQueue' = Without(globalQueue, <<r, t>>)
      /\ hostFree' = [hostFree EXCEPT ![r][h] = hostFree[r][h] + Freed(HoldsHost)]
      /\ hostQueue' = [hostQueue EXCEPT ![r][h] = Without(hostQueue[r][h], t)]

\* Mutant: the test is tried again, whatever its outcome.
TestRetried(r, t) ==
  /\ ~failing[r] /\ stage[r][t] = "executing"
  /\ stage' = [stage EXCEPT ![r][t] = "hostWait"]
  /\ hostFree' = [hostFree EXCEPT ![r][HostOf[t]] = hostFree[r][HostOf[t]] + 1]
  /\ hostQueue' = [hostQueue EXCEPT ![r][HostOf[t]] = Append(hostQueue[r][HostOf[t]], t)]
  /\ UNCHANGED <<failing, runPermits, globalPermits, shutdown>>

\* The test was executed, or found the shutdown flag up before it started.
TestEnds(r, t) ==
  /\ ~failing[r] /\ stage[r][t] = "executing"
  /\ Release(r, t)
  /\ stage' = [stage EXCEPT ![r][t] = "none"]
  /\ UNCHANGED <<failing, shutdown>>

\* A test whose database call fails makes the phase return its error.
TestFails(r, t) ==
  /\ ~failing[r] /\ stage[r][t] = "executing"
  /\ Release(r, t)
  /\ stage' = [stage EXCEPT ![r][t] = "none"]
  /\ failing' = [failing EXCEPT ![r] = TRUE]
  /\ UNCHANGED shutdown

\* The runtime drops an aborted task, each in its own time.
DropTest(r, t) ==
  /\ failing[r] /\ stage[r][t] # "none"
  /\ Release(r, t)
  /\ stage' = [stage EXCEPT ![r][t] = "none"]
  /\ UNCHANGED <<failing, shutdown>>

Shutdown ==
  /\ ~shutdown
  /\ shutdown' = TRUE
  /\ UNCHANGED <<stage, failing, runPermits, globalPermits, hostPermits>>

\* Every phase is over and no other one is started: the worker exits.
Drained ==
  /\ shutdown
  /\ \A r \in Runs, t \in Tests : stage[r][t] = "none"
  /\ UNCHANGED vars

TestStep(r, t) ==
  \/ TakeRunPermit(r, t)
  \/ TakeGlobalPermit(r, t)
  \/ TakeHostPermit(r, t)
  \/ TestEnds(r, t)
  \/ DropTest(r, t)

Next ==
  \/ \E r \in Runs : StartPhase(r)
  \/ \E r \in Runs, t \in Tests : TestStep(r, t) \/ TestFails(r, t)
  \/ Shutdown
  \/ Drained

Spec == Init /\ [][Next]_vars

\* Every test task is polled when it can go on, and plugins end.
FairSpec == Spec /\ \A r \in Runs, t \in Tests : WF_vars(TestStep(r, t))

-----------------------------------------------------------------------------
\* The variables have their types.
TypeOK ==
  /\ stage \in [Runs -> [Tests -> Stages]]
  /\ failing \in [Runs -> BOOLEAN]
  /\ runFree \in [Runs -> 0..RunLimit]
  /\ runQueue \in [Runs -> Seq(Tests)]
  /\ globalFree \in 0..GlobalLimit
  /\ globalQueue \in Seq(Runs \X Tests)
  /\ hostFree \in [Runs -> [Hosts -> 0..HostLimit]]
  /\ hostQueue \in [Runs -> [Hosts -> Seq(Tests)]]
  /\ shutdown \in BOOLEAN

RunHolders(r) == {t \in Tests : stage[r][t] \in HoldsRun}
GlobalHolders == {p \in Runs \X Tests : stage[p[1]][p[2]] \in HoldsGlobal}
HostHolders(r, h) == {t \in Tests : stage[r][t] \in HoldsHost /\ HostOf[t] = h}
Executing == {p \in Runs \X Tests : stage[p[1]][p[2]] = "executing"}

\* No budget gains or loses a permit, whether tests end, fail or are aborted
\* while they wait or hold some.
PermitsAreConserved ==
  /\ globalFree + Cardinality(GlobalHolders) = GlobalLimit
  /\ \A r \in Runs :
       /\ runFree[r] + Cardinality(RunHolders(r)) = RunLimit
       /\ \A h \in Hosts : hostFree[r][h] + Cardinality(HostHolders(r, h)) = HostLimit

\* The documented limits: "Maximum in-flight tests across all active runs",
\* "Maximum in-flight tests within a single run" (src/config.rs:136,139), and
\* the concurrency of a host within a run.
TestsAreBounded ==
  /\ Cardinality(Executing) <= GlobalLimit
  /\ \A r \in Runs :
       /\ Cardinality({t \in Tests : stage[r][t] = "executing"}) <= RunLimit
       /\ \A h \in Hosts : Cardinality(HostHolders(r, h)) <= HostLimit

\* "Per-host concurrency controls to avoid hammering a single domain"
\* (src/config.rs:142): the tests at work on a host are within its limit,
\* whatever runs they belong to.
HostsAreNotHammered ==
  \A h \in Hosts : Cardinality({p \in Executing : HostOf[p[2]] = h}) <= HostLimit

\* Every spawned test is executed, skipped or dropped in the end, however many
\* other phases come and go: holding one budget while waiting for the next
\* neither deadlocks nor starves a test.
TestsEnd ==
  \A r \in Runs, t \in Tests : (stage[r][t] # "none") ~> (stage[r][t] = "none")

\* After a shutdown request all test tasks of all runs are gone for good.
PhasesDrain == shutdown ~> [](\A r \in Runs, t \in Tests : stage[r][t] = "none")
=============================================================================
