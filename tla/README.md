# A verification development of the DAP backend

The backend takes audit requests for a domain over HTTP, queues them as *runs* in a MySQL
database, and has a worker process discover the hosts of the domain, plan tests from what it
found, execute the tests as plugin processes and write a report. This directory holds TLA+
modules translated from the code in `src/` (paths below are relative to it), TLC
configurations that check them on small instances, and proofs that TLAPS checks.

## 1. Inventory

| Component | State | Operations | Talks to |
|---|---|---|---|
| API server (`src/backend/mod.rs`) | shutdown flag, worker child process | start with recovery, `create_run`, reads, ctrl-c, wait for the worker | database; spawns the worker |
| Storage (`src/backend/storage.rs`, `migrations/`) | rows of `runs`, `run_requested_tests`, `facts`, `site_profiles`, `dead_hosts`, `planned_tests`, `test_results`, `artifacts`, `reports`, `ct_subdomain_cache` | `recover_incomplete_runs`, `submit_run`, `claim_next_run`, `insert_discovery`, `insert_planned_tests`, `record_result`, `record_report`, state updates, reads | called by the server and the worker concurrently |
| Worker loop (`src/backend/worker.rs:88-149`) | accepting flag, active run count, JoinSet of run tasks | claim, join, poll, drain, exit | Storage; spawns run tasks |
| Run task (`process_run`, `worker.rs:151-411`) | its control point, the plan in memory, the run's directory | prepare, discover, plan, two phases, aggregate, report, complete or fail | Storage, discovery, planner, test tasks |
| Test tasks (`worker.rs:413-658`) | permits of three semaphores | wait for permits, mark running, execute the plugin, record the result | Storage, plugin runner |
| Plugin runner (`src/runner.rs`) | a child process, its pipes, a timeout | spawn, feed, wait or kill, collect, interpret | plugin processes |
| Planner (`src/planner.rs`) | the rules | `plan` | called by the run task |
| Discovery (`src/discovery.rs`, `src/discovery/*.rs`) | host queue, visited set, best outcome of the passes | passes, breadth-first inspection, CT lookup and cache, DNS liveness, surface probing | network, Storage (CT cache) |
| Request intake (`backend/mod.rs:440-535`, `backend/capabilities.rs`) | capability registry | normalize the target, dedupe tests, fingerprint | Storage |
| Reads (`storage.rs:718-1000`) | none | status, results, report, latest, history | Storage |
| Plugins (`plugins/`), debug client (`scripts/`) | own processes | network audits; a polling client | runner; HTTP API |
| `src/orchestrator.rs`, `src/report.rs` | - | not part of the crate (`src/lib.rs` does not declare them) | - |

What makes the parts hard: server and worker are two processes that share only the
database; nothing spans two transactions; a run passes through some ten transactions, a
directory and a report file, and can be cut off between any two of them by an error, a
shutdown or a crash; recovery must restore exactly the state of a new run; test tasks of
several runs compete for permits; requests race with each other and with the runs they
could reuse.

What makes each part correct:

* *recovery* leaves nothing of an interrupted try behind and touches no finished run;
* *the worker* claims a run once, works only on active runs, and drains on shutdown;
* *a run* is aggregated only when every planned test has exactly one result, its report is
  of exactly these results, its outcomes agree with its plan, and late tests wait for main
  tests; nothing of it changes once it is completed, but for a failure recorded over the
  completion when the reply to that was lost;
* *budgets* bound the tests at work, conserve permits and let every test end;
* *submission* reuses only completed equivalent runs and never misses one that completes
  while it looks;
* *the runner* ends every test within its timeout; *discovery* inspects every reachable
  host in scope once; *reads* of a completed run show its final state;
* *inspection* takes a host for dead exactly when nothing reaches it or its page is broken
  and nothing tells what it serves, uses the first endpoint of a list that answers, and the
  tests that are executed follow its verdict.

`PROJECT.json` lists under "hazards" where in the code these can go wrong, and which
properties cover each.

## 2. Modules

**RunQueue** is the abstract specification: runs are submitted, claimed, completed or failed by
their owner, or go back to the queue when they have lost their owner. An owner may complete its
run and not learn of it, and fail it then. Two variables, six actions.

**RunLifecycle** is the core. Its variables are the rows of a run (`runState`, `outcome`,
`facts`, `dead`, `planned`, `results`, `reportRow`), the report file, the server
(`server`, `recovering`, `clock`), the worker process (`loop`, `shutdown`, `accepting`,
`activeCount`) and its tasks (`task`, the control point of `process_run`; `plan`, `todo`;
`test`, the test tasks of the current phase). Every database transaction is one action, in
the code's order:

| Code | Actions |
|---|---|
| `load_state`, `recover_incomplete_runs`, `run_server` | `ServerStart`, `RecoverRun`, `RecoverFails`, `ServerReady`, `ServerStop` |
| `submit_run` (the queued row), ctrl-c | `SubmitRun`, `CtrlC` |
| `run_loop`, `claim_next_run` | `ClaimRun`, `ClaimLoadFails`, `ClaimPollFails`, `ClaimEnds`, `PollAgain`, `JoinRun`, `WorkerExit` |
| `process_run` up to planning | `Prepare`, `InsertDiscovery`, `Leave` (the four shutdown checks), `TooBig`, `StartPlanning`, `SetOutcome`, `InsertPlanned` |
| the phases | `StartMain`, `StartLate`, `PhaseDone`; per test `TestSkipped`, `MarkTestRunning`, `RecordResult` |
| the end of `process_run` | `StartAggregating`, `WriteReportFile`, `RecordReport`, `MarkCompleted`; `StepFails` (a step fails without effect), `ReplyLost` (it took effect and only the reply is lost), `MarkFailed`, and the errors that escape the error handling: `PrepareFails`, `MarkFailedFails` |
| a dropped JoinSet | `AbortTests`, `AbortedTestLands` (a statement that was already sent may still take effect) |
| the environment | `WorkerCrash` (the server goes on), `Crash` (the process group or the machine) |

The shutdown flag only rises, so a check of it is joined to the step that follows. Discovery
and the plugins are choices: which hosts are dead, whether the domain is too big, which
tests the rules give, whether a test completes or does not start. Planned tests are pairs of
a test id and a host, because `RulesEngine::plan` makes at most one per pair.

**RunLifecycleInv** states its inductive invariant; **RunLifecycleProofs** and
**RunLifecyclePromises** hold the proofs. **RunSubmissionProofs**, **TestPhaseProofs**,
**PluginRunnerProofs**, **DiscoveryProofs**, **DeploymentProofs** and **InspectionProofs** hold the
invariants and proofs of the modules below (see 4).

**TestPhase** models the budgets: `stage` is how far each test task has come, each semaphore
is its free permits and its queue (tokio's semaphores are fair: a released permit belongs
to the first waiter). The limits come from the configuration through `AtLeastOne`, so a
configured 0 is 1. A phase's tests first queue in any order of their polls. A slot whose
test tasks are gone may start a next phase, so phases come and go as long as the worker is
not shut down.

**RunSubmission** models `submit_run` as what it is: a query for a run in flight
(`FindInflight`), a query for a fresh run (`FindFresh`) and one of two transactions
(`InsertHit`, `InsertQueued`), with requests of several clients interleaved between them,
`RequestDropped` at any point, the worker's effect on the rows (`Claim`, `Complete`,
`Fail`), `Restart` and the clock. The worker of a run in `unsure` has completed it and lost the
reply, so it may still fail it; requests that come in between reuse the run. `outcomesOf` says
whose outcomes a run's requested tests hold; `seen` is a history variable for
`NoGapBetweenChecks`. `EffectiveRunId` is `effective_run_id`.

**PluginRunner** is one call of `execute`: its control point `pc` (`spawn`, `feed`, `wait`,
`kill`, `collect`, then `done` or `dropped`), the plugin's process, a helper that the plugin may
leave behind with its pipes, the pipe of each stream with a bounded capacity, and the two
reader tasks, which are spawned after the input has been written. `Timeout` can elapse at any
moment of the wait, also when the child has just exited. The plugin is any process: it
reads or not, writes, forks, fails and exits when it likes; `readsFirst` and `forks` only say
what it is known (not) to do. `Dropped` is the abort of the test task.

**Discovery** is one call of `perform_discovery_internal`: the passes, the host queue of a pass,
the choice of the best pass, and `query_ct_names` with the cache row that runs share (`load`,
`ask`, `store`, `fallBack`). Names are model values; what is in scope is a constant, what an
inspection yields is any subset of a host's `Links`, in any order, anew in every pass. History
variables (`seeds`, `found`, `counts`, `stored`) keep what the properties compare with.

**Deployment** gives up RunLifecycle's one worker. Its processes are server instances
(`ServerStart`, `RecoverRun`, `ServerReady`, `StartFails`, `ServerDies`), the worker each of
them spawns before it binds its socket and leaves behind when it dies (`SelectCandidate`,
`ClaimRun`, `ClaimLost`, `WorkerDies`), the attempts of these workers at one run (`step[a]`, one
transaction a step, none of which asks for the state of the run) and an API read (`Ask`,
`Query`, `Respond`: `pending` holds the queries still to be made, `got` the answers). Every claim is an
attempt of its own, with planned tests of its own ids, so that rows of two attempts clash
where the foreign keys make them clash. Only what meets another process in the database is kept;
graceful shutdown, domains that are too big and aborted sibling tests stay in RunLifecycle.

**HostInspection** is the inspection of the domain itself: `CollectDomainMailFacts` and then the
steps of `inspect_host` in the code's order (`CheckHostLiveness`, `FindCname`,
`FindAddresses`, `FetchSurface`, `DavProbed`, `Verdict`, `ApiProbed`, `WriteFacts`). Each lookup
is an expression over what its tools may answer (`some`, `none`, or `error` when the tool
cannot be started); a root page is `blank`, a `page`, a `shell` or `text`, with or without the marks
of a failing proxy; a profile is a kind and a provider. Another host differs only in having no
mail step. It extends **EndpointProbes**, the batch of
`probe_endpoint_batch` (threads over chunks, `Probe`, `Join`), and **Planning**, the rules of
`rules.yaml` and `RulesEngine::plan` as sets, down to the tests that are skipped because their host
is dead.

The modules meet at named actions. InspectHost of Discovery is one whole HostInspection, of which
it keeps the hosts found.  `InsertDiscovery` of RunLifecycle is what a run does
with a finished Discovery; its `MarkTestRunning` comes after the three permits of TestPhase, and
its `RecordResult` after an execution of PluginRunner; its `SubmitRun` is `InsertQueued` of
RunSubmission, whose `Claim`, `Complete`, `Fail` and `Restart` are RunLifecycle seen from the
`runs` table. They are checked apart because they share no other state.

`MC*.tla` give the constants their values.

## 3. Runs

| Run | Checks | Bounds and why they suffice |
|---|---|---|
| `lifecycle` | `TypeOK`, `AggregatedRunsAreWhole`, `CompletedRunsAreReported`, `QueuedRunsAreClean`, `OutcomesMatchPlan`, `LateTestsWaitForMain`, `TasksOwnActiveRuns`, `OnlyErrorsFailRuns`, `IInv`, `CompletedIsFinal`, `ImplementsRunQueue` (refinement: `Queue!Spec`) | One run with a probe, two main tests and a late one that bypasses dead hosts, on one host: both phases, an abort with a sibling at work, dead and live hosts. Two errors (one to fail a step, with or without its effect, one to fail `mark_run_failed`), two crashes (one of a retry), one shutdown. |
| `lifecycle_two` | `SubmittedRunsSettle`, `ShutdownDrains` | Two runs of one test share the worker, with one error at any step, with or without its effect, and a shutdown. The limit of two active runs is reached. No crash: both properties except a dead worker or server, and a crash beside an error takes TLC beyond five minutes. |
| `submission` | `TypeOK`, `HitsReuseCompletedRuns`, `ReadsAreOfTheExecutedRun`, `DuplicatesAreBounded`, `NoGapBetweenChecks` | Two clients, three runs, one fingerprint (requests of different fingerprints never meet), window 1, clock to 2: runs are fresh, become stale, and are reused in a chain. One worker at a time may be unsure of a completion (`MaxUnsure`), with two other runs to reuse the run it then fails. Clients are symmetric. |
| `submission_race` | `EquivalentRunsAreDeduped` is violated | see 5 |
| `submission_chain` | `ReuseChainsResolve` is violated | four runs, a limit of 3 rows instead of 8 |
| `test_phase` | `TypeOK`, `PermitsAreConserved`, `TestsAreBounded`, `TestsEnd`, `PhasesDrain` | Two runs, three tests on two hosts, limits 2, 2 and 0 (that is 1): every semaphore is contended. |
| `test_phase_hosts` | `HostsAreNotHammered` is violated | see 5 |
| `plugin` | `TypeOK`, `ChildrenAreNotLeft`, `InterpretedResultsAreWhole`, `ExecutionsEnd` | Input and output of two units, pipes of one: every pipe fills, each side can block the other. One helper is enough to hold a stream. |
| `plugin_timeout` | `TimeoutsAreHonored` is violated | see 5 |
| `discovery` | `TypeOK`, `PassesAreComplete`, `OutcomeIsBest`, `SourcesAreSpared`, `DiscoveryEnds` | Five hosts, one out of scope, with a cycle and two paths of different lengths to one host; depth 2 instead of 5, which lies on the longer path; three passes, so that a worse one can come between; a cache window of 1 and a clock to 3, so that the cache is fresh and stale within one run. |
| `deployment` | `TypeOK`, `ClaimsAreExclusive`, `CompletedAnswersAreFinal`, `RunsSettleOrAreStranded` | One run, one host on which its test may be planned, two starts: an orphaned worker and its successor hold the run together, both select it, one attempt is reset under the other. A third start or a second host takes TLC beyond five minutes. |
| `inspection` | `TypeOK`, `FirstMatchWins`, `VerdictsAreSound`, `PlansFollowVerdicts` | One host; four DAV and five API endpoints on up to four threads: chunks of one, of two and of a shorter last one, fewer chunks than workers, threads that fail while others match. Lookups, pages, profiles and enabled probes are unrestricted. |

Deadlock is checked except where the system may stop. An execution of PluginRunner and a
discovery are over when they have returned, and a Deployment may have lost all its processes.
(HostInspection stutters when it has returned, so its run also shows that no batch of probes waits
for ever.) In the lifecycle runs the system may really stop: the
server is stopped, or dead, and the bound on crashes leaves nothing to restart from; and
when all runs are settled nothing but the idle poll is left.

Fairness. `FairSpec` of RunLifecycle is weakly fair to the worker's loop, to each run task
and to each test task: the tokio runtime polls whatever can go on, and plugins end by their
timeout (`plugin_timeout` shows the exceptions). Nothing is
assumed of clients, operators, errors or crashes, nor of the server's start.
`SubmittedRunsSettle` therefore has ways out: the service is stopped, its worker is dead, or the
run is stranded, active without a task. One error strands a run only while it is discovering,
that is before `process_run` handles errors; later it takes a second one.
The property says nothing against these three: the code allows them, and no document forbids them. In TestPhase the same holds of test tasks; new phases and
failures are not assumed. In PluginRunner the runtime polls `execute` and the readers, and the
timer elapses; of the plugin only a reader of its input is assumed to read it, and nothing
is assumed of its exit or its helpers. In Discovery every step of the run is fair, because lookups
and requests have time limits (`curl --max-time`,
`dig +timeout`); the opt-in query of crt.sh's database has none and is excepted. The other runs and
the clock are not fair. In Deployment a live worker polls and its attempts go on; nothing is
assumed of servers, clients, starts and deaths, so `RunsSettleOrAreStranded` excepts the runs no
worker is left for and those whose attempts are all lost. The `inspection` run checks safety only.

## 4. Proofs

Every safety invariant and action property that a passing run of section 3 checks, and the
refinement, is also a theorem: TLC shows it on the small instance of the run, TLAPS for every
value of the constants that the module's assumption admits. The bounds of the runs (on errors,
crashes, clocks, starts) are arbitrary numbers in the theorems.

| Module | Theorems | For every |
|---|---|---|
| RunLifecycleProofs | `InvariantHolds` (of `RowsInv`), `TypeCorrect`, `AggregatedWhole`, `CompletedReported`, `QueuedClean`, `LateWaits`, `TasksOwn` | set of runs, ids and hosts, number of active runs, errors, crashes, stops |
| RunLifecyclePromises | `PromisesInvariant` (of `IInv`), `OutcomesMatch`, `ErrorsFail`, `Finality` (`CompletedIsFinal`), `QueueRefinement` (`ImplementsRunQueue`) | the same |
| RunSubmissionProofs | `InvariantHolds`, `TypeCorrect`, `HitsReuse`, `ReadsExecuted`, `DuplicatesBounded`, `NoGap` | finite set of clients, any runs and fingerprints, window and chain limit |
| TestPhaseProofs | `InvariantHolds`, `TypeCorrect`, `PermitsConserved`, `TestsBounded` | set of runs, tests and hosts, and limits; the tests of one phase are finite |
| PluginRunnerProofs | `InvariantHolds`, `TypeCorrect`, `NoChildLeft`, `ResultsWhole` | size of the input, the pipes and the output |
| DiscoveryProofs | `InvariantHolds`, `TypeCorrect`, `PassesComplete`, `BestKept`, `SourcesSpared` | finite graph of hosts, scope, sources, depth, number of passes, cache window |
| DeploymentProofs | `InvariantHolds`, `TypeCorrect`, `ClaimsExclusive`, `AnswersFinal` | number of starts, set of hosts |
| InspectionProofs | `InvariantHolds`, `TypeCorrect`, `FirstWins`, `VerdictsSound`, `PlansFollow` | number of cpus and length of the endpoint lists |

The assumptions are those the modules name (`RunLifecycleAssumption` and so on) and nothing else.
They say that limits and bounds are numbers; that the number of
active runs (`max_concurrent_tests.max(1)`, `worker.rs:89`), the capacity of a pipe, the number of cpus, the limit of `effective_run_id` and the length of a list
of endpoints are not zero; that probes, late and bypassing ids are ids; that clients, hosts and the
tests of a phase are finitely many; and that `NoRun` is no run. The limits of TestPhase may be
zero, as the configuration's may.

None of the properties is inductive. What each invariant adds:

* **RunLifecycle.** `AggregatedRunsAreWhole` holds because the task that sets the state has seen every
  test of both phases recorded, and that holds because each test task either recorded its
  result or met a raised shutdown flag, which is still up at the last check. `RowsInv` says this
  point by point: for every control point of a run's task, the state of the run (`StateInv`), the
  row of every planned test (`TestRowInv`: absent, waiting, in flight, over, recorded), the
  test tasks that may exist (`TestTaskInv`, the aborted ones included), and what holds of a run
  whoever has it (`RunWhole`, `RunReported`, `RunClean`, `RunLateWaits`). `ProcessInv` ties the
  processes together: no task without a worker loop, no worker during recovery, only active
  runs are recovered. `IInv` adds the promises: the outcomes of the requested tests follow the
  plan from the first one planning sets, those still in `todo` excepted (`RequestsInv`), and a task
  that fails met an error, because it always finds the tables it fills empty (`ErrorsInv`). A task in
  its error handling may own a run of any active state, and one that is completed: the reply to the
  completion was lost. `MarkFailed` is then the one step that changes a completed run, and only its
  state; `CompletedIsFinal`, `TasksOwnActiveRuns` and RunQueue say so.
* **RunSubmission.** What a handler knows is old when it uses it. `HandlerInv` says what stays
  true of it: the source it found could be reused and keeps its outcomes, and where runs in flight are deduped no run
  it has seen is in flight after its first query. `RowInv` says that a cache hit names a run of its fingerprint that was reusable and
  carries the outcomes of the run at the end of the chain, which was completed: it may have been
  failed since, with its outcomes left as they were. The bound on duplicates counts
  runs in flight together with the handlers that are past their check (`DuplicatesInv`).
* **TestPhase.** `Balanced`: for each semaphore the free permits and the holders make up the limit.
* **PluginRunner.** `StreamsInv`: what was captured and what is in the pipe is what was written;
  `ReadersInv`: a reader ends only when nobody can write any more.
* **Discovery.** `Searching` is the breadth-first invariant. While hosts of depth `d` are inspected,
  every host within `d - 1` links is visited, every host within `d` is visited or waits at depth `d`,
  each link of a visited host that stays in scope and within the depth leads to a visited or
  waiting one, and the queue is ordered by depth, at most `d + 1`. `BestInv` says why no more passes follow, and `CacheInv` that the row of
  the cache is never older than what this run stored.
* **Deployment.** `StartsInv` (a start recovers the run at most once) and `ClaimsInv` count claims
  against recoveries. `AloneInv` says that as long as no server was started beside a live
  worker, the one live attempt or the recovery is the only one that writes; so an answer that has
  seen a completed run sees rows nobody changes any more (`ReadInv`).
* **HostInspection.** `ThreadInv` and `JoinedInv` say that a thread has asked the first endpoints of
  its chunk and filed those that matched, and that what is joined is what whole chunks saw;
  `VerdictInv` what is known of a host at each control point.

How the proofs go. Each has one lemma per action or group of actions, with types apart
from meaning, a lemma `NextInv` (or `InvariantStep`) that collects them, and theorems that follow
by PTL. In RunLifecycle `Frame` says that `RunInv(r)` depends only on the rows and tasks of run
`r` and on the flag, and `TaskIsolation` and `TestIsolation` that a step of one run leaves the
others alone; with them each action's lemma is about one run. The refinement is proved step
by step: `ServerQueue`, `LoopQueue`, `TaskQueue` and `TestQueue` map each action to the action of
RunQueue it performs or to a stutter, with `IInv` to know that a task owns the run it finishes.

Two properties rest on recursive functions: `Hop`, the chain of `effective_run_id`, and `Within`,
the hosts within so many links. Induction over data is out of the prover's reach, because the
library's induction theorems take an operator as a parameter. Here least counterexamples do
instead: `LeastNatural` and `UpTo` say, of a *set* of numbers, that it has a least one, or that it
has all numbers up to a bound; they follow from the library's fact that inclusion is
well-founded on finite sets. `ChainExists` and `RowExists` prove with them that the recursive
definitions have a solution, `HopIsChain` and `WithinIsRow` that the modules' functions are it. `ChunkFacts` and `Partition`
prove the arithmetic of `probe_endpoint_batch`: rounding up gives no more chunks than workers, none
is empty, and together they are the list.

Model-checked only: liveness, that is `SubmittedRunsSettle`, `ShutdownDrains`, `TestsEnd`,
`PhasesDrain`, `ExecutionsEnd`, `DiscoveryEnds` and `RunsSettleOrAreStranded`, because the prover
handles neither fairness nor ENABLED. The four disagreements of section 5 are counterexamples
that TLC finds.

## 5. Where the code and its documents disagree

* *Equivalent runs in flight are not always deduped* (`submission_race`). `submit_run` checks
  (`storage.rs:273`) and inserts (`storage.rs:325`) in separate statements, and no unique key
  guards the fingerprint. `docs/backend_v1/api_contracts.md:46` says equivalent in-flight runs
  are deduped. `DuplicatesAreBounded` says what does hold: no more duplicates than requests
  handled at a time.
* *Cache hits chain* (`submission_chain`). `find_fresh_completed_run` accepts cache-hit rows,
  so a hit is linked to the hit before it and not, as `docs/backend_v1/database_schema.md:167`
  says, to the canonical source run; a chain of more than eight rows makes reads of the run fail
  (`storage.rs:969`). The results also stay "fresh" as long as requests keep coming.
* *The host limit is per run and phase* (`test_phase_hosts`). `src/config.rs:142` describes it as
  what avoids hammering a domain; two runs on one host together exceed it.
* *A timeout does not end every test* (`plugin_timeout`). `src/runner.rs:5` speaks of honoring
  per-test timeouts. The timeout covers only the wait for the child: before it, the input is
  written without a limit; after it, both streams are read to their end, which a process the
  plugin left behind can put off for ever. `ExecutionsEnd` says what does hold.

## 6. Abstractions, and what is not modelled

Artifact rows, logs, wording of errors, scores and evidence are left out; an artifact is
inserted in the transaction of its result. Submission times in RunLifecycle are a counter.
A statement whose reply is lost has taken effect by the time the error is seen, or never does;
only the statements of aborted tests land later (`AbortedTestLands`). What a worker's crash
leaves behind has landed before the server recovers. Deployment leaves out database errors other
than clashes of keys, so its `CompletedAnswersAreFinal` says nothing of a completion whose reply is
lost: an answer "completed" may then turn to "failed". PluginRunner leaves out
errors of a reader, of serializing the input and of a kill (which is only warned about).
The `Crash` of RunLifecycle takes server and worker down together: the deployment the documents
describe is one server and one worker per database (`implementation_choices.md:30`). A server killed
alone leaves its worker running; that is what Deployment is about. There, what two workers leave in
the run's directory, which attempts share, is not followed (`report` is the row), and reads are
followed only until a server starts beside a live worker: after that an answer may mix
two attempts. `canceled` is a state
no code sets.

In HostInspection the strings are gone: how a page, a proxy's error, a provider or an SPF record
is recognised, and the parsing of tool output and of the zone file. The hosts an inspection finds
are Discovery's. A thread of a batch that has failed as a whole goes on unobserved.

Noticed on the way, with no run of their own: the update of `mark_run_failed` (`storage.rs:414`) asks
for no state, so a completed run, already reported and reused, turns to failed when the reply to
`mark_run_completed` is lost; no document says that a completion is final. While a run is in progress a status answer may count
more completed tests than planned ones, because counts are separate queries. `README.md` says that
discovery falls back to other resolvers when `dig` is unavailable; a `dig` that cannot be started
is an error (`dig_short`, `dns.rs:389`) that fails the run, and only one that ends badly or
finds nothing has a fall-back. In HostInspection every such reply leads to `Fail`, but
for DKIM. Mail, CNAME and address tests of a domain whose web server is
dead are planned and then skipped as tests of a dead host. `web_well_known` and `web_api_fuzz`,
the tests that may run on dead hosts, are in no rule of `rules.yaml`.

Not modelled: DNS and HTTP text heuristics, plugins, wire formats, configuration loading, the
debug client and the two files that are not built. `PROJECT.json` gives the reason for each.

## 7. Plan

1. Done: RunLifecycle with RunQueue; TestPhase; RunSubmission; PluginRunner; Discovery;
   Deployment; HostInspection with EndpointProbes and Planning.
2. Done: the invariant of each component, and from it every safety and action property the
   runs check; the refinement of RunQueue.
3. What is left to model is pure: target normalisation, test lists and fingerprints of a request.
