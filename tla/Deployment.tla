----------------------------- MODULE Deployment -----------------------------
(***************************************************************************)
(* One run's rows under everything that may touch them at once: server     *)
(* instances that start, recover, serve and die, the worker process each   *)
(* of them spawns and does not take along when it dies, the attempts of    *)
(* several workers at the run, and an API read that asks one query after   *)
(* the other (backend/mod.rs, backend/storage.rs).                         *)
(*                                                                         *)
(* RunLifecycle has one worker and all the steps of an attempt; here a     *)
(* step is one transaction and only the steps that meet another process    *)
(* in the database are kept. Shutdowns, errors of the database, domains    *)
(* that are too big and aborted sibling tests are modelled there.          *)
(***************************************************************************)
EXTENDS Integers, FiniteSets, Sequences

CONSTANTS
  Hosts,      \* hosts the requested test may be planned for
  MaxStarts   \* bound: starts of a server

ASSUME DeploymentAssumption == MaxStarts \in Nat \ {0}

\* The worker spawned by the n-th start is worker n. An attempt is a claim of
\* the run; every claim but the first needs a recovery, and that a start.
Workers == 1..MaxStarts
Attempts == 1..MaxStarts
\* Planned tests get new ids in every attempt.
PlannedRows == Attempts \X Hosts

VARIABLES
  \* rows of the run
  state,      \* runs.state, "absent" before the run is submitted
  found,      \* attempt whose discovery rows are there, 0 for none
  outcome,    \* run_requested_tests.state of the one requested test
  planned,    \* planned_tests.state, "absent" when there is no row
  results,    \* planned tests with a test_results row, and its artifacts
  report,     \* attempt whose row in reports is there, 0 for none
  \* server instances
  starting,   \* an instance is between its start and its socket
  requeue,    \* the run is among the ids the starting instance recovers
  serving,    \* an instance owns the socket
  starts,
  \* worker processes
  workers,    \* the live ones
  candidate,  \* workers that selected the run and have not updated it yet
  \* attempts
  step,       \* control point of process_run for each attempt
  owner,      \* worker of the attempt
  todo,       \* hosts the attempt has still to test
  claims,
  requeues,   \* history: recoveries of the run
  shared,     \* history: a server started beside a live worker
  \* an API read
  pending,    \* queries the handler has still to make
  got         \* answers it has, by query

rows == <<state, found, outcome, planned, results, report>>
instances == <<starting, requeue, serving, starts, requeues, shared>>
processes == <<workers, candidate>>
attempts == <<step, owner, todo, claims>>
reader == <<pending, got>>
vars == <<rows, instances, processes, attempts, reader>>

ActiveStates == {"discovering", "planning", "running", "aggregating"}
Settled == {"completed", "failed"}
RunStates == {"absent", "queued"} \union ActiveStates \union Settled
Outcomes == {"accepted", "expanded_to_planned_tests", "rejected_not_applicable"}
TerminalStates == {"completed", "skipped_dead_host", "failed_to_start"}
Steps == {"none", "discover", "plan", "outcome", "insert", "start", "test",
          "report", "complete", "fail", "over", "lost"}
Live(a) == step[a] \notin {"none", "over", "lost"}
NoAnswer == <<>>
NoRead == pending' = <<>> /\ got' = NoAnswer

Init ==
  /\ state = "absent"
  /\ found = 0
  /\ outcome = "accepted"
  /\ planned = [p \in PlannedRows |-> "absent"]
  /\ results = {}
  /\ report = 0
  /\ starting = FALSE
  /\ requeue = FALSE
  /\ serving = FALSE
  /\ starts = 0
  /\ workers = {}
  /\ candidate = {}
  /\ step = [a \in Attempts |-> "none"]
  /\ owner = [a \in Attempts |-> 0]
  /\ todo = [a \in Attempts |-> {}]
  /\ claims = 0
  /\ requeues = 0
  /\ shared = FALSE
  /\ pending = <<>>
  /\ got = NoAnswer

-----------------------------------------------------------------------------
\* Server instances.

\* An operator starts a server: it reads the ids of the incomplete runs. It
\* does not ask whether a worker, or another server, is still there. Reads are
\* followed only as long as no two workers can meet: beside two, an answer may
\* mix anything.
ServerStart ==
  /\ ~starting /\ starts < MaxStarts
  /\ starting' = TRUE
  /\ starts' = starts + 1
  /\ requeue' = (state \in ActiveStates)
  /\ shared' = (shared \/ workers # {})
  /\ IF shared' THEN NoRead ELSE UNCHANGED reader
  /\ UNCHANGED <<rows, serving, requeues, processes, attempts>>

\* One transaction resets the run, whatever its state has become since.
RecoverRun ==
  /\ starting /\ requeue
  /\ requeue' = FALSE
  /\ requeues' = requeues + 1
  /\ state' = "queued"
  /\ found' = 0
  /\ outcome' = "accepted"
  /\ planned' = [p \in PlannedRows |-> "absent"]
  /\ results' = {}
  /\ report' = 0
  /\ UNCHANGED <<starting, serving, starts, shared, processes, attempts, reader>>

\* The worker is spawned before the socket is bound. When another instance
\* owns the socket this one exits and leaves its worker behind.
ServerReady ==
  /\ starting /\ ~requeue
  /\ starting' = FALSE
  /\ serving' = TRUE
  /\ workers' = workers \union {starts}
  /\ UNCHANGED <<rows, requeue, starts, requeues, shared, candidate, attempts, reader>>

\* A starting instance is killed, or an error of load_state ends it.
StartFails ==
  /\ starting
  /\ starting' = FALSE
  /\ requeue' = FALSE
  /\ UNCHANGED <<rows, serving, starts, requeues, shared, processes, attempts, reader>>

\* The serving instance dies and its answer with it; its worker goes on.
ServerDies ==
  /\ serving
  /\ serving' = FALSE
  /\ NoRead
  /\ UNCHANGED <<rows, starting, requeue, starts, requeues, shared, processes, attempts>>

SubmitRun ==
  /\ serving /\ state = "absent"
  /\ state' = "queued"
  /\ UNCHANGED <<found, outcome, planned, results, report, instances, processes, attempts, reader>>

-----------------------------------------------------------------------------
\* Worker processes: claim_next_run selects a run and then updates it.

SelectCandidate(w) ==
  /\ w \in workers \ candidate
  /\ state = "queued"
  /\ candidate' = candidate \union {w}
  /\ UNCHANGED <<rows, instances, workers, attempts, reader>>

\* Mutant: an update that does not ask for the state again.
RunExists == state # "absent"

\* The state the claiming UPDATE asks for.
Claimable == state = "queued"

ClaimRun(w) ==
  /\ w \in candidate /\ Claimable
  /\ claims < MaxStarts
  /\ candidate' = candidate \ {w}
  /\ claims' = claims + 1
  /\ state' = "discovering"
  /\ step' = [step EXCEPT ![claims + 1] = "discover"]
  /\ owner' = [owner EXCEPT ![claims + 1] = w]
  /\ UNCHANGED <<found, outcome, planned, results, report, instances, workers, todo, reader>>

\* The update changed no row: another worker was faster.
ClaimLost(w) ==
  /\ w \in candidate /\ ~Claimable
  /\ candidate' = candidate \ {w}
  /\ UNCHANGED <<rows, instances, workers, attempts, reader>>

WorkerDies(w) ==
  /\ w \in workers
  /\ workers' = workers \ {w}
  /\ candidate' = candidate \ {w}
  /\ step' = [a \in Attempts |-> IF Live(a) /\ owner[a] = w THEN "lost" ELSE step[a]]
  /\ todo' = [a \in Attempts |-> IF Live(a) /\ owner[a] = w THEN {} ELSE todo[a]]
  /\ UNCHANGED <<rows, instances, owner, claims, reader>>

-----------------------------------------------------------------------------
\* The steps of an attempt. None of them asks for the state of the run.

Goto(a, s) == step' = [step EXCEPT ![a] = s]
SetState(s) == state' = s

\* Mutant: a failing attempt starts over by itself.
BackToDiscovery == "discover"

\* A failing step leads to mark_run_failed.
OnError == "fail"

\* The facts of the domain's hosts have the same ids in every attempt, so
\* they clash with those another attempt has inserted.
InsertDiscovery(a) ==
  /\ step[a] = "discover"
  /\ \/ found = 0 /\ found' = a /\ Goto(a, "plan")
     \/ found # 0 /\ UNCHANGED found /\ Goto(a, OnError)
  /\ UNCHANGED <<state, outcome, planned, results, report, instances, processes,
                 owner, todo, claims, reader>>

StartPlanning(a) ==
  /\ step[a] = "plan"
  /\ SetState("planning")
  /\ \E hosts \in SUBSET Hosts : todo' = [todo EXCEPT ![a] = hosts]
  /\ Goto(a, "outcome")
  /\ UNCHANGED <<found, outcome, planned, results, report, instances, processes,
                 owner, claims, reader>>

SetOutcome(a) ==
  /\ step[a] = "outcome"
  /\ outcome' = IF todo[a] = {} THEN "rejected_not_applicable" ELSE "expanded_to_planned_tests"
  /\ Goto(a, "insert")
  /\ UNCHANGED <<state, found, planned, results, report, instances, processes,
                 owner, todo, claims, reader>>

InsertPlanned(a) ==
  /\ step[a] = "insert"
  /\ planned' = [p \in PlannedRows |-> IF p[1] = a /\ p[2] \in todo[a] THEN "queued" ELSE planned[p]]
  /\ Goto(a, IF todo[a] = {} THEN "test" ELSE "start")
  /\ UNCHANGED <<state, found, outcome, results, report, instances, processes,
                 owner, todo, claims, reader>>

StartRunning(a) ==
  /\ step[a] = "start"
  /\ SetState("running")
  /\ Goto(a, "test")
  /\ UNCHANGED <<found, outcome, planned, results, report, instances, processes,
                 owner, todo, claims, reader>>

\* Mutant: a schema without the foreign key to planned_tests.
AnyRow(p) == p \in PlannedRows

\* A result refers to its planned test, which a recovery may have deleted.
RowIsThere(p) == planned[p] # "absent"

RecordResult(a, h) ==
  LET p == <<a, h>> IN
  /\ step[a] = "test" /\ h \in todo[a]
  /\ \/ /\ RowIsThere(p)
        /\ results' = results \union {p}
        /\ \E s \in TerminalStates :
             planned' = [planned EXCEPT ![p] = IF @ = "absent" THEN @ ELSE s]
        /\ todo' = [todo EXCEPT ![a] = @ \ {h}]
        /\ UNCHANGED step
     \/ /\ ~RowIsThere(p)
        /\ todo' = [todo EXCEPT ![a] = {}]
        /\ Goto(a, OnError)
        /\ UNCHANGED <<planned, results>>
  /\ UNCHANGED <<state, found, outcome, report, instances, processes, owner, claims, reader>>

StartAggregating(a) ==
  /\ step[a] = "test" /\ todo[a] = {}
  /\ SetState("aggregating")
  /\ Goto(a, "report")
  /\ UNCHANGED <<found, outcome, planned, results, report, instances, processes,
                 owner, todo, claims, reader>>

RecordReport(a) ==
  /\ step[a] = "report"
  /\ report' = a
  /\ Goto(a, "complete")
  /\ UNCHANGED <<state, found, outcome, planned, results, instances, processes,
                 owner, todo, claims, reader>>

MarkCompleted(a) ==
  /\ step[a] = "complete"
  /\ SetState("completed")
  /\ Goto(a, "over")
  /\ UNCHANGED <<found, outcome, planned, results, report, instances, processes,
                 owner, todo, claims, reader>>

MarkFailed(a) ==
  /\ step[a] = "fail"
  /\ SetState("failed")
  /\ Goto(a, "over")
  /\ UNCHANGED <<found, outcome, planned, results, report, instances, processes,
                 owner, todo, claims, reader>>

Attempt(a) ==
  \/ InsertDiscovery(a) \/ StartPlanning(a) \/ SetOutcome(a) \/ InsertPlanned(a)
  \/ StartRunning(a) \/ (\E h \in Hosts : RecordResult(a, h))
  \/ StartAggregating(a) \/ RecordReport(a) \/ MarkCompleted(a) \/ MarkFailed(a)

-----------------------------------------------------------------------------
\* API reads: one handler, one query at a time, no transaction around them.

CountOf(s) == Cardinality({p \in PlannedRows : planned[p] = s})

\* load_run_counts
Counts ==
  [planned |-> Cardinality({p \in PlannedRows : planned[p] # "absent"}),
   completed |-> CountOf("completed"),
   failed_to_start |-> CountOf("failed_to_start"),
   rejected |-> IF outcome = "rejected_not_applicable" THEN 1 ELSE 0]

CountQueries == <<"planned", "completed", "failed_to_start", "rejected">>

\* load_results: the rows, then the artifacts inserted with them.
ResultQueries == <<"results", "artifactsOfResults">>

EvidenceQueries == <<"siteProfiles", "deadHosts", "artifacts">>

\* What a query answers now. The report's artifact is inserted with its row.
Answer(q) ==
  CASE q = "row" -> state
    [] q = "requested" -> outcome
    [] q \in DOMAIN Counts -> Counts[q]
    [] q \in {"results", "artifactsOfResults"} -> results
    [] q \in {"siteProfiles", "deadHosts"} -> found
    [] q = "artifacts" -> <<results, report>>

\* Mutant: the row is read last.
StatusRowLast == CountQueries \o <<"requested", "row">>

StatusQueries == <<"row">> \o CountQueries \o <<"requested">>
ResultsQueries == <<"row", "requested">> \o ResultQueries
ReportQueries ==
  <<"row", "requested">> \o CountQueries \o ResultQueries \o EvidenceQueries

Endpoints == {StatusQueries, ResultsQueries, ReportQueries}

Ask(e) ==
  /\ serving /\ ~shared /\ pending = <<>> /\ got = NoAnswer
  /\ pending' = e
  /\ UNCHANGED <<rows, instances, processes, attempts, got>>

NotFound ==
  /\ pending # <<>> /\ Head(pending) = "row" /\ state = "absent"
  /\ NoRead
  /\ UNCHANGED <<rows, instances, processes, attempts>>

Query ==
  /\ pending # <<>>
  /\ Head(pending) = "row" => state # "absent"
  /\ LET q == Head(pending) IN
       got' = [k \in DOMAIN got \union {q} |-> IF k = q THEN Answer(q) ELSE got[k]]
  /\ pending' = Tail(pending)
  /\ UNCHANGED <<rows, instances, processes, attempts>>

Respond ==
  /\ pending = <<>> /\ got # NoAnswer
  /\ got' = NoAnswer
  /\ UNCHANGED <<rows, instances, processes, attempts, pending>>

-----------------------------------------------------------------------------
Next ==
  \/ ServerStart \/ RecoverRun \/ ServerReady \/ StartFails \/ ServerDies \/ SubmitRun
  \/ \E w \in Workers : SelectCandidate(w) \/ ClaimRun(w) \/ ClaimLost(w) \/ WorkerDies(w)
  \/ \E a \in Attempts : Attempt(a)
  \/ (\E e \in Endpoints : Ask(e)) \/ NotFound \/ Query \/ Respond

\* A live worker polls and its tasks go on. Nothing is assumed of servers,
\* clients, starts or deaths.
Fairness ==
  /\ \A w \in Workers : WF_vars(SelectCandidate(w) \/ ClaimRun(w) \/ ClaimLost(w))
  /\ \A a \in Attempts : WF_vars(Attempt(a))

Spec == Init /\ [][Next]_vars
FairSpec == Spec /\ Fairness

-----------------------------------------------------------------------------
\* Properties.

\* Types, and the foreign key of test_results: a result has its planned test,
\* whose state is terminal.
TypeOK ==
  /\ state \in RunStates
  /\ found \in 0..MaxStarts /\ report \in 0..MaxStarts
  /\ outcome \in Outcomes
  /\ planned \in [PlannedRows -> {"absent", "queued"} \union TerminalStates]
  /\ results \subseteq PlannedRows
  /\ \A p \in results : planned[p] \in TerminalStates
  /\ {starting, requeue, serving, shared} \subseteq BOOLEAN
  /\ starts \in 0..MaxStarts /\ claims \in 0..MaxStarts /\ requeues \in 0..MaxStarts
  /\ candidate \subseteq workers /\ workers \subseteq 1..starts
  /\ step \in [Attempts -> Steps]
  /\ owner \in [Attempts -> 0..MaxStarts]
  /\ todo \in [Attempts -> SUBSET Hosts]

\* However many workers poll the queue, a run is claimed once for its
\* submission and once for each recovery: the second of two workers that
\* selected it finds it claimed.
ClaimsAreExclusive ==
  claims + (IF state = "queued" THEN 1 ELSE 0) <= 1 + requeues

\* A status, results or report answer that says a run is completed holds only
\* final values, although its queries run beside a worker that writes: what
\* was read is what the database says now and ever after. It holds while no
\* server was started beside a live worker.
CompletedAnswersAreFinal ==
  ("row" \in DOMAIN got /\ got["row"] = "completed") =>
     \A q \in DOMAIN got : got[q] = Answer(q)

\* A submitted run settles even when workers of several servers work on it at
\* once and their rows clash, unless no worker is left or the run is active
\* and its attempts are lost.
RunsSettleOrAreStranded ==
  (state \in {"queued"} \union ActiveStates) ~>
    \/ state \in Settled
    \/ workers = {}
    \/ state \in ActiveStates /\ \A a \in Attempts : ~Live(a)
=============================================================================
