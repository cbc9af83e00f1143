---------------------------- MODULE RunSubmission ---------------------------
(***************************************************************************)
(* Submission of runs (Storage::submit_run, called by create_run): a       *)
(* request attaches to an equivalent run in flight, reuses a fresh         *)
(* completed one, or queues a run of its own, by three database steps that *)
(* are not one transaction.  Requests are concurrent; meanwhile the worker *)
(* claims and finishes runs and a restart re-queues them.                  *)
(***************************************************************************)
EXTENDS Integers, FiniteSets

CONSTANTS
  Runs,            \* run ids
  NoRun,           \* NULL as a run id
  NoRequest,       \* the request of an idle handler
  Fingerprints,    \* request fingerprints: equivalent requests have the same
  Clients,         \* requests handled at a time
  Window,          \* cache.freshness_window_seconds
  DedupeInflight,  \* cache.dedupe_inflight
  ChainLimit,      \* rows effective_run_id looks at, 8 in the code
  MaxTime,         \* bound: last moment of the clock
  MaxUnsure        \* bound: lost replies to completions, at a time

ASSUME RunSubmissionAssumption ==
  /\ NoRun \notin Runs
  /\ IsFiniteSet(Clients)
  /\ Window \in Nat
  /\ DedupeInflight \in BOOLEAN
  /\ ChainLimit \in Nat \ {0}
  /\ MaxTime \in Nat
  /\ MaxUnsure \in Nat

VARIABLES
  runState,     \* runs.state, "active" for the four states of a claimed run
  fingerprint,  \* runs.request_fingerprint
  forced,       \* runs.force_refresh
  completedAt,  \* runs.completed_at of the runs that can be reused, else 0
  reusedFrom,   \* runs.reused_from_run_id
  outcomesOf,   \* the run whose planning gave the run_requested_tests rows
  unsure,       \* completed runs whose worker lost the reply to the update
  pc,           \* where the handler of each client's request is
  request,      \* fingerprint and force_refresh of the request
  source,       \* the fresh run the handler found
  seen,         \* history: equivalent runs in flight when the request came,
                \* kept until the last query
  clock

rows == <<runState, fingerprint, forced, completedAt, reusedFrom, outcomesOf>>
handlers == <<pc, request, source, seen>>
vars == <<rows, unsure, handlers, clock>>

\* Mutants: queued runs are not in flight; failed runs can be reused.
ClaimedStates == {"active"}
FinishedStates == {"completed", "cache_hit", "failed"}

InflightStates == {"queued", "active"}
ReusableStates == {"completed", "cache_hit"}
RunStates == {"absent", "failed"} \union InflightStates \union ReusableStates
Requests == [fingerprint : Fingerprints, force : BOOLEAN]

Init ==
  /\ runState = [r \in Runs |-> "absent"]
  /\ \E f \in Fingerprints : fingerprint = [r \in Runs |-> f]
  /\ forced = [r \in Runs |-> FALSE]
  /\ completedAt = [r \in Runs |-> 0]
  /\ reusedFrom = [r \in Runs |-> NoRun]
  /\ outcomesOf = [r \in Runs |-> NoRun]
  /\ unsure = {}
  /\ pc = [c \in Clients |-> "idle"]
  /\ request = [c \in Clients |-> NoRequest]
  /\ source = [c \in Clients |-> NoRun]
  /\ seen = [c \in Clients |-> {}]
  /\ clock = 0

-----------------------------------------------------------------------------
\* The handler of a request.

Equivalent(f, states) == {r \in Runs : runState[r] \in states /\ fingerprint[r] = f}

\* The query after the in-flight check, and the one after that.
AfterInflight == IF Window > 0 THEN "findFresh" ELSE "insert"
\* Mutant: the state of the new run taken for the handler's.
FirstQueryQueued(q) == IF q.force THEN "queued" ELSE AfterInflight

FirstQuery(q) ==
  IF q.force THEN "insert" ELSE IF DedupeInflight THEN "findInflight" ELSE AfterInflight

\* The handler is done and its request forgotten.
Respond(c) ==
  /\ pc' = [pc EXCEPT ![c] = "idle"]
  /\ request' = [request EXCEPT ![c] = NoRequest]
  /\ source' = [source EXCEPT ![c] = NoRun]
  /\ seen' = [seen EXCEPT ![c] = {}]

Request(c) ==
  /\ pc[c] = "idle"
  /\ \E q \in Requests :
       /\ request' = [request EXCEPT ![c] = q]
       /\ pc' = [pc EXCEPT ![c] = FirstQuery(q)]
       /\ seen' = [seen EXCEPT ![c] =
                    IF q.force THEN {} ELSE Equivalent(q.fingerprint, InflightStates)]
  /\ UNCHANGED <<rows, unsure, source, clock>>

\* find_inflight_run: the response names the latest equivalent run in flight.
FindInflight(c) ==
  /\ pc[c] = "findInflight"
  /\ LET inflight == Equivalent(request[c].fingerprint, InflightStates)
     IN  \/ inflight # {} /\ Respond(c)
         \/ /\ inflight = {}
            /\ pc' = [pc EXCEPT ![c] = AfterInflight]
            /\ UNCHANGED <<request, source, seen>>
  /\ UNCHANGED <<rows, unsure, clock>>

\* Mutant: a window that is open at its old end.
YoungRuns(f) == {r \in Equivalent(f, ReusableStates) : completedAt[r] > clock - Window}

\* find_fresh_completed_run.
FreshRuns(f) == {r \in Equivalent(f, ReusableStates) : completedAt[r] >= clock - Window}

FindFresh(c) ==
  /\ pc[c] = "findFresh"
  /\ LET fresh == FreshRuns(request[c].fingerprint)
     IN  \/ /\ \E r \in fresh :
                 /\ \A q \in fresh : completedAt[q] <= completedAt[r]
                 /\ source' = [source EXCEPT ![c] = r]
            /\ pc' = [pc EXCEPT ![c] = "insertHit"]
         \/ /\ fresh = {}
            /\ pc' = [pc EXCEPT ![c] = "insert"]
            /\ UNCHANGED source
  /\ seen' = [seen EXCEPT ![c] = {}]
  /\ UNCHANGED <<rows, unsure, request, clock>>

\* A new id; ids are random and never compared.
NewRun == CHOOSE r \in Runs : runState[r] = "absent"

\* The row both transactions insert.
InsertRun(c, state, from) ==
  /\ \E r \in Runs : runState[r] = "absent"
  /\ runState' = [runState EXCEPT ![NewRun] = state]
  /\ fingerprint' = [fingerprint EXCEPT ![NewRun] = request[c].fingerprint]
  /\ forced' = [forced EXCEPT ![NewRun] = request[c].force]
  /\ reusedFrom' = [reusedFrom EXCEPT ![NewRun] = from]
  /\ Respond(c)
  /\ UNCHANGED <<unsure, clock>>

\* Mutant: the source is taken for the run that was executed.
SourceOutcomes(c) == source[c]

\* The INSERT ... SELECT of the requested tests.
CopiedOutcomes(c) == outcomesOf[source[c]]

\* The cache-hit row is completed at once; its requested tests are copied.
InsertHit(c) ==
  /\ pc[c] = "insertHit"
  /\ InsertRun(c, "cache_hit", source[c])
  /\ completedAt' = [completedAt EXCEPT ![NewRun] = clock]
  /\ outcomesOf' = [outcomesOf EXCEPT ![NewRun] = CopiedOutcomes(c)]

InsertQueued(c) ==
  /\ pc[c] = "insert"
  /\ InsertRun(c, "queued", NoRun)
  /\ UNCHANGED <<completedAt, outcomesOf>>

\* A failing query, or a client that goes away, ends the handler.
RequestDropped(c) ==
  /\ pc[c] # "idle"
  /\ Respond(c)
  /\ UNCHANGED <<rows, unsure, clock>>

-----------------------------------------------------------------------------
\* The worker and the restarts, as far as submission sees them: which run is
\* claimed next, and the completion time of a failed run, do not matter here.

Claim(r) ==
  /\ runState[r] = "queued"
  /\ runState' = [runState EXCEPT ![r] = "active"]
  /\ UNCHANGED <<fingerprint, forced, completedAt, reusedFrom, outcomesOf,
                 unsure, handlers, clock>>

\* mark_run_completed, after planning has set the outcomes of the requested
\* tests; the reply to the update may be lost.
Complete(r) ==
  /\ runState[r] = "active"
  /\ runState' = [runState EXCEPT ![r] = "completed"]
  /\ completedAt' = [completedAt EXCEPT ![r] = clock]
  /\ outcomesOf' = [outcomesOf EXCEPT ![r] = r]
  /\ \/ UNCHANGED unsure
     \/ Cardinality(unsure) < MaxUnsure /\ unsure' = unsure \union {r}
  /\ UNCHANGED <<fingerprint, forced, reusedFrom, handlers, clock>>

\* mark_run_failed, of a run in work or of one whose completion went unnoticed.
Fail(r) ==
  /\ runState[r] = "active" \/ r \in unsure
  /\ runState' = [runState EXCEPT ![r] = "failed"]
  /\ completedAt' = [completedAt EXCEPT ![r] = 0]
  /\ unsure' = unsure \ {r}
  /\ UNCHANGED <<fingerprint, forced, reusedFrom, outcomesOf, handlers, clock>>

\* A restart: handlers and worker are gone, and recover_incomplete_runs re-queues
\* every active run before the next request is served.
Restart ==
  /\ runState' = [r \in Runs |-> IF runState[r] = "active" THEN "queued" ELSE runState[r]]
  /\ reusedFrom' = [r \in Runs |-> IF runState[r] = "active" THEN NoRun ELSE reusedFrom[r]]
  /\ outcomesOf' = [r \in Runs |-> IF runState[r] = "active" THEN NoRun ELSE outcomesOf[r]]
  /\ unsure' = {}
  /\ pc' = [c \in Clients |-> "idle"]
  /\ request' = [c \in Clients |-> NoRequest]
  /\ source' = [c \in Clients |-> NoRun]
  /\ seen' = [c \in Clients |-> {}]
  /\ UNCHANGED <<fingerprint, forced, completedAt, clock>>

Tick ==
  /\ clock < MaxTime
  /\ clock' = clock + 1
  /\ UNCHANGED <<rows, unsure, handlers>>

-----------------------------------------------------------------------------
Handle(c) ==
  \/ Request(c)
  \/ FindInflight(c)
  \/ FindFresh(c)
  \/ InsertHit(c)
  \/ InsertQueued(c)
  \/ RequestDropped(c)

Work(r) ==
  \/ Claim(r)
  \/ Complete(r)
  \/ Fail(r)

Next ==
  \/ \E c \in Clients : Handle(c)
  \/ \E r \in Runs : Work(r)
  \/ Restart
  \/ Tick

Spec == Init /\ [][Next]_vars

-----------------------------------------------------------------------------
\* effective_run_id: the row reached after n hops from run r.
Hop(r, n) ==
  LET row[k \in 0..n] ==
        IF k = 0 THEN r
        ELSE IF reusedFrom[row[k - 1]] = NoRun THEN row[k - 1] ELSE reusedFrom[row[k - 1]]
  IN  row[n]
EffectiveRunId(r) == Hop(r, ChainLimit - 1)
Resolves(r) == reusedFrom[EffectiveRunId(r)] = NoRun

-----------------------------------------------------------------------------
\* The variables have their types.
TypeOK ==
  /\ runState \in [Runs -> RunStates]
  /\ fingerprint \in [Runs -> Fingerprints]
  /\ forced \in [Runs -> BOOLEAN]
  /\ completedAt \in [Runs -> Nat]
  /\ reusedFrom \in [Runs -> Runs \union {NoRun}]
  /\ outcomesOf \in [Runs -> Runs \union {NoRun}]
  /\ unsure \in SUBSET Runs
  /\ pc \in [Clients -> {"idle", "findInflight", "findFresh", "insertHit", "insert"}]
  /\ request \in [Clients -> Requests \union {NoRequest}]
  /\ source \in [Clients -> Runs \union {NoRun}]
  /\ seen \in [Clients -> SUBSET Runs]
  /\ clock \in Nat

\* Runs that were completed: one may have failed since, by a lost reply.
WasCompleted(r) == runState[r] = "completed" \/ (runState[r] = "failed" /\ outcomesOf[r] = r)
WasReusable(r) == runState[r] = "cache_hit" \/ WasCompleted(r)

\* A cache hit reuses an equivalent run that was completed, and the outcomes
\* copied to it belong to the run whose results are read in its place: neither
\* the time between lookup and insert, nor a restart, nor a completion that is
\* taken for a failure lets them differ.
HitsReuseCompletedRuns ==
  \A h \in Runs : runState[h] = "cache_hit" =>
    LET s == reusedFrom[h]
    IN  /\ s \in Runs /\ WasReusable(s)
        /\ fingerprint[s] = fingerprint[h]
        /\ outcomesOf[s] = outcomesOf[h]
        /\ outcomesOf[h] \in Runs /\ WasCompleted(outcomesOf[h])

\* Where effective_run_id resolves a run, it gives the run that was executed.
ReadsAreOfTheExecutedRun ==
  \A r \in Runs : runState[r] \in ReusableStates /\ Resolves(r) =>
    EffectiveRunId(r) = outcomesOf[r]

\* Runs in flight that no client forced.
Unforced(f) == {r \in Equivalent(f, InflightStates) : ~forced[r]}

\* The window between the check and the insert lets equivalent runs in flight
\* pile up to the number of requests handled at a time, and no further.
DuplicatesAreBounded ==
  DedupeInflight => \A f \in Fingerprints : Cardinality(Unforced(f)) <= Cardinality(Clients)

\* A request queues a run of its own only when each equivalent run that was in
\* flight as it came has failed or is no longer fresh: a run that finishes
\* between the two checks is seen by the second.
NoGapBetweenChecks ==
  [][\A c \in Clients : DedupeInflight /\ pc[c] = "findFresh" /\ pc'[c] = "insert" =>
       \A r \in seen[c] : \/ runState[r] = "failed"
                          \/ runState[r] = "completed" /\ completedAt[r] < clock - Window]_vars

\* "equivalent in-flight runs are deduped" (api_contracts.md:46).
EquivalentRunsAreDeduped ==
  DedupeInflight => \A f \in Fingerprints : Cardinality(Unforced(f)) <= 1

\* A reuse chain is never "unexpectedly deep" (storage.rs:969): the results of
\* every cache hit can be read.
ReuseChainsResolve ==
  \A r \in Runs : runState[r] = "cache_hit" => Resolves(r)
=============================================================================
