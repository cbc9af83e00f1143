------------------------ MODULE RunSubmissionProofs -------------------------
(***************************************************************************)
(* Proofs about RunSubmission for every set of runs, fingerprints and      *)
(* clients, every window and every chain limit: type correctness, what a   *)
(* cache hit copies, how many duplicates there can be, and that no run in  *)
(* flight slips between the two lookups.                                   *)
(***************************************************************************)
EXTENDS RunSubmission, FiniteSetTheorems, TLAPS

-----------------------------------------------------------------------------
(* The inductive invariant                                                 *)

\* What the handler of client c knows at each of its queries.
HandlerInv(c) ==
  /\ pc[c] # "idle" => request[c] \in Requests
  /\ pc[c] \in {"findInflight", "findFresh"} =>
       /\ ~request[c].force
       /\ \A r \in seen[c] :
            /\ fingerprint[r] = request[c].fingerprint
            /\ runState[r] \in InflightStates \union {"completed", "failed"}
  /\ pc[c] = "findFresh" /\ DedupeInflight => \A r \in seen[c] : runState[r] \notin InflightStates
  /\ pc[c] = "insertHit" =>
       /\ source[c] \in Runs
       /\ WasReusable(source[c])
       /\ fingerprint[source[c]] = request[c].fingerprint

\* The rows of runs: whose outcomes they carry and whose results they name.
RowInv(r) ==
  /\ r \in unsure => runState[r] = "completed"
  /\ runState[r] = "completed" => outcomesOf[r] = r
  /\ runState[r] = "cache_hit" =>
       /\ outcomesOf[r] \in Runs /\ WasCompleted(outcomesOf[r])
       /\ reusedFrom[r] \in Runs /\ WasReusable(reusedFrom[r])
       /\ fingerprint[reusedFrom[r]] = fingerprint[r]
       /\ outcomesOf[reusedFrom[r]] = outcomesOf[r]
  /\ runState[r] # "cache_hit" => reusedFrom[r] = NoRun

\* Handlers that have seen no equivalent run in flight and may queue one.
PastCheck(f) ==
  {c \in Clients : /\ pc[c] \in {"findFresh", "insert"}
                   /\ request[c].fingerprint = f /\ ~request[c].force}

\* A handler passes the check only when nothing equivalent is in flight, so the
\* runs in flight and the handlers that may add to them never outnumber clients.
DuplicatesInv(f) ==
  /\ IsFiniteSet(Unforced(f))
  /\ Cardinality(Unforced(f)) + Cardinality(PastCheck(f)) <= Cardinality(Clients)

IInv ==
  /\ TypeOK
  /\ \A c \in Clients : HandlerInv(c)
  /\ \A r \in Runs : RowInv(r)

CountInv == DedupeInflight => \A f \in Fingerprints : DuplicatesInv(f)

-----------------------------------------------------------------------------
(* Type correctness and the rows of one step                               *)

\* A new id is one that no run has yet.
LEMMA NewRunIsNew ==
  ASSUME \E r \in Runs : runState[r] = "absent"
  PROVE  NewRun \in Runs /\ runState[NewRun] = "absent"
<1>1. QED
  BY DEF NewRun

\* Initially everything is as the invariant says.
LEMMA InitInv == Init => IInv
<1> SUFFICES ASSUME Init PROVE IInv
  OBVIOUS
<1> USE DEF Init
<1>1. TypeOK
  BY DEF TypeOK, RunStates
<1>2. ASSUME NEW c \in Clients PROVE HandlerInv(c)
  BY DEF HandlerInv
<1>3. ASSUME NEW r \in Runs PROVE RowInv(r)
  BY DEF RowInv, ReusableStates
<1>4. QED
  BY <1>1, <1>2, <1>3 DEF IInv

\* The requests of handlers, as far as a step leaves a handler alone.
SameHandler(c) ==
  /\ pc'[c] = pc[c] /\ request'[c] = request[c]
  /\ source'[c] = source[c] /\ seen'[c] = seen[c]

\* An answered request leaves an idle handler and the others as they were.
LEMMA RespondTypes ==
  ASSUME TypeOK, NEW c \in Clients, Respond(c)
  PROVE  /\ pc' \in [Clients -> {"idle", "findInflight", "findFresh", "insertHit", "insert"}]
         /\ request' \in [Clients -> Requests \union {NoRequest}]
         /\ source' \in [Clients -> Runs \union {NoRun}]
         /\ seen' \in [Clients -> SUBSET Runs]
         /\ pc'[c] = "idle"
         /\ \A d \in Clients \ {c} : SameHandler(d)
<1>1. QED
  BY DEF TypeOK, Respond, SameHandler

\* States that runs only leave: a run once queued is never absent again, and
\* one that could be reused keeps its request and its outcomes.
MovesOn(r) ==
  /\ runState[r] # "absent" => runState'[r] # "absent" /\ fingerprint'[r] = fingerprint[r]
  /\ runState[r] \in InflightStates => runState'[r] \in InflightStates \union {"completed", "failed"}
  /\ runState[r] \in {"completed", "failed"} => runState'[r] \in {"completed", "failed"}
  /\ runState[r] = "failed" => runState'[r] = "failed"
  /\ runState[r] = "cache_hit" => runState'[r] = "cache_hit"
  /\ WasReusable(r) => outcomesOf'[r] = outcomesOf[r]
  /\ WasCompleted(r) => WasCompleted(r)'

\* Reusable runs are among those that were.
LEMMA ReusableWas ==
  ASSUME NEW r \in Runs, RowInv(r), runState[r] \in ReusableStates
  PROVE  WasReusable(r)
<1>1. QED
  BY DEF RowInv, ReusableStates, WasReusable, WasCompleted

\* A handler that a step leaves alone keeps its invariant while runs move on.
LEMMA HandlerFrame ==
  ASSUME TypeOK, NEW c \in Clients, HandlerInv(c), SameHandler(c), \A r \in Runs : MovesOn(r)
  PROVE  HandlerInv(c)'
<1> USE DEF SameHandler, MovesOn, HandlerInv, InflightStates, ReusableStates
<1>1. pc'[c] # "idle" => request'[c] \in Requests
  OBVIOUS
<1>2. ASSUME pc'[c] \in {"findInflight", "findFresh"}
      PROVE  /\ ~request'[c].force
             /\ \A r \in seen'[c] :
                  /\ fingerprint'[r] = request'[c].fingerprint
                  /\ runState'[r] \in InflightStates \union {"completed", "failed"}
  BY <1>2 DEF TypeOK
<1>3. ASSUME pc'[c] = "findFresh", DedupeInflight, NEW r \in seen'[c]
      PROVE  runState'[r] \notin InflightStates
  BY <1>3 DEF TypeOK
<1>4. ASSUME pc'[c] = "insertHit"
      PROVE  /\ source'[c] \in Runs
             /\ WasReusable(source[c])'
             /\ fingerprint'[source'[c]] = request'[c].fingerprint
  BY <1>4 DEF WasReusable, WasCompleted
<1>5. QED
  BY <1>1, <1>2, <1>3, <1>4

SameRow(r) ==
  /\ runState'[r] = runState[r] /\ fingerprint'[r] = fingerprint[r]
  /\ reusedFrom'[r] = reusedFrom[r] /\ outcomesOf'[r] = outcomesOf[r]
  /\ r \in unsure' => r \in unsure

\* A row that a step leaves alone keeps its invariant while the rows that
\* could be reused keep theirs.
LEMMA RowFrame ==
  ASSUME \A q \in Runs : RowInv(q), NEW r \in Runs, SameRow(r), \A q \in Runs : MovesOn(q)
  PROVE  RowInv(r)'
<1>1. CASE runState[r] = "cache_hit"
  <2>1. PICK s \in Runs : s = reusedFrom[r]
    BY <1>1 DEF RowInv
  <2>2. PICK e \in Runs : e = outcomesOf[r]
    BY <1>1 DEF RowInv
  <2>3. /\ WasReusable(s) /\ fingerprint[s] = fingerprint[r] /\ outcomesOf[s] = e
        /\ WasCompleted(e) /\ r \notin unsure
    BY <1>1, <2>1, <2>2 DEF RowInv
  <2>4. runState[s] # "absent" /\ MovesOn(s) /\ MovesOn(e)
    BY <2>3 DEF WasReusable, WasCompleted
  <2>5. WasReusable(s)' /\ fingerprint'[s] = fingerprint[s] /\ outcomesOf'[s] = e /\ WasCompleted(e)'
    BY <2>3, <2>4 DEF MovesOn, WasReusable
  <2>6. QED
    BY <1>1, <2>1, <2>2, <2>3, <2>5 DEF RowInv, SameRow, WasReusable, WasCompleted
<1>2. CASE runState[r] # "cache_hit"
  BY <1>2 DEF RowInv, SameRow
<1>3. QED
  BY <1>1, <1>2

\* Steps that leave every row alone.
LEMMA RowsKept ==
  ASSUME IInv, UNCHANGED <<rows, unsure>>
  PROVE  /\ \A r \in Runs : RowInv(r)'
         /\ \A r \in Runs : MovesOn(r)
<1>1. \A r \in Runs : SameRow(r)
  BY DEF rows, SameRow
<1>2. \A r \in Runs : MovesOn(r)
  BY DEF rows, MovesOn, InflightStates, WasReusable, WasCompleted
<1>3. QED
  BY <1>1, <1>2, RowFrame DEF IInv

-----------------------------------------------------------------------------
(* The steps of a handler                                                  *)

\* A request comes: its handler goes to the first query it needs.
LEMMA RequestInv ==
  ASSUME IInv, NEW c \in Clients, Request(c)
  PROVE  IInv'
<1> USE DEF IInv
<1>1. UNCHANGED <<rows, unsure, source, clock>>
  BY DEF Request
<1>2. PICK q \in Requests :
        /\ request' = [request EXCEPT ![c] = q]
        /\ pc' = [pc EXCEPT ![c] = FirstQuery(q)]
        /\ seen' = [seen EXCEPT ![c] =
                     IF q.force THEN {} ELSE Equivalent(q.fingerprint, InflightStates)]
  BY DEF Request
<1>3. FirstQuery(q) \in {"findInflight", "findFresh", "insert"} /\ (q.force => FirstQuery(q) = "insert")
  BY DEF FirstQuery, AfterInflight
<1>4. Equivalent(q.fingerprint, InflightStates) \subseteq Runs
  BY DEF Equivalent
<1>5. TypeOK'
  BY <1>1, <1>2, <1>3, <1>4 DEF TypeOK, rows
<1>6. HandlerInv(c)'
  <2>1. pc'[c] = FirstQuery(q) /\ request'[c] = q
    BY <1>2 DEF TypeOK
  <2>2. ~q.force => seen'[c] = Equivalent(q.fingerprint, InflightStates)
    BY <1>2 DEF TypeOK
  <2>3. ~q.force => \A r \in seen'[c] : fingerprint'[r] = q.fingerprint /\ runState'[r] \in InflightStates
    BY <1>1, <2>2 DEF Equivalent, rows
  <2>4. pc'[c] = "findFresh" => ~DedupeInflight
    BY <2>1 DEF FirstQuery
  <2>5. QED
    BY <1>3, <2>1, <2>3, <2>4 DEF HandlerInv
<1>7. ASSUME NEW d \in Clients, d # c PROVE HandlerInv(d)'
  <2>1. SameHandler(d)
    BY <1>1, <1>2, <1>7 DEF SameHandler, TypeOK
  <2>2. QED
    BY <1>1, <2>1, RowsKept, HandlerFrame
<1>8. QED
  BY <1>1, <1>5, <1>6, <1>7, RowsKept

\* A handler that has responded is idle, and the others are as before.
LEMMA RespondInv ==
  ASSUME IInv, NEW c \in Clients, Respond(c), \A r \in Runs : MovesOn(r)
  PROVE  \A d \in Clients : HandlerInv(d)'
<1> USE DEF IInv
<1>1. HandlerInv(c)'
  BY RespondTypes DEF HandlerInv
<1>2. ASSUME NEW d \in Clients, d # c PROVE HandlerInv(d)'
  BY <1>2, RespondTypes, HandlerFrame
<1>3. QED
  BY <1>1, <1>2

\* The lookup of a run in flight, and the handlers that respond without a row.
LEMMA FindInflightInv ==
  ASSUME IInv, NEW c \in Clients, FindInflight(c)
  PROVE  IInv'
<1> USE DEF IInv
<1> DEFINE inflight == Equivalent(request[c].fingerprint, InflightStates)
<1>1. UNCHANGED <<rows, unsure, clock>>
  BY DEF FindInflight
<1>2. CASE Respond(c)
  BY <1>1, <1>2, RowsKept, RespondInv, RespondTypes DEF TypeOK, rows
<1>3. CASE ~Respond(c)
  <2>1. /\ inflight = {} /\ pc[c] = "findInflight"
        /\ pc' = [pc EXCEPT ![c] = AfterInflight]
        /\ UNCHANGED <<request, source, seen>>
    BY <1>3 DEF FindInflight
  <2>2. AfterInflight \in {"findFresh", "insert"}
    BY DEF AfterInflight
  <2>3. TypeOK'
    BY <1>1, <2>1, <2>2 DEF TypeOK, rows
  <2>4. \A r \in seen[c] : runState[r] \notin InflightStates
    BY <2>1 DEF HandlerInv, Equivalent, TypeOK
  <2>5. HandlerInv(c)'
    BY <1>1, <2>1, <2>2, <2>4 DEF HandlerInv, TypeOK, rows
  <2>6. ASSUME NEW d \in Clients, d # c PROVE HandlerInv(d)'
    <3>1. SameHandler(d)
      BY <2>1, <2>6 DEF SameHandler, TypeOK
    <3>2. QED
      BY <1>1, <3>1, RowsKept, HandlerFrame
  <2>7. QED
    BY <1>1, <2>3, <2>5, <2>6, RowsKept
<1>4. QED
  BY <1>2, <1>3

\* The lookup of a fresh completed run.
LEMMA FindFreshInv ==
  ASSUME IInv, NEW c \in Clients, FindFresh(c)
  PROVE  IInv'
<1> USE DEF IInv
<1>1. UNCHANGED <<rows, unsure, request, clock>> /\ seen' = [seen EXCEPT ![c] = {}]
  BY DEF FindFresh
<1>2. pc' = [pc EXCEPT ![c] = "insertHit"] \/ pc' = [pc EXCEPT ![c] = "insert"]
  BY DEF FindFresh
<1>3. \/ UNCHANGED source
      \/ \E r \in Runs : /\ source' = [source EXCEPT ![c] = r]
                         /\ runState[r] \in ReusableStates
                         /\ fingerprint[r] = request[c].fingerprint
  BY DEF FindFresh, FreshRuns, Equivalent
<1>4. pc'[c] = "insertHit" =>
         \E r \in Runs : /\ source' = [source EXCEPT ![c] = r]
                         /\ runState[r] \in ReusableStates
                         /\ fingerprint[r] = request[c].fingerprint
  BY DEF FindFresh, FreshRuns, Equivalent, TypeOK
<1>5. TypeOK'
  BY <1>1, <1>2, <1>3 DEF TypeOK, rows
<1>6. HandlerInv(c)'
  <2>1. request[c] \in Requests
    BY DEF HandlerInv, FindFresh
  <2>2. pc'[c] \in {"insertHit", "insert"}
    BY <1>2 DEF TypeOK
  <2>3. QED
    BY <1>1, <1>4, <2>1, <2>2, ReusableWas DEF HandlerInv, TypeOK, rows, WasReusable, WasCompleted
<1>7. ASSUME NEW d \in Clients, d # c PROVE HandlerInv(d)'
  <2>1. SameHandler(d)
    BY <1>1, <1>2, <1>3, <1>7 DEF SameHandler, TypeOK
  <2>2. QED
    BY <1>1, <2>1, RowsKept, HandlerFrame
<1>8. QED
  BY <1>1, <1>5, <1>6, <1>7, RowsKept

\* The rows after an insert: a new one, and the others as they were.
LEMMA InsertRows ==
  ASSUME IInv, NEW c \in Clients, pc[c] # "idle", NEW state \in RunStates \ {"absent"},
         NEW from \in Runs \union {NoRun}, InsertRun(c, state, from),
         NEW n, n = NewRun, \A r \in Runs \ {n} : outcomesOf'[r] = outcomesOf[r]
  PROVE  /\ n \in Runs /\ runState[n] = "absent"
         /\ runState' \in [Runs -> RunStates] /\ fingerprint' \in [Runs -> Fingerprints]
         /\ forced' \in [Runs -> BOOLEAN] /\ reusedFrom' \in [Runs -> Runs \union {NoRun}]
         /\ runState'[n] = state /\ fingerprint'[n] = request[c].fingerprint
         /\ forced'[n] = request[c].force /\ reusedFrom'[n] = from
         /\ \A r \in Runs \ {n} :
              /\ runState'[r] = runState[r] /\ fingerprint'[r] = fingerprint[r]
              /\ forced'[r] = forced[r] /\ reusedFrom'[r] = reusedFrom[r]
         /\ \A r \in Runs : MovesOn(r)
<1> USE DEF IInv
<1>1. n \in Runs /\ runState[n] = "absent"
  BY NewRunIsNew DEF InsertRun
<1>2. request[c] \in Requests
  BY DEF HandlerInv
<1>3. request[c].fingerprint \in Fingerprints /\ request[c].force \in BOOLEAN
  BY <1>2 DEF Requests
<1>4. /\ runState' \in [Runs -> RunStates] /\ fingerprint' \in [Runs -> Fingerprints]
      /\ reusedFrom' \in [Runs -> Runs \union {NoRun}]
  BY <1>1, <1>3 DEF InsertRun, TypeOK
<1>5. forced' \in [Runs -> BOOLEAN]
  BY <1>1, <1>3 DEF InsertRun, TypeOK
<1>6. /\ runState'[n] = state /\ fingerprint'[n] = request[c].fingerprint
      /\ forced'[n] = request[c].force /\ reusedFrom'[n] = from
  BY <1>1 DEF InsertRun, TypeOK
<1>7. \A r \in Runs \ {n} :
        /\ runState'[r] = runState[r] /\ fingerprint'[r] = fingerprint[r]
        /\ forced'[r] = forced[r] /\ reusedFrom'[r] = reusedFrom[r]
  BY <1>1 DEF InsertRun, TypeOK
<1>8. \A r \in Runs : MovesOn(r)
  BY <1>1, <1>7 DEF MovesOn, InflightStates, WasReusable, WasCompleted
<1>9. QED
  BY <1>1, <1>4, <1>5, <1>6, <1>7, <1>8

\* A cache hit: its source was reusable when it was found, and keeps what it had.
LEMMA InsertHitInv ==
  ASSUME IInv, NEW c \in Clients, InsertHit(c)
  PROVE  IInv'
<1> USE DEF IInv
<1> PICK n : n = NewRun
  OBVIOUS
<1>1. /\ pc[c] = "insertHit"
      /\ InsertRun(c, "cache_hit", source[c])
      /\ completedAt' = [completedAt EXCEPT ![n] = clock]
      /\ outcomesOf' = [outcomesOf EXCEPT ![n] = outcomesOf[source[c]]]
  BY DEF InsertHit, CopiedOutcomes
<1>2. /\ source[c] \in Runs /\ WasReusable(source[c])
      /\ fingerprint[source[c]] = request[c].fingerprint
  BY <1>1 DEF HandlerInv
<1>3. /\ n \in Runs /\ runState[n] = "absent"
      /\ runState' \in [Runs -> RunStates] /\ fingerprint' \in [Runs -> Fingerprints]
      /\ forced' \in [Runs -> BOOLEAN] /\ reusedFrom' \in [Runs -> Runs \union {NoRun}]
      /\ runState'[n] = "cache_hit" /\ fingerprint'[n] = request[c].fingerprint
      /\ reusedFrom'[n] = source[c]
      /\ \A r \in Runs \ {n} :
           /\ runState'[r] = runState[r] /\ fingerprint'[r] = fingerprint[r]
           /\ reusedFrom'[r] = reusedFrom[r]
      /\ \A r \in Runs : MovesOn(r)
  <2>1. pc[c] # "idle" /\ "cache_hit" \in RunStates \ {"absent"} /\ source[c] \in Runs \union {NoRun}
    BY <1>1, <1>2 DEF RunStates, ReusableStates
  <2>2. \A r \in Runs \ {n} : outcomesOf'[r] = outcomesOf[r]
    <3>1. n \in Runs
      BY <1>1, NewRunIsNew DEF InsertRun
    <3>2. QED
      BY <1>1, <3>1 DEF TypeOK
  <2> HIDE DEF IInv
  <2>3. QED
    BY <1>1, <2>1, <2>2, InsertRows
<1>4. Respond(c) /\ UNCHANGED <<unsure, clock>>
  BY <1>1 DEF InsertRun
<1>5. TypeOK'
  <2>1. completedAt' \in [Runs -> Nat] /\ outcomesOf' \in [Runs -> Runs \union {NoRun}]
    BY <1>1, <1>2 DEF TypeOK
  <2>2. QED
    BY <1>3, <1>4, <2>1, RespondTypes DEF TypeOK
<1>6. \A r \in Runs \ {n} : SameRow(r)
  BY <1>1, <1>3, <1>4 DEF SameRow, TypeOK
<1>7. RowInv(n)'
  <2>1. PICK s \in Runs : s = source[c]
    BY <1>2
  <2>2. outcomesOf'[n] = outcomesOf[s]
    BY <1>1, <1>3, <2>1 DEF TypeOK
  <2>3. PICK e \in Runs : e = outcomesOf[s] /\ WasCompleted(e)
    BY <1>2, <2>1 DEF RowInv, WasReusable, WasCompleted
  <2>4. MovesOn(s) /\ MovesOn(e) /\ WasReusable(s) /\ runState[s] # "absent"
    BY <1>2, <1>3, <2>1 DEF WasReusable, WasCompleted
  <2>5. /\ WasReusable(s)' /\ WasCompleted(e)' /\ outcomesOf'[s] = e
        /\ fingerprint'[s] = fingerprint[s]
    BY <2>3, <2>4 DEF MovesOn, WasReusable
  <2>6. n \notin unsure'
    BY <1>3, <1>4 DEF RowInv
  <2>7. QED
    BY <1>2, <1>3, <2>1, <2>2, <2>3, <2>5, <2>6 DEF RowInv, WasReusable, WasCompleted
<1>8. \A r \in Runs : RowInv(r)'
  BY <1>3, <1>6, <1>7, RowFrame
<1>9. QED
  BY <1>3, <1>4, <1>5, <1>8, RespondInv

\* A queued run names nobody's results.
LEMMA InsertQueuedInv ==
  ASSUME IInv, NEW c \in Clients, InsertQueued(c)
  PROVE  IInv'
<1> USE DEF IInv
<1> PICK n : n = NewRun
  OBVIOUS
<1>1. pc[c] = "insert" /\ InsertRun(c, "queued", NoRun) /\ UNCHANGED <<completedAt, outcomesOf>>
  BY DEF InsertQueued
<1>2. /\ n \in Runs /\ runState[n] = "absent"
      /\ runState' \in [Runs -> RunStates] /\ fingerprint' \in [Runs -> Fingerprints]
      /\ forced' \in [Runs -> BOOLEAN] /\ reusedFrom' \in [Runs -> Runs \union {NoRun}]
      /\ runState'[n] = "queued" /\ reusedFrom'[n] = NoRun
      /\ \A r \in Runs \ {n} :
           /\ runState'[r] = runState[r] /\ fingerprint'[r] = fingerprint[r]
           /\ reusedFrom'[r] = reusedFrom[r]
      /\ \A r \in Runs : MovesOn(r)
  BY <1>1, InsertRows DEF RunStates, InflightStates
<1>3. Respond(c) /\ UNCHANGED <<unsure, clock>>
  BY <1>1 DEF InsertRun
<1>4. TypeOK'
  BY <1>1, <1>2, <1>3, RespondTypes DEF TypeOK
<1>5. \A r \in Runs \ {n} : SameRow(r)
  BY <1>1, <1>2, <1>3 DEF SameRow
<1>6. RowInv(n)'
  BY <1>2, <1>3 DEF RowInv
<1>7. \A r \in Runs : RowInv(r)'
  BY <1>2, <1>5, <1>6, RowFrame
<1>8. QED
  BY <1>2, <1>3, <1>4, <1>7, RespondInv

\* Every step of a handler keeps the invariant.
LEMMA HandleInv ==
  ASSUME IInv, NEW c \in Clients, Handle(c)
  PROVE  IInv'
<1>1. CASE RequestDropped(c)
  <2>1. Respond(c) /\ UNCHANGED <<rows, unsure, clock>>
    BY <1>1 DEF RequestDropped
  <2>2. TypeOK'
    BY <2>1, RespondTypes DEF IInv, TypeOK, rows
  <2>3. QED
    BY <2>1, <2>2, RowsKept, RespondInv DEF IInv
<1>2. QED
  BY <1>1, RequestInv, FindInflightInv, FindFreshInv, InsertHitInv, InsertQueuedInv DEF Handle

-----------------------------------------------------------------------------
(* The steps of the worker, a restart and the clock                        *)

\* The worker changes only a run that is queued or active, or one whose
\* completion it did not learn of.
LEMMA WorkInv ==
  ASSUME IInv, NEW r \in Runs, Work(r)
  PROVE  IInv' /\ \A q \in Runs : MovesOn(q)
<1> USE DEF IInv
<1>1. UNCHANGED <<handlers, clock, fingerprint, forced, reusedFrom>>
  BY DEF Work, Claim, Complete, Fail
<1>2. \/ runState[r] \in InflightStates
      \/ runState[r] = "completed" /\ runState'[r] = "failed" /\ outcomesOf' = outcomesOf
  BY DEF Work, Claim, Complete, Fail, InflightStates, RowInv, TypeOK
<1>3. /\ \E s \in {"active", "completed", "failed"} : runState' = [runState EXCEPT ![r] = s]
      /\ runState'[r] = "completed" => outcomesOf'[r] = r
      /\ r \in unsure' => runState'[r] = "completed"
      /\ unsure' \subseteq unsure \union {r}
  BY DEF Work, Claim, Complete, Fail, TypeOK, RowInv
<1>4. outcomesOf' = outcomesOf \/ outcomesOf' = [outcomesOf EXCEPT ![r] = r]
  BY DEF Work, Claim, Complete, Fail
<1>5. completedAt' \in [Runs -> Nat]
  BY DEF Work, Claim, Complete, Fail, TypeOK
<1>6. TypeOK'
  <2>1. runState' \in [Runs -> RunStates]
    BY <1>3 DEF TypeOK, RunStates, InflightStates, ReusableStates
  <2>2. outcomesOf' \in [Runs -> Runs \union {NoRun}]
    BY <1>4 DEF TypeOK
  <2>3. unsure' \in SUBSET Runs
    BY <1>3 DEF TypeOK
  <2>4. QED
    BY <1>1, <1>5, <2>1, <2>2, <2>3 DEF TypeOK, handlers
<1>7. \A q \in Runs \ {r} : SameRow(q)
  BY <1>1, <1>3, <1>4 DEF SameRow, TypeOK
<1>8. \A q \in Runs : MovesOn(q)
  <2>1. MovesOn(r)
    BY <1>1, <1>2, <1>3 DEF MovesOn, InflightStates, TypeOK, RowInv, WasReusable, WasCompleted
  <2>2. ASSUME NEW q \in Runs \ {r} PROVE MovesOn(q)
    BY <1>7 DEF MovesOn, SameRow, InflightStates, WasReusable, WasCompleted
  <2>3. QED
    BY <2>1, <2>2
<1>9. RowInv(r)'
  <2>1. reusedFrom'[r] = NoRun
    BY <1>1, <1>2 DEF RowInv, InflightStates
  <2>2. runState'[r] \in {"active", "completed", "failed"}
    BY <1>3 DEF TypeOK
  <2>3. QED
    BY <1>3, <2>1, <2>2 DEF RowInv
<1>10. \A c \in Clients : HandlerInv(c)'
  <2>1. \A c \in Clients : SameHandler(c)
    BY <1>1 DEF handlers, SameHandler
  <2>2. QED
    BY <1>8, <2>1, HandlerFrame
<1>11. QED
  BY <1>6, <1>7, <1>8, <1>9, <1>10, RowFrame

\* A restart forgets the handlers and re-queues the active runs.
LEMMA RestartInv ==
  ASSUME IInv, Restart
  PROVE  IInv'
<1> USE DEF IInv, Restart
<1>1. TypeOK'
  <2>1. runState' \in [Runs -> RunStates]
    BY DEF TypeOK, RunStates, InflightStates
  <2>2. reusedFrom' \in [Runs -> Runs \union {NoRun}] /\ outcomesOf' \in [Runs -> Runs \union {NoRun}]
    BY DEF TypeOK
  <2>3. QED
    BY <2>1, <2>2 DEF TypeOK
<1>2. \A c \in Clients : HandlerInv(c)'
  BY DEF HandlerInv
<1>3. \A q \in Runs : runState[q] # "active" => SameRow(q)
  BY DEF SameRow
<1>4. ASSUME NEW r \in Runs, runState[r] = "active" PROVE RowInv(r)'
  BY <1>4 DEF RowInv
<1>5. \A q \in Runs : MovesOn(q)
  BY DEF MovesOn, InflightStates, WasReusable, WasCompleted
<1>6. QED
  BY <1>1, <1>2, <1>3, <1>4, <1>5, RowFrame

\* Every step keeps the invariant.
LEMMA NextInv == IInv /\ [Next]_vars => IInv'
<1> SUFFICES ASSUME IInv, [Next]_vars PROVE IInv'
  OBVIOUS
<1>1. CASE UNCHANGED <<rows, unsure, handlers>> /\ clock' \in Nat
  <2>1. TypeOK'
    BY <1>1 DEF IInv, TypeOK, rows, handlers
  <2>2. \A c \in Clients : SameHandler(c)
    BY <1>1 DEF handlers, SameHandler
  <2>3. QED
    BY <1>1, <2>1, <2>2, RowsKept, HandlerFrame DEF IInv
<1>2. CASE Tick \/ UNCHANGED vars
  <2>1. UNCHANGED <<rows, unsure, handlers>> /\ clock' \in Nat
    BY <1>2 DEF Tick, vars, IInv, TypeOK
  <2>2. QED
    BY <1>1, <2>1
<1>3. QED
  BY <1>2, HandleInv, WorkInv, RestartInv DEF Next

\* The inductive invariant always holds.
THEOREM InvariantHolds == Spec => []IInv
<1>1. QED
  BY InitInv, NextInv, PTL DEF Spec

\* The variables always have their types.
THEOREM TypeCorrect == Spec => []TypeOK
<1>1. IInv => TypeOK
  BY DEF IInv
<1>2. QED
  BY <1>1, InvariantHolds, PTL

\* A cache hit reuses an equivalent completed run, and carries the outcomes of
\* the run whose results are read in its place.
THEOREM HitsReuse == Spec => []HitsReuseCompletedRuns
<1>1. IInv => HitsReuseCompletedRuns
  BY DEF IInv, RowInv, HitsReuseCompletedRuns
<1>2. QED
  BY <1>1, InvariantHolds, PTL

-----------------------------------------------------------------------------
(* No gap between the two lookups                                          *)

\* Only its own lookup of a fresh run moves a handler on from there.
LEMMA OnlyFindFresh ==
  ASSUME TypeOK, [Next]_vars, NEW c \in Clients, pc[c] = "findFresh", pc'[c] = "insert"
  PROVE  FindFresh(c)
<1> USE DEF TypeOK
<1>1. ASSUME NEW d \in Clients, Handle(d), d # c PROVE FALSE
  BY <1>1 DEF Handle, Request, FindInflight, FindFresh, InsertHit, InsertQueued, InsertRun,
     RequestDropped, Respond
<1>2. CASE Handle(c)
  BY <1>2 DEF Handle, Request, FindInflight, InsertHit, InsertQueued, RequestDropped, Respond
<1>3. CASE (\E r \in Runs : Work(r)) \/ Restart \/ Tick \/ UNCHANGED vars
  BY <1>3 DEF Work, Claim, Complete, Fail, Restart, Tick, handlers, vars
<1>4. QED
  BY <1>1, <1>2, <1>3 DEF Next

\* An equivalent run that was in flight as the request came, and was not seen
\* by either lookup, has failed or is no longer fresh.
THEOREM NoGap == Spec => NoGapBetweenChecks
<1>1. ASSUME IInv, [Next]_vars
      PROVE  [\A c \in Clients : DedupeInflight /\ pc[c] = "findFresh" /\ pc'[c] = "insert" =>
                \A r \in seen[c] :
                  \/ runState[r] = "failed"
                  \/ runState[r] = "completed" /\ completedAt[r] < clock - Window]_vars
  <2>1. SUFFICES ASSUME NEW c \in Clients, DedupeInflight, pc[c] = "findFresh", pc'[c] = "insert",
                        NEW r \in seen[c], runState[r] # "failed"
                 PROVE  runState[r] = "completed" /\ completedAt[r] < clock - Window
    OBVIOUS
  <2>2. r \in Runs /\ completedAt[r] \in Nat /\ clock \in Nat /\ Window \in Nat
    BY <1>1, RunSubmissionAssumption DEF IInv, TypeOK
  <2>3. runState[r] = "completed" /\ fingerprint[r] = request[c].fingerprint
    BY <1>1, <2>1 DEF IInv, HandlerInv, InflightStates
  <2>4. FreshRuns(request[c].fingerprint) = {}
    <3>1. FindFresh(c)
      BY <1>1, <2>1, OnlyFindFresh DEF IInv
    <3>2. QED
      BY <1>1, <2>1, <3>1 DEF FindFresh, IInv, TypeOK
  <2>5. ~(completedAt[r] >= clock - Window)
    BY <2>2, <2>3, <2>4 DEF FreshRuns, Equivalent, ReusableStates
  <2>6. QED
    BY <2>2, <2>3, <2>5
<1>2. QED
  BY <1>1, InvariantHolds, PTL DEF Spec, NoGapBetweenChecks

-----------------------------------------------------------------------------
(* How many equivalent runs there can be in flight                         *)

\* The handlers past the check are finitely many, and at most all of them.
LEMMA PastCheckFinite ==
  ASSUME NEW f
  PROVE  /\ IsFiniteSet(PastCheck(f)) /\ Cardinality(PastCheck(f)) \in Nat
         /\ Cardinality(PastCheck(f)) <= Cardinality(Clients)
         /\ Cardinality(Clients) \in Nat
<1>1. IsFiniteSet(Clients) /\ PastCheck(f) \in SUBSET Clients
  BY RunSubmissionAssumption DEF PastCheck
<1>2. QED
  BY <1>1, FS_Subset, FS_CardinalityType

\* Neither set grows: neither count does.
LEMMA FewerDuplicates ==
  ASSUME NEW f, DuplicatesInv(f), Unforced(f)' \subseteq Unforced(f),
         PastCheck(f)' \subseteq PastCheck(f)
  PROVE  DuplicatesInv(f)'
<1>1. IsFiniteSet(Unforced(f)')
      /\ Cardinality(Unforced(f)') <= Cardinality(Unforced(f))
  BY FS_Subset DEF DuplicatesInv
<1>2. Cardinality(PastCheck(f)') <= Cardinality(PastCheck(f))
  BY PastCheckFinite, FS_Subset
<1>3. IsFiniteSet(PastCheck(f)')
  BY PastCheckFinite, FS_Subset
<1>4. /\ Cardinality(Unforced(f)') \in Nat /\ Cardinality(Unforced(f)) \in Nat
      /\ Cardinality(PastCheck(f)') \in Nat /\ Cardinality(PastCheck(f)) \in Nat
      /\ Cardinality(Clients) \in Nat
  BY <1>1, <1>3, PastCheckFinite, FS_CardinalityType DEF DuplicatesInv
<1>5. QED
  BY <1>1, <1>2, <1>4 DEF DuplicatesInv

\* The steps of one handler concern only that handler's place among the others.
LEMMA OtherHandlers ==
  ASSUME TypeOK, NEW c \in Clients, Handle(c)
  PROVE  \A d \in Clients \ {c} : SameHandler(d)
<1>1. QED
  BY DEF TypeOK, Handle, Request, FindInflight, FindFresh, InsertHit, InsertQueued, InsertRun,
     RequestDropped, Respond, SameHandler

\* A handler passes the check when nothing equivalent is in flight.
LEMMA FindInflightDuplicates ==
  ASSUME IInv, NEW f \in Fingerprints, DuplicatesInv(f), NEW c \in Clients, FindInflight(c)
  PROVE  DuplicatesInv(f)'
<1> USE DEF IInv, TypeOK
<1>1. Unforced(f)' = Unforced(f)
  BY DEF FindInflight, rows, Unforced, Equivalent
<1>2. \A d \in Clients \ {c} : SameHandler(d)
  BY OtherHandlers DEF Handle
<1>3. CASE Respond(c) \/ request[c].fingerprint # f
  <2>1. PastCheck(f)' \subseteq PastCheck(f)
    BY <1>2, <1>3 DEF FindInflight, PastCheck, SameHandler, Respond
  <2>2. QED
    BY <1>1, <2>1, FewerDuplicates
<1>4. CASE ~Respond(c) /\ request[c].fingerprint = f
  <2>1. Unforced(f) = {}
    BY <1>4 DEF FindInflight, Unforced
  <2>2. Unforced(f)' = {} /\ IsFiniteSet({}) /\ Cardinality({}) = 0
    BY <1>1, <2>1, FS_EmptySet
  <2>3. /\ Cardinality(PastCheck(f)') <= Cardinality(Clients)
        /\ Cardinality(PastCheck(f)') \in Nat /\ Cardinality(Clients) \in Nat
    <3>1. PastCheck(f)' \in SUBSET Clients /\ IsFiniteSet(Clients)
      BY RunSubmissionAssumption DEF PastCheck
    <3>2. QED
      BY <3>1, FS_Subset, FS_CardinalityType
  <2>4. QED
    BY <2>2, <2>3 DEF DuplicatesInv
<1>5. QED
  BY <1>3, <1>4

\* A queued run takes the place of the handler that was past the check.
LEMMA InsertQueuedDuplicates ==
  ASSUME IInv, NEW f \in Fingerprints, DuplicatesInv(f), NEW c \in Clients, InsertQueued(c)
  PROVE  DuplicatesInv(f)'
<1> USE DEF IInv
<1> PICK n : n = NewRun
  OBVIOUS
<1>1. pc[c] = "insert" /\ InsertRun(c, "queued", NoRun) /\ Respond(c)
  BY DEF InsertQueued, InsertRun
<1>2. /\ n \in Runs /\ runState[n] = "absent"
      /\ runState'[n] = "queued" /\ fingerprint'[n] = request[c].fingerprint
      /\ forced'[n] = request[c].force
      /\ \A r \in Runs \ {n} :
           /\ runState'[r] = runState[r] /\ fingerprint'[r] = fingerprint[r]
           /\ forced'[r] = forced[r]
  BY <1>1, NewRunIsNew DEF InsertRun, TypeOK
<1>3. \A d \in Clients \ {c} : SameHandler(d)
  BY OtherHandlers DEF Handle
<1>4. pc'[c] = "idle"
  BY <1>1, RespondTypes
<1>5. CASE request[c].fingerprint = f /\ ~request[c].force
  <2>1. Unforced(f)' = Unforced(f) \union {n} /\ n \notin Unforced(f)
    BY <1>2, <1>5 DEF Unforced, Equivalent, InflightStates
  <2>2. PastCheck(f)' = PastCheck(f) \ {c} /\ c \in PastCheck(f)
    BY <1>1, <1>3, <1>4, <1>5 DEF PastCheck, SameHandler
  <2>3. /\ IsFiniteSet(Unforced(f)')
        /\ Cardinality(Unforced(f)') = Cardinality(Unforced(f)) + 1
    BY <2>1, FS_AddElement DEF DuplicatesInv
  <2>4. Cardinality(PastCheck(f)') = Cardinality(PastCheck(f)) - 1
    BY <2>2, PastCheckFinite, FS_RemoveElement
  <2>5. /\ Cardinality(Unforced(f)) \in Nat /\ Cardinality(PastCheck(f)) \in Nat
        /\ Cardinality(Clients) \in Nat
    BY PastCheckFinite, FS_CardinalityType DEF DuplicatesInv
  <2>6. QED
    BY <2>3, <2>4, <2>5 DEF DuplicatesInv
<1>6. CASE ~(request[c].fingerprint = f /\ ~request[c].force)
  <2>1. Unforced(f)' \subseteq Unforced(f)
    BY <1>2, <1>6 DEF Unforced, Equivalent, InflightStates
  <2>2. PastCheck(f)' \subseteq PastCheck(f)
    BY <1>3, <1>4 DEF PastCheck, SameHandler
  <2>3. QED
    BY <2>1, <2>2, FewerDuplicates
<1>7. QED
  BY <1>5, <1>6

\* Every other step of a handler lets neither set grow: a request that is not
\* forced is checked first.
LEMMA HandleDuplicates ==
  ASSUME IInv, DedupeInflight, NEW f \in Fingerprints, DuplicatesInv(f),
         NEW c \in Clients, Handle(c)
  PROVE  DuplicatesInv(f)'
<1> USE DEF IInv
<1>1. \A d \in Clients \ {c} : SameHandler(d)
  BY OtherHandlers
<1>2. CASE Request(c)
  <2>1. PICK q \in Requests : request'[c] = q /\ pc'[c] = FirstQuery(q)
    BY <1>2 DEF Request, TypeOK
  <2>2. c \notin PastCheck(f)'
    BY <2>1 DEF PastCheck, FirstQuery
  <2>3. PastCheck(f)' \subseteq PastCheck(f)
    BY <1>1, <2>2 DEF PastCheck, SameHandler
  <2>4. Unforced(f)' \subseteq Unforced(f)
    BY <1>2 DEF Request, rows, Unforced, Equivalent
  <2>5. QED
    BY <2>3, <2>4, FewerDuplicates
<1>3. CASE FindFresh(c)
  <2>1. UNCHANGED <<rows, request>> /\ pc[c] = "findFresh"
    BY <1>3 DEF FindFresh
  <2>2. PastCheck(f)' \subseteq PastCheck(f)
    BY <1>1, <2>1 DEF PastCheck, SameHandler
  <2>3. Unforced(f)' \subseteq Unforced(f)
    BY <2>1 DEF rows, Unforced, Equivalent
  <2>4. QED
    BY <2>2, <2>3, FewerDuplicates
<1>4. CASE InsertHit(c) \/ RequestDropped(c)
  <2>1. pc'[c] = "idle"
    BY <1>4, RespondTypes DEF InsertHit, InsertRun, RequestDropped
  <2>2. PastCheck(f)' \subseteq PastCheck(f)
    BY <1>1, <2>1 DEF PastCheck, SameHandler
  <2>3. Unforced(f)' \subseteq Unforced(f)
    <3>1. CASE InsertHit(c)
      <4> PICK n : n = NewRun
        OBVIOUS
      <4>1. pc[c] = "insertHit" /\ InsertRun(c, "cache_hit", source[c]) /\ source[c] \in Runs
        BY <3>1 DEF InsertHit, HandlerInv
      <4>2. /\ runState'[n] = "cache_hit"
            /\ \A r \in Runs \ {n} :
                 /\ runState'[r] = runState[r] /\ fingerprint'[r] = fingerprint[r]
                 /\ forced'[r] = forced[r]
        BY <4>1, NewRunIsNew DEF InsertRun, TypeOK
      <4>3. QED
        BY <4>2 DEF Unforced, Equivalent, InflightStates
    <3>2. CASE RequestDropped(c)
      BY <3>2 DEF RequestDropped, rows, Unforced, Equivalent
    <3>3. QED
      BY <1>4, <3>1, <3>2
  <2>4. QED
    BY <2>2, <2>3, FewerDuplicates
<1>5. QED
  BY <1>2, <1>3, <1>4, FindInflightDuplicates, InsertQueuedDuplicates DEF Handle

\* Neither the worker nor a restart adds a run to those in flight.
LEMMA OtherDuplicates ==
  ASSUME IInv, NEW f \in Fingerprints, DuplicatesInv(f),
         (\E r \in Runs : Work(r)) \/ Restart \/ Tick \/ UNCHANGED vars
  PROVE  DuplicatesInv(f)'
<1> USE DEF IInv, TypeOK, Unforced, Equivalent, PastCheck, InflightStates
<1>1. ASSUME NEW r \in Runs, Work(r) PROVE DuplicatesInv(f)'
  <2>1. Unforced(f)' \subseteq Unforced(f)
    BY <1>1 DEF Work, Claim, Complete, Fail
  <2>2. PastCheck(f)' \subseteq PastCheck(f)
    BY <1>1 DEF Work, Claim, Complete, Fail, handlers
  <2>3. QED
    BY <2>1, <2>2, FewerDuplicates
<1>2. CASE Restart
  <2>1. Unforced(f)' \subseteq Unforced(f)
    BY <1>2 DEF Restart
  <2>2. PastCheck(f)' \subseteq PastCheck(f)
    BY <1>2 DEF Restart
  <2>3. QED
    BY <2>1, <2>2, FewerDuplicates
<1>3. CASE Tick \/ UNCHANGED vars
  <2>1. Unforced(f)' \subseteq Unforced(f) /\ PastCheck(f)' \subseteq PastCheck(f)
    BY <1>3 DEF Tick, vars, rows, handlers
  <2>2. QED
    BY <2>1, FewerDuplicates
<1>4. QED
  BY <1>1, <1>2, <1>3

\* With deduplication, equivalent runs that nobody forced never outnumber the
\* requests that can be handled at a time.
THEOREM DuplicatesBounded == Spec => []DuplicatesAreBounded
<1>1. ASSUME Init PROVE CountInv
  <2>1. SUFFICES ASSUME NEW f \in Fingerprints PROVE DuplicatesInv(f)
    BY DEF CountInv
  <2>2. Unforced(f) = {}
    BY <1>1 DEF Init, Unforced, Equivalent, InflightStates
  <2>3. QED
    BY <2>2, FS_EmptySet, PastCheckFinite DEF DuplicatesInv
<1>2. IInv /\ CountInv /\ [Next]_vars => CountInv'
  BY HandleDuplicates, OtherDuplicates DEF CountInv, Next
<1>3. ASSUME CountInv PROVE DuplicatesAreBounded
  <2>1. SUFFICES ASSUME DedupeInflight, NEW f \in Fingerprints
                 PROVE  Cardinality(Unforced(f)) <= Cardinality(Clients)
    BY DEF DuplicatesAreBounded
  <2>2. DuplicatesInv(f)
    BY <1>3, <2>1 DEF CountInv
  <2>3. Cardinality(Unforced(f)) \in Nat
    BY <2>2, FS_CardinalityType DEF DuplicatesInv
  <2>4. QED
    BY <2>2, <2>3, PastCheckFinite DEF DuplicatesInv
<1>4. QED
  BY <1>1, <1>2, <1>3, InvariantHolds, PTL DEF Spec

-----------------------------------------------------------------------------
(* Reads through a chain of cache hits                                     *)

\* A set of natural numbers has a least element: the sets 0..k of its elements
\* are well-founded under inclusion.
LEMMA LeastNatural ==
  ASSUME NEW T \in SUBSET Nat, T # {}
  PROVE  \E m \in T : \A k \in T : m <= k
<1> DEFINE U == {0..k : k \in T}
           R == StrictSubsetOrdering(Nat)
<1>1. IsWellFoundedOn(R, FiniteSubsetsOf(Nat))
  BY FS_StrictSubsetOrderingWellFounded
<1>2. U \subseteq FiniteSubsetsOf(Nat) /\ U # {}
  <2>1. ASSUME NEW k \in T PROVE 0..k \in FiniteSubsetsOf(Nat)
    BY FS_Interval DEF FiniteSubsetsOf
  <2>2. QED
    BY <2>1
<1>3. PICK x \in U : \A y \in U : <<y, x>> \notin R
  <2> HIDE DEF U, R
  <2>1. QED
    BY <1>1, <1>2, WFMin
<1>4. PICK m \in T : x = 0..m
  OBVIOUS
<1>5. ASSUME NEW k \in T, k < m PROVE FALSE
  <2>1. 0..k \in SUBSET Nat /\ 0..m \in SUBSET Nat /\ 0..k \subseteq 0..m
    BY <1>5
  <2>2. 0..k # 0..m
    <3>1. m \in 0..m /\ m \notin 0..k
      BY <1>5
    <3>2. QED
      BY <3>1
  <2>3. <<0..k, 0..m>> \in R
    BY <2>1, <2>2 DEF StrictSubsetOrdering
  <2>4. QED
    BY <1>3, <1>4, <2>3
<1>6. QED
  BY <1>4, <1>5

\* One hop: the run a row names, or the run itself.
OneHop(q) == IF reusedFrom[q] = NoRun THEN q ELSE reusedFrom[q]

\* The rows of n hops, as a function of the number of hops.
IsChain(r, n, row) ==
  row = [k \in 0..n |-> IF k = 0 THEN r
                        ELSE IF reusedFrom[row[k - 1]] = NoRun THEN row[k - 1]
                             ELSE reusedFrom[row[k - 1]]]

\* There is a chain of every length: the first one missing would extend the
\* chain before it by a hop.
LEMMA ChainExists ==
  ASSUME NEW r, NEW n \in Nat
  PROVE  \E row : IsChain(r, n, row)
<1> DEFINE T == {m \in Nat : ~\E row : IsChain(r, m, row)}
<1>1. SUFFICES ASSUME T # {} PROVE FALSE
  OBVIOUS
<1>2. PICK m \in T : \A k \in T : m <= k
  <2> HIDE DEF T
  <2>1. T \in SUBSET Nat
    BY DEF T
  <2>2. QED
    BY <1>1, <2>1, LeastNatural
<1>3. m # 0
  <2>1. IsChain(r, 0, [k \in 0..0 |-> r])
    BY DEF IsChain
  <2>2. QED
    BY <1>2, <2>1
<1>4. m - 1 \in Nat /\ m - 1 \notin T
  BY <1>2, <1>3
<1>5. PICK row : IsChain(r, m - 1, row)
  BY <1>4
<1> DEFINE longer == [k \in 0..m |-> IF k = m THEN OneHop(row[m - 1]) ELSE row[k]]
<1>6. ASSUME NEW k \in 0..m
      PROVE  longer[k] = IF k = 0 THEN r ELSE OneHop(longer[k - 1])
  <2>1. CASE k = m
    BY <1>3, <1>4, <2>1
  <2>2. CASE k # m
    <3>1. k \in 0..(m - 1)
      BY <1>4, <2>2
    <3>2. row[k] = IF k = 0 THEN r ELSE OneHop(row[k - 1])
      BY <1>5, <3>1 DEF IsChain, OneHop
    <3>3. QED
      BY <1>4, <2>2, <3>1, <3>2
  <2>3. QED
    BY <2>1, <2>2
<1>7. IsChain(r, m, longer)
  BY <1>6 DEF IsChain, OneHop
<1>8. QED
  BY <1>2, <1>7

\* Hop gives the last row of such a chain.
LEMMA HopIsChain ==
  ASSUME NEW r, NEW n \in Nat
  PROVE  \E row : IsChain(r, n, row) /\ Hop(r, n) = row[n]
<1> DEFINE chosen == CHOOSE row : IsChain(r, n, row)
<1>1. IsChain(r, n, chosen)
  BY ChainExists
<1>2. Hop(r, n) = chosen[n]
  BY DEF Hop, IsChain
<1>3. QED
  BY <1>1, <1>2

\* However far effective_run_id goes from a run that can be read, it stays
\* among runs with the same outcomes: the first hop that left them would start
\* from a cache hit whose source has others.
LEMMA HopKeepsOutcomes ==
  ASSUME IInv, NEW r \in Runs, WasReusable(r), NEW n \in Nat
  PROVE  /\ Hop(r, n) \in Runs /\ WasReusable(Hop(r, n))
         /\ outcomesOf[Hop(r, n)] = outcomesOf[r]
<1> DEFINE Same(q) == q \in Runs /\ WasReusable(q) /\ outcomesOf[q] = outcomesOf[r]
<1>1. PICK row : IsChain(r, n, row) /\ Hop(r, n) = row[n]
  BY HopIsChain
<1>2. row[0] = r /\ \A k \in 1..n : row[k] = OneHop(row[k - 1])
  BY <1>1 DEF IsChain, OneHop
<1>3. ASSUME NEW q, Same(q) PROVE Same(OneHop(q))
  BY <1>3, RunSubmissionAssumption DEF IInv, RowInv, OneHop, WasReusable, WasCompleted
<1> DEFINE T == {k \in 0..n : ~Same(row[k])}
<1>4. T = {}
  <2>1. SUFFICES ASSUME T # {} PROVE FALSE
    OBVIOUS
  <2>2. PICK m \in T : \A k \in T : m <= k
    <3> HIDE DEF T
    <3>1. T \in SUBSET Nat
      BY DEF T
    <3>2. QED
      BY <2>1, <3>1, LeastNatural
  <2>3. m # 0
    BY <1>2, <2>2
  <2>4. m \in 1..n /\ m - 1 \in 0..n /\ m - 1 \notin T
    BY <2>2, <2>3
  <2>5. Same(row[m - 1])
    BY <2>4
  <2>6. Same(row[m])
    BY <1>2, <1>3, <2>4, <2>5
  <2>7. QED
    BY <2>2, <2>6
<1>5. QED
  BY <1>1, <1>4

\* Where the chain of a readable run resolves within the limit, the run that
\* is read is the one that was executed.
THEOREM ReadsExecuted == Spec => []ReadsAreOfTheExecutedRun
<1>1. ASSUME IInv PROVE ReadsAreOfTheExecutedRun
  <2>1. SUFFICES ASSUME NEW r \in Runs, runState[r] \in ReusableStates, Resolves(r)
                 PROVE  EffectiveRunId(r) = outcomesOf[r]
    BY DEF ReadsAreOfTheExecutedRun
  <2>2. ChainLimit - 1 \in Nat
    BY RunSubmissionAssumption
  <2>3. /\ EffectiveRunId(r) \in Runs /\ WasReusable(EffectiveRunId(r))
        /\ outcomesOf[EffectiveRunId(r)] = outcomesOf[r]
    BY <1>1, <2>1, <2>2, ReusableWas, HopKeepsOutcomes DEF EffectiveRunId, IInv
  <2>4. WasCompleted(EffectiveRunId(r))
    BY <1>1, <2>1, <2>3, RunSubmissionAssumption DEF IInv, RowInv, Resolves, WasReusable
  <2>5. QED
    BY <1>1, <2>3, <2>4 DEF IInv, RowInv, WasCompleted
<1>2. QED
  BY <1>1, InvariantHolds, PTL
=============================================================================
