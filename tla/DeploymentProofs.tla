-------------------------- MODULE DeploymentProofs --------------------------
(***************************************************************************)
(* Proofs about Deployment for any number of starts and any set of hosts:  *)
(* a run is claimed once for its submission and once for each recovery,    *)
(* and an answer that says a run is completed never becomes untrue.        *)
(***************************************************************************)
EXTENDS Deployment, TLAPS

-----------------------------------------------------------------------------
(* The inductive invariant                                                 *)

\* Attempts are made in the order of the claims, a live one has a live worker,
\* and none has results before it tests.
AttemptsInv ==
  \A a \in Attempts :
    /\ step[a] = "none" <=> a > claims
    /\ Live(a) => owner[a] \in workers
    /\ step[a] \in {"none", "discover", "plan", "outcome", "insert"} =>
         \A p \in results : p[1] # a

\* A start recovers the run at most once.
StartsInv ==
  /\ requeues <= starts
  /\ requeue => starting /\ requeues < starts
  /\ starting => starts # 0

ClaimsInv ==
  /\ state = "absent" => claims = 0
  /\ ClaimsAreExclusive

\* As long as no server was started beside a live worker, only the one live
\* attempt of an active run, or the recovery of a run nobody works on, may
\* change the rows.
AloneInv ==
  ~shared =>
    /\ starting => workers = {}
    /\ requeue => state \in ActiveStates
    /\ \A a \in Attempts : Live(a) => state \in ActiveStates
    /\ \A a, b \in Attempts : Live(a) /\ Live(b) => a = b

\* What a read may ask.
Queries ==
  {"row", "requested", "planned", "completed", "failed_to_start", "rejected", "results",
   "artifactsOfResults", "siteProfiles", "deadHosts", "artifacts"}

\* A read asks for the row of the run first, and ends when a server is started
\* beside a live worker.
ReadInv ==
  /\ pending \in Seq(Queries)
  /\ \A i \in 1..Len(pending) : pending[i] = "row" => i = 1 /\ got = NoAnswer
  /\ shared => pending = <<>> /\ got = NoAnswer
  /\ CompletedAnswersAreFinal

\* The types, by the actions that keep them.
RowsType ==
  /\ state \in RunStates
  /\ found \in 0..MaxStarts /\ report \in 0..MaxStarts
  /\ outcome \in Outcomes
PlannedType ==
  /\ planned \in [PlannedRows -> {"absent", "queued"} \union TerminalStates]
  /\ results \subseteq PlannedRows
  /\ \A p \in results : planned[p] \in TerminalStates
InstancesType ==
  /\ {starting, requeue, serving, shared} \subseteq BOOLEAN
  /\ starts \in 0..MaxStarts /\ requeues \in 0..MaxStarts
WorkersType == candidate \subseteq workers /\ workers \subseteq 1..starts
AttemptsType ==
  /\ claims \in 0..MaxStarts
  /\ step \in [Attempts -> Steps]
  /\ owner \in [Attempts -> 0..MaxStarts]
  /\ todo \in [Attempts -> SUBSET Hosts]

IInv == TypeOK /\ AttemptsInv /\ StartsInv /\ ClaimsInv /\ AloneInv /\ ReadInv

-----------------------------------------------------------------------------
(* Reads                                                                   *)

\* Queries without the one for the row.
NoRow(s) == s \in Seq(Queries) /\ \A i \in 1..Len(s) : s[i] # "row"
RowFirst(s) == s \in Seq(Queries) /\ \A i \in 1..Len(s) : s[i] = "row" => i = 1

LEMMA QueriesJoin ==
  ASSUME NEW s, NEW t, NoRow(t)
  PROVE  /\ NoRow(s) => NoRow(s \o t)
         /\ RowFirst(s) => RowFirst(s \o t)
<1> USE DEF NoRow, RowFirst
<1> SUFFICES ASSUME s \in Seq(Queries)
             PROVE  /\ NoRow(s) => NoRow(s \o t)
                    /\ RowFirst(s) => RowFirst(s \o t)
  OBVIOUS
<1>1. s \o t \in Seq(Queries) /\ Len(s \o t) = Len(s) + Len(t)
  OBVIOUS
<1>2. \A i \in 1..Len(s \o t) :
        (s \o t)[i] = IF i <= Len(s) THEN s[i] ELSE t[i - Len(s)]
  OBVIOUS
<1>3. \A i \in 1..Len(s \o t) : i > Len(s) => (s \o t)[i] # "row"
  BY <1>1, <1>2
<1>4. QED
  BY <1>1, <1>2, <1>3

\* Each of the three handlers loads the row before anything else.
LEMMA RowsComeFirst ==
  ASSUME NEW e \in Endpoints
  PROVE  RowFirst(e)
<1>1. NoRow(CountQueries) /\ NoRow(ResultQueries) /\ NoRow(EvidenceQueries) /\ NoRow(<<"requested">>)
  <2>1. NoRow(CountQueries)
    BY DEF NoRow, CountQueries, Queries
  <2>2. NoRow(ResultQueries)
    BY DEF NoRow, ResultQueries, Queries
  <2>3. NoRow(EvidenceQueries)
    BY DEF NoRow, EvidenceQueries, Queries
  <2>4. NoRow(<<"requested">>)
    BY DEF NoRow, Queries
  <2>5. QED
    BY <2>1, <2>2, <2>3, <2>4
<1>2. RowFirst(<<"row">>) /\ RowFirst(<<"row", "requested">>)
  <2>1. RowFirst(<<"row">>)
    BY DEF RowFirst, Queries
  <2>2. RowFirst(<<"row", "requested">>)
    BY DEF RowFirst, Queries
  <2>3. QED
    BY <2>1, <2>2
<1>3. RowFirst(StatusQueries)
  <2>1. RowFirst(<<"row">> \o CountQueries)
    BY <1>1, <1>2, QueriesJoin
  <2>2. QED
    BY <1>1, <2>1, QueriesJoin DEF StatusQueries
<1>4. RowFirst(ResultsQueries)
  BY <1>1, <1>2, QueriesJoin DEF ResultsQueries
<1>5. RowFirst(ReportQueries)
  <2>1. RowFirst(<<"row", "requested">> \o CountQueries)
    BY <1>1, <1>2, QueriesJoin
  <2>2. RowFirst(<<"row", "requested">> \o CountQueries \o ResultQueries)
    BY <1>1, <2>1, QueriesJoin
  <2>3. QED
    BY <1>1, <2>2, QueriesJoin DEF ReportQueries
<1>6. QED
  BY <1>3, <1>4, <1>5 DEF Endpoints

\* What a query answers is determined by the rows.
LEMMA AnswersStay ==
  ASSUME UNCHANGED rows
  PROVE  \A q : Answer(q)' = Answer(q)
<1>1. UNCHANGED <<state, found, outcome, planned, results, report>>
  BY DEF rows
<1>2. \A s : CountOf(s)' = CountOf(s)
  BY <1>1 DEF CountOf
<1>3. Counts' = Counts
  BY <1>1, <1>2 DEF Counts
<1>4. QED
  BY <1>1, <1>3 DEF Answer

LEMMA RowAnswer == Answer("row") = state
<1>1. QED
  BY DEF Answer, Counts

-----------------------------------------------------------------------------
(* The invariant is inductive                                              *)

LEMMA TypeParts ==
  TypeOK <=> RowsType /\ PlannedType /\ InstancesType /\ WorkersType /\ AttemptsType
<1>1. QED
  BY DEF TypeOK, RowsType, PlannedType, InstancesType, WorkersType, AttemptsType

LEMMA InitInv == Init => IInv
<1> SUFFICES ASSUME Init PROVE IInv
  OBVIOUS
<1> USE DeploymentAssumption DEF Init
<1>1. TypeOK
  <2>1. RowsType
    BY DEF RowsType, RunStates, Outcomes
  <2>2. PlannedType
    BY DEF PlannedType
  <2>3. {starting, requeue, serving, shared} \subseteq BOOLEAN
    BY Zenon
  <2>4. starts \in 0..MaxStarts /\ requeues \in 0..MaxStarts /\ WorkersType
    BY DEF WorkersType
  <2>5. AttemptsType
    BY DEF AttemptsType, Steps
  <2>6. QED
    BY <2>1, <2>2, <2>3, <2>4, <2>5, TypeParts DEF InstancesType
<1>2. AttemptsInv
  BY DEF AttemptsInv, Live, Attempts
<1>3. StartsInv /\ ClaimsInv /\ AloneInv
  BY DEF StartsInv, ClaimsInv, ClaimsAreExclusive, AloneInv, Live
<1>4. ReadInv
  BY DEF ReadInv, NoAnswer, CompletedAnswersAreFinal
<1>5. QED
  BY <1>1, <1>2, <1>3, <1>4 DEF IInv

\* The steps of servers, workers and readers.
ServerStep ==
  ServerStart \/ RecoverRun \/ ServerReady \/ StartFails \/ ServerDies \/ SubmitRun
WorkerStep(w) == SelectCandidate(w) \/ ClaimRun(w) \/ ClaimLost(w) \/ WorkerDies(w)
ReadStep == (\E e \in Endpoints : Ask(e)) \/ NotFound \/ Query \/ Respond

LEMMA ServerType ==
  ASSUME IInv, ServerStep
  PROVE  TypeOK'
<1> USE DEF rows, instances, processes, attempts
<1>1. TypeOK /\ RowsType /\ PlannedType /\ InstancesType /\ WorkersType /\ AttemptsType
  BY TypeParts DEF IInv
<1>2. RowsType'
  <2>1. CASE RecoverRun
    BY <2>1, DeploymentAssumption DEF RecoverRun, RowsType, RunStates, Outcomes
  <2>2. CASE SubmitRun
    BY <2>2, <1>1 DEF SubmitRun, RowsType, RunStates
  <2>3. CASE ServerStart \/ ServerReady \/ StartFails \/ ServerDies
    BY <2>3, <1>1 DEF ServerStart, ServerReady, StartFails, ServerDies, RowsType
  <2>4. QED
    BY <2>1, <2>2, <2>3 DEF ServerStep
<1>3. PlannedType'
  <2>1. CASE RecoverRun
    BY <2>1 DEF RecoverRun, PlannedType
  <2>2. CASE ServerStart \/ ServerReady \/ StartFails \/ ServerDies \/ SubmitRun
    BY <2>2, <1>1 DEF ServerStart, ServerReady, StartFails, ServerDies, SubmitRun, PlannedType
  <2>3. QED
    BY <2>1, <2>2 DEF ServerStep
<1>4. InstancesType'
  <2>1. {starting', requeue', serving', shared'} \subseteq BOOLEAN
    <3>1. CASE ServerStart
      <4>1. requeue' \in BOOLEAN
        BY <3>1 DEF ServerStart
      <4>2. shared' \in BOOLEAN
        BY <3>1, Zenon DEF ServerStart
      <4>3. starting' \in BOOLEAN
        BY <3>1, Zenon DEF ServerStart
      <4>4. QED
        BY <3>1, <4>1, <4>2, <4>3, <1>1 DEF ServerStart, InstancesType
    <3>2. CASE RecoverRun \/ StartFails
      BY <3>2, <1>1, Zenon DEF RecoverRun, StartFails, InstancesType
    <3>3. CASE ServerReady \/ ServerDies
      BY <3>3, <1>1, Zenon DEF ServerReady, ServerDies, InstancesType
    <3>4. CASE SubmitRun
      BY <3>4, <1>1 DEF SubmitRun, InstancesType
    <3>5. QED
      BY <3>1, <3>2, <3>3, <3>4 DEF ServerStep
  <2>2. starts' \in 0..MaxStarts /\ requeues' \in 0..MaxStarts
    BY <1>1, DeploymentAssumption
       DEF IInv, StartsInv, InstancesType, ServerStep, ServerStart, RecoverRun, ServerReady,
           StartFails, ServerDies, SubmitRun
  <2>3. QED
    BY <2>1, <2>2 DEF InstancesType
<1>5. WorkersType'
  <2>1. CASE ServerStart
    BY <2>1, <1>1 DEF ServerStart, WorkersType, InstancesType
  <2>2. CASE ServerReady
    BY <2>2, <1>1 DEF ServerReady, IInv, StartsInv, WorkersType, InstancesType
  <2>3. CASE RecoverRun \/ StartFails \/ ServerDies \/ SubmitRun
    BY <2>3, <1>1 DEF RecoverRun, StartFails, ServerDies, SubmitRun, WorkersType
  <2>4. QED
    BY <2>1, <2>2, <2>3 DEF ServerStep
<1>6. AttemptsType'
  BY <1>1 DEF AttemptsType, ServerStep, ServerStart, RecoverRun, ServerReady, StartFails,
              ServerDies, SubmitRun
<1>7. QED
  BY <1>2, <1>3, <1>4, <1>5, <1>6 DEF TypeOK, RowsType, PlannedType, InstancesType, WorkersType, AttemptsType

LEMMA WorkerType ==
  ASSUME IInv, NEW w \in Workers, WorkerStep(w)
  PROVE  TypeOK'
<1> USE DEF rows, instances, processes, attempts
<1>1. TypeOK /\ RowsType /\ PlannedType /\ InstancesType /\ WorkersType /\ AttemptsType
  BY TypeParts DEF IInv
<1>2. RowsType'
  BY <1>1 DEF WorkerStep, SelectCandidate, ClaimRun, ClaimLost, WorkerDies, RowsType, RunStates,
              ActiveStates
<1>3. PlannedType' /\ InstancesType'
  BY <1>1 DEF WorkerStep, SelectCandidate, ClaimRun, ClaimLost, WorkerDies, PlannedType,
              InstancesType
<1>4. WorkersType'
  BY <1>1 DEF WorkerStep, SelectCandidate, ClaimRun, ClaimLost, WorkerDies, WorkersType
<1>5. AttemptsType'
  <2>1. CASE ClaimRun(w)
    <3>1. claims + 1 \in Attempts /\ claims' \in 0..MaxStarts /\ w \in 0..MaxStarts
      BY <2>1, <1>1, DeploymentAssumption DEF ClaimRun, Attempts, Workers, AttemptsType
    <3>2. QED
      BY <2>1, <3>1, <1>1 DEF ClaimRun, AttemptsType, Steps
  <2>2. CASE WorkerDies(w)
    <3>1. step' \in [Attempts -> Steps]
      BY <2>2, <1>1 DEF WorkerDies, AttemptsType, Steps
    <3>2. todo' \in [Attempts -> SUBSET Hosts]
      BY <2>2, <1>1 DEF WorkerDies, AttemptsType
    <3>3. QED
      BY <2>2, <3>1, <3>2, <1>1 DEF WorkerDies, AttemptsType
  <2>3. CASE SelectCandidate(w) \/ ClaimLost(w)
    BY <2>3, <1>1 DEF SelectCandidate, ClaimLost, AttemptsType
  <2>4. QED
    BY <2>1, <2>2, <2>3 DEF WorkerStep
<1>6. QED
  BY <1>2, <1>3, <1>4, <1>5 DEF TypeOK, RowsType, PlannedType, InstancesType, WorkersType, AttemptsType

LEMMA AttemptType ==
  ASSUME IInv, NEW a \in Attempts, Attempt(a)
  PROVE  TypeOK'
<1> USE DEF rows, instances, processes, attempts, Goto, SetState
<1>1. TypeOK /\ RowsType /\ PlannedType /\ InstancesType /\ WorkersType /\ AttemptsType
  BY TypeParts DEF IInv
<1>2. a \in 0..MaxStarts
  BY DeploymentAssumption DEF Attempts
<1>3. RowsType'
  BY <1>1, <1>2
     DEF Attempt, InsertDiscovery, StartPlanning, SetOutcome, InsertPlanned, StartRunning,
         RecordResult, StartAggregating, RecordReport, MarkCompleted, MarkFailed,
         RowsType, RunStates, ActiveStates, Settled, Outcomes
<1>4. PlannedType'
  <2>1. CASE InsertPlanned(a)
    <3>1. \A p \in results : p[1] # a
      BY <2>1 DEF InsertPlanned, IInv, AttemptsInv
    <3>2. QED
      BY <2>1, <3>1, <1>1 DEF InsertPlanned, PlannedType
  <2>2. ASSUME NEW h \in Hosts, RecordResult(a, h)
        PROVE  PlannedType'
    <3>1. <<a, h>> \in PlannedRows
      BY DEF PlannedRows
    <3>2. QED
      BY <2>2, <3>1, <1>1 DEF RecordResult, RowIsThere, PlannedType
  <2>3. CASE UNCHANGED <<planned, results>>
    BY <2>3, <1>1 DEF PlannedType
  <2>4. QED
    BY <2>1, <2>2, <2>3
       DEF Attempt, InsertDiscovery, StartPlanning, SetOutcome, StartRunning,
           StartAggregating, RecordReport, MarkCompleted, MarkFailed
<1>5. InstancesType' /\ WorkersType'
  BY <1>1 DEF Attempt, InsertDiscovery, StartPlanning, SetOutcome, InsertPlanned, StartRunning,
              RecordResult, StartAggregating, RecordReport, MarkCompleted, MarkFailed,
              InstancesType, WorkersType
<1>6. AttemptsType'
  <2>1. step' \in [Attempts -> Steps]
    <3>1. step \in [Attempts -> Steps]
      BY <1>1 DEF AttemptsType
    <3>2. step' = step \/ \E to \in Steps : step' = [step EXCEPT ![a] = to]
      BY DEF Attempt, InsertDiscovery, StartPlanning, SetOutcome, InsertPlanned, StartRunning,
             RecordResult, StartAggregating, RecordReport, MarkCompleted, MarkFailed, OnError, Steps
    <3>3. QED
      BY <3>1, <3>2
  <2>2. todo' \in [Attempts -> SUBSET Hosts]
    <3>1. todo \in [Attempts -> SUBSET Hosts] /\ todo[a] \in SUBSET Hosts
      BY <1>1 DEF AttemptsType
    <3>2. todo' = todo \/ \E hosts \in SUBSET Hosts : todo' = [todo EXCEPT ![a] = hosts]
      BY <3>1 DEF Attempt, InsertDiscovery, StartPlanning, SetOutcome, InsertPlanned, StartRunning,
                  RecordResult, StartAggregating, RecordReport, MarkCompleted, MarkFailed
    <3>3. QED
      BY <3>1, <3>2
  <2>3. QED
    BY <2>1, <2>2, <1>1
       DEF Attempt, InsertDiscovery, StartPlanning, SetOutcome, InsertPlanned, StartRunning,
           RecordResult, StartAggregating, RecordReport, MarkCompleted, MarkFailed, AttemptsType
<1>7. QED
  BY <1>3, <1>4, <1>5, <1>6 DEF TypeOK, RowsType, PlannedType, InstancesType, WorkersType, AttemptsType

LEMMA ServerInv ==
  ASSUME IInv, ServerStep
  PROVE  AttemptsInv' /\ StartsInv' /\ ClaimsInv' /\ AloneInv'
<1> USE DEF rows, instances, processes, attempts, ServerStep, ServerStart, RecoverRun, ServerReady,
            StartFails, ServerDies, SubmitRun
<1>1. UNCHANGED <<step, owner, claims>> /\ workers \subseteq workers' /\ results' \subseteq results
  OBVIOUS
<1>2. \A a \in Attempts : Live(a)' <=> Live(a)
  BY <1>1 DEF Live
<1>3. AttemptsInv'
  BY <1>1, <1>2 DEF IInv, AttemptsInv
<1>4. starts \in Nat /\ requeues \in Nat /\ claims \in Nat
  BY DeploymentAssumption DEF IInv, TypeOK
<1>5. StartsInv'
  BY <1>4 DEF IInv, StartsInv
<1>6. ClaimsInv'
  BY <1>4 DEF IInv, ClaimsInv, ClaimsAreExclusive
<1>7. ASSUME workers = {}, NEW a \in Attempts
      PROVE  ~Live(a)
  BY <1>7 DEF IInv, AttemptsInv
<1>8. AloneInv'
  <2> SUFFICES ASSUME ~shared'
               PROVE  /\ starting' => workers' = {}
                      /\ requeue' => state' \in ActiveStates
                      /\ \A a \in Attempts : Live(a) => state' \in ActiveStates
                      /\ \A a, b \in Attempts : Live(a) /\ Live(b) => a = b
    BY <1>2 DEF AloneInv
  <2> USE DEF IInv, AloneInv, StartsInv
  <2>1. CASE ServerStart
    BY <2>1, <1>7
  <2>2. CASE RecoverRun
    BY <2>2, <1>7
  <2>3. CASE SubmitRun
    BY <2>3 DEF ActiveStates
  <2>4. CASE ServerReady \/ StartFails \/ ServerDies
    BY <2>4
  <2>5. QED
    BY <2>1, <2>2, <2>3, <2>4
<1>9. QED
  BY <1>3, <1>5, <1>6, <1>8

LEMMA WorkerInv ==
  ASSUME IInv, NEW w \in Workers, WorkerStep(w)
  PROVE  AttemptsInv' /\ StartsInv' /\ ClaimsInv' /\ AloneInv'
<1> USE DEF rows, instances, processes, attempts
<1>1. UNCHANGED <<starting, requeue, starts, requeues, shared, results>>
  BY DEF WorkerStep, SelectCandidate, ClaimRun, ClaimLost, WorkerDies
<1>2. StartsInv'
  BY <1>1 DEF IInv, StartsInv
<1>3. /\ claims \in Nat /\ requeues \in Nat
      /\ step \in [Attempts -> Steps] /\ owner \in [Attempts -> 0..MaxStarts]
      /\ candidate \subseteq workers
  BY DeploymentAssumption DEF IInv, TypeOK
<1>4. CASE ClaimRun(w)
  <2> USE DEF ClaimRun, Claimable
  <2>1. claims + 1 \in Attempts
    BY <1>3, <1>4, DeploymentAssumption DEF Attempts
  <2>2. ASSUME NEW a \in Attempts
        PROVE  /\ step'[a] = IF a = claims + 1 THEN "discover" ELSE step[a]
               /\ owner'[a] = IF a = claims + 1 THEN w ELSE owner[a]
               /\ Live(a)' <=> a = claims + 1 \/ Live(a)
    <3>1. /\ step'[a] = IF a = claims + 1 THEN "discover" ELSE step[a]
          /\ owner'[a] = IF a = claims + 1 THEN w ELSE owner[a]
      BY <1>3, <1>4, <2>1
    <3>2. QED
      BY <3>1 DEF Live
  <2>3. \A a \in Attempts : (a > claims') <=> (a > claims /\ a # claims + 1)
    BY <1>3, <1>4 DEF Attempts
  <2>4. step[claims + 1] = "none"
    BY <1>3, <2>1 DEF IInv, AttemptsInv
  <2>5. AttemptsInv'
    BY <1>1, <1>3, <1>4, <2>2, <2>3, <2>4 DEF IInv, AttemptsInv
  <2>6. ClaimsInv'
    BY <1>1, <1>3, <1>4 DEF IInv, ClaimsInv, ClaimsAreExclusive
  <2>7. AloneInv'
    <3>1. ~shared => ~starting /\ \A a \in Attempts : ~Live(a)
      BY <1>3, <1>4 DEF IInv, AloneInv, ActiveStates
    <3>2. QED
      BY <1>1, <1>4, <2>2, <3>1 DEF IInv, AloneInv, ActiveStates
  <2>8. QED
    BY <1>2, <2>5, <2>6, <2>7
<1>5. CASE WorkerDies(w)
  <2> USE DEF WorkerDies
  <2>1. ASSUME NEW a \in Attempts
        PROVE  /\ step'[a] = IF Live(a) /\ owner[a] = w THEN "lost" ELSE step[a]
               /\ Live(a)' <=> Live(a) /\ owner[a] # w
    BY <1>5 DEF Live
  <2>2. AttemptsInv'
    <3>1. UNCHANGED <<owner, claims>> /\ workers' = workers \ {w}
      BY <1>5
    <3>2. QED
      BY <1>1, <2>1, <3>1 DEF IInv, AttemptsInv, Live
  <2>3. ClaimsInv' /\ AloneInv'
    BY <1>1, <1>5, <2>1 DEF IInv, ClaimsInv, ClaimsAreExclusive, AloneInv
  <2>4. QED
    BY <1>2, <2>2, <2>3
<1>6. CASE SelectCandidate(w) \/ ClaimLost(w)
  BY <1>2, <1>6 DEF SelectCandidate, ClaimLost, IInv, AttemptsInv, ClaimsInv, ClaimsAreExclusive,
                    AloneInv, Live
<1>7. QED
  BY <1>4, <1>5, <1>6 DEF WorkerStep

LEMMA AttemptInv ==
  ASSUME IInv, NEW a \in Attempts, Attempt(a)
  PROVE  AttemptsInv' /\ StartsInv' /\ ClaimsInv' /\ AloneInv'
<1> USE DEF rows, instances, processes, attempts, Goto, SetState
<1>1. UNCHANGED <<starting, requeue, starts, requeues, shared, workers, owner, claims>>
  BY DEF Attempt, InsertDiscovery, StartPlanning, SetOutcome, InsertPlanned, StartRunning,
         RecordResult, StartAggregating, RecordReport, MarkCompleted, MarkFailed
<1>2. StartsInv'
  BY <1>1 DEF IInv, StartsInv
<1>3. step \in [Attempts -> Steps] /\ claims \in Nat /\ requeues \in Nat
  BY DeploymentAssumption DEF IInv, TypeOK
<1>4. /\ \A b \in Attempts \ {a} : step'[b] = step[b]
      /\ step'[a] # "none" /\ Live(a)
  BY <1>3 DEF Attempt, InsertDiscovery, StartPlanning, SetOutcome, InsertPlanned, StartRunning,
              RecordResult, StartAggregating, RecordReport, MarkCompleted, MarkFailed, OnError, Live
<1>5. /\ \A b \in Attempts \ {a} : Live(b)' <=> Live(b)
      /\ Live(a)' => Live(a)
  BY <1>4 DEF Live
<1>6. /\ state' = state \/ state' \in ActiveStates \/ (state' \in Settled /\ ~Live(a)')
      /\ state' # "queued" \/ state' = state
  <2>1. CASE MarkCompleted(a) \/ MarkFailed(a)
    <3>1. state' \in Settled /\ step'[a] = "over"
      BY <1>3, <2>1 DEF MarkCompleted, MarkFailed, Settled
    <3>2. QED
      BY <3>1 DEF Live, Settled
  <2>2. CASE ~(MarkCompleted(a) \/ MarkFailed(a))
    <3>1. state' \in {state, "planning", "running", "aggregating"}
      BY <2>2 DEF Attempt, InsertDiscovery, StartPlanning, SetOutcome, InsertPlanned, StartRunning,
                  RecordResult, StartAggregating, RecordReport
    <3>2. QED
      BY <3>1 DEF ActiveStates
  <2>3. QED
    BY <2>1, <2>2
<1>7. AttemptsInv'
  <2>1. \/ /\ results' = results
           /\ step'[a] \in {"discover", "plan", "outcome", "insert"} =>
                step[a] \in {"discover", "plan", "outcome", "insert"}
        \/ \E h \in Hosts : /\ results' \subseteq results \union {<<a, h>>}
                            /\ step'[a] \in {"test", "fail"}
    <3>1. CASE \E h \in Hosts : RecordResult(a, h)
      BY <1>3, <3>1 DEF RecordResult, OnError
    <3>2. CASE ~\E h \in Hosts : RecordResult(a, h)
      BY <1>3, <3>2
         DEF Attempt, InsertDiscovery, StartPlanning, SetOutcome, InsertPlanned, StartRunning,
             StartAggregating, RecordReport, MarkCompleted, MarkFailed, OnError
    <3>3. QED
      BY <3>1, <3>2
  <2>2. a > claims <=> step[a] = "none"
    BY DEF IInv, AttemptsInv
  <2>3. step[a] # "none"
    BY <1>4 DEF Live
  <2>4. ASSUME NEW b \in Attempts
        PROVE  /\ step'[b] = "none" <=> b > claims
               /\ Live(b)' => owner[b] \in workers
    BY <1>4, <1>5, <2>2, <2>3 DEF IInv, AttemptsInv
  <2>5. ASSUME NEW b \in Attempts, NEW p \in results', p[1] = b,
               step'[b] \in {"none", "discover", "plan", "outcome", "insert"}
        PROVE  FALSE
    BY <1>4, <2>1, <2>5 DEF IInv, AttemptsInv
  <2>6. QED
    BY <1>1, <2>4, <2>5 DEF AttemptsInv
<1>8. ClaimsInv'
  <2>1. state' = "absent" => state = "absent"
    BY <1>6 DEF ActiveStates, Settled
  <2>2. QED
    BY <1>1, <1>3, <1>6, <2>1 DEF IInv, ClaimsInv, ClaimsAreExclusive
<1>9. AloneInv'
  <2> SUFFICES ASSUME ~shared
               PROVE  /\ starting => workers = {}
                      /\ requeue => state' \in ActiveStates
                      /\ \A b \in Attempts : Live(b)' => state' \in ActiveStates
                      /\ \A b, c \in Attempts : Live(b)' /\ Live(c)' => b = c
    BY <1>1 DEF AloneInv
  <2>1. ~requeue /\ state \in ActiveStates /\ \A b \in Attempts : Live(b) => b = a
    <3>1. owner[a] \in workers
      BY <1>4 DEF IInv, AttemptsInv
    <3>2. QED
      BY <1>4, <3>1 DEF IInv, AloneInv, StartsInv
  <2>2. \A b \in Attempts : Live(b)' => b = a
    BY <1>5, <2>1
  <2>3. Live(a)' => state' \in ActiveStates
    BY <1>6, <2>1 DEF Settled
  <2>4. QED
    BY <2>1, <2>2, <2>3 DEF IInv, AloneInv
<1>10. QED
  BY <1>2, <1>7, <1>8, <1>9

\* The rows of a completed run do not change while its readers are alone.
LEMMA CompletedRowsStay ==
  ASSUME IInv, ~shared, state = "completed",
         \/ ServerStep
         \/ \E w \in Workers : WorkerStep(w)
         \/ \E a \in Attempts : Attempt(a)
  PROVE  UNCHANGED rows
<1> USE DEF rows
<1>1. state \notin ActiveStates
  BY DEF ActiveStates
<1>2. ~requeue /\ \A a \in Attempts : ~Live(a)
  BY <1>1 DEF IInv, AloneInv
<1>3. CASE ServerStep
  BY <1>2, <1>3 DEF ServerStep, ServerStart, RecoverRun, ServerReady, StartFails, ServerDies,
                    SubmitRun
<1>4. ASSUME NEW w \in Workers, WorkerStep(w)
      PROVE  UNCHANGED rows
  BY <1>4 DEF WorkerStep, SelectCandidate, ClaimRun, Claimable, ClaimLost, WorkerDies
<1>5. ASSUME NEW a \in Attempts, Attempt(a)
      PROVE  FALSE
  BY <1>2, <1>5 DEF Attempt, InsertDiscovery, StartPlanning, SetOutcome, InsertPlanned,
                    StartRunning, RecordResult, StartAggregating, RecordReport, MarkCompleted,
                    MarkFailed, Live
<1>6. QED
  BY <1>3, <1>4, <1>5

\* Whoever writes, an answer that says the run is completed remains true, or is
\* not given.
LEMMA WritesKeepAnswers ==
  ASSUME IInv,
         \/ ServerStep
         \/ \E w \in Workers : WorkerStep(w)
         \/ \E a \in Attempts : Attempt(a)
  PROVE  ReadInv'
<1>1. \/ pending' = <<>> /\ got' = NoAnswer
      \/ UNCHANGED <<pending, got, shared>>
  <2>1. CASE ServerStep
    <3>1. CASE ServerStart
      <4>1. shared' = (shared \/ workers # {})
        BY <3>1 DEF ServerStart
      <4>2. CASE shared'
        BY <3>1, <4>2 DEF ServerStart, NoRead
      <4>3. CASE ~shared'
        <5>1. shared = FALSE /\ shared' = FALSE
          <6>1. shared \in BOOLEAN
            BY DEF IInv, TypeOK
          <6>2. QED
            BY <4>1, <4>3, <6>1, Zenon
        <5>2. QED
          BY <3>1, <4>3, <5>1 DEF ServerStart, reader
      <4>4. QED
        BY <4>2, <4>3
    <3>2. CASE ServerDies
      BY <3>2 DEF ServerDies, NoRead
    <3>3. CASE RecoverRun \/ ServerReady \/ StartFails
      BY <3>3 DEF RecoverRun, ServerReady, StartFails, reader
    <3>4. CASE SubmitRun
      BY <3>4 DEF SubmitRun, reader, instances
    <3>5. QED
      BY <2>1, <3>1, <3>2, <3>3, <3>4 DEF ServerStep
  <2>2. ASSUME NEW w \in Workers, WorkerStep(w)
        PROVE  UNCHANGED <<pending, got, shared>>
    BY <2>2 DEF WorkerStep, SelectCandidate, ClaimRun, ClaimLost, WorkerDies, instances, reader
  <2>3. ASSUME NEW a \in Attempts, Attempt(a)
        PROVE  UNCHANGED <<pending, got, shared>>
    BY <2>3 DEF Attempt, InsertDiscovery, StartPlanning, SetOutcome, InsertPlanned, StartRunning,
                RecordResult, StartAggregating, RecordReport, MarkCompleted, MarkFailed,
                instances, reader
  <2>4. QED
    BY <2>1, <2>2, <2>3
<1>2. CASE pending' = <<>> /\ got' = NoAnswer
  BY <1>2 DEF ReadInv, CompletedAnswersAreFinal, NoAnswer
<1>3. CASE UNCHANGED <<pending, got, shared>>
  <2>1. /\ pending' \in Seq(Queries)
        /\ \A i \in 1..Len(pending') : pending'[i] = "row" => i = 1 /\ got' = NoAnswer
        /\ shared' => pending' = <<>> /\ got' = NoAnswer
    BY <1>3 DEF IInv, ReadInv
  <2>2. ASSUME "row" \in DOMAIN got, got["row"] = "completed", NEW q \in DOMAIN got
        PROVE  got[q] = Answer(q)'
    <3>1. ~shared
      BY <2>2 DEF IInv, ReadInv, NoAnswer
    <3>2. got["row"] = Answer("row") /\ got[q] = Answer(q)
      BY <2>2 DEF IInv, ReadInv, CompletedAnswersAreFinal
    <3>3. state = "completed"
      BY <2>2, <3>2, RowAnswer
    <3>4. UNCHANGED rows
      BY <3>1, <3>3, CompletedRowsStay
    <3>5. QED
      BY <3>2, <3>4, AnswersStay
  <2>3. CompletedAnswersAreFinal'
    BY <1>3, <2>2 DEF CompletedAnswersAreFinal
  <2>4. QED
    BY <2>1, <2>3 DEF ReadInv
<1>4. QED
  BY <1>1, <1>2, <1>3

\* The steps of a read change nothing but what was read.
LEMMA ReadStepInv ==
  ASSUME IInv, ReadStep
  PROVE  IInv'
<1> USE DEF rows, instances, processes, attempts
<1>1. UNCHANGED <<rows, instances, processes, attempts>>
  BY DEF ReadStep, Ask, NotFound, Query, Respond
<1>2. TypeOK' /\ AttemptsInv' /\ StartsInv' /\ ClaimsInv' /\ AloneInv'
  BY <1>1 DEF IInv, TypeOK, AttemptsInv, StartsInv, ClaimsInv, ClaimsAreExclusive, AloneInv, Live
<1>3. \A q : Answer(q)' = Answer(q)
  BY <1>1, AnswersStay
<1>4. ReadInv'
  <2>1. ASSUME NEW e \in Endpoints, Ask(e)
        PROVE  ReadInv'
    <3>1. RowFirst(e) /\ ~shared' /\ pending' = e /\ got = NoAnswer /\ got' = got
      BY <2>1, RowsComeFirst DEF Ask
    <3>2. CompletedAnswersAreFinal'
      BY <3>1 DEF CompletedAnswersAreFinal, NoAnswer
    <3>3. QED
      BY <3>1, <3>2 DEF ReadInv, RowFirst
  <2>2. CASE NotFound
    BY <2>2 DEF NotFound, NoRead, NoAnswer, ReadInv, CompletedAnswersAreFinal
  <2>3. CASE Respond
    BY <2>3 DEF Respond, NoAnswer, IInv, ReadInv, CompletedAnswersAreFinal
  <2>4. CASE Query
    <3> DEFINE q == Head(pending)
    <3>1. /\ pending # <<>> /\ pending \in Seq(Queries) /\ pending' = Tail(pending)
          /\ got' = [k \in DOMAIN got \union {q} |-> IF k = q THEN Answer(q) ELSE got[k]]
      BY <2>4 DEF Query, IInv, ReadInv
    <3>2. ~shared'
      BY <1>1, <3>1 DEF IInv, ReadInv
    <3>3. /\ pending' \in Seq(Queries)
          /\ \A i \in 1..Len(pending') : pending'[i] # "row"
      <4>1. /\ Len(pending) \in Nat \ {0} /\ pending' \in Seq(Queries)
            /\ Len(pending') = Len(pending) - 1
        BY <3>1
      <4>2. \A i \in 1..Len(pending') : pending'[i] = pending[i + 1]
        BY <3>1, <4>1
      <4>3. \A i \in 1..Len(pending') : i + 1 \in 1..Len(pending) /\ i + 1 # 1
        BY <4>1
      <4>4. QED
        BY <4>1, <4>2, <4>3 DEF IInv, ReadInv
    <3>4. q = "row" => DOMAIN got = {}
      <4>1. 1 \in 1..Len(pending) /\ q = pending[1]
        BY <3>1
      <4>2. QED
        BY <4>1 DEF IInv, ReadInv, NoAnswer
    <3>5. ASSUME "row" \in DOMAIN got', got'["row"] = "completed", NEW k \in DOMAIN got'
          PROVE  got'[k] = Answer(k)
      <4>1. CASE k = q
        BY <3>1, <4>1
      <4>2. CASE k # q
        <5>1. q # "row" /\ k \in DOMAIN got
          BY <3>1, <3>4, <3>5, <4>2
        <5>2. "row" \in DOMAIN got /\ got["row"] = "completed"
          BY <3>1, <3>5, <5>1
        <5>3. got[k] = Answer(k)
          BY <5>1, <5>2 DEF IInv, ReadInv, CompletedAnswersAreFinal
        <5>4. QED
          BY <3>1, <4>2, <5>1, <5>3
      <4>3. QED
        BY <4>1, <4>2
    <3>6. CompletedAnswersAreFinal'
      BY <1>3, <3>5 DEF CompletedAnswersAreFinal
    <3>7. QED
      BY <3>2, <3>3, <3>6 DEF ReadInv
  <2>5. QED
    BY <2>1, <2>2, <2>3, <2>4 DEF ReadStep
<1>5. QED
  BY <1>2, <1>4 DEF IInv

LEMMA NextInv ==
  ASSUME IInv, [Next]_vars
  PROVE  IInv'
<1>1. CASE UNCHANGED vars
  <2>1. UNCHANGED <<rows, pending, got, instances, processes, attempts>>
    BY <1>1 DEF vars, reader
  <2>2. TypeOK' /\ AttemptsInv' /\ StartsInv' /\ ClaimsInv' /\ AloneInv'
    BY <2>1 DEF rows, instances, processes, attempts, IInv, TypeOK, AttemptsInv, StartsInv,
                ClaimsInv, ClaimsAreExclusive, AloneInv, Live
  <2>3. \A q : Answer(q)' = Answer(q)
    BY <2>1, AnswersStay
  <2>4. ReadInv'
    BY <2>1, <2>3 DEF instances, IInv, ReadInv, CompletedAnswersAreFinal
  <2>5. QED
    BY <2>2, <2>4 DEF IInv
<1>2. CASE ServerStep
  BY <1>2, ServerType, ServerInv, WritesKeepAnswers DEF IInv
<1>3. ASSUME NEW w \in Workers, WorkerStep(w)
      PROVE  IInv'
  BY <1>3, WorkerType, WorkerInv, WritesKeepAnswers DEF IInv
<1>4. ASSUME NEW a \in Attempts, Attempt(a)
      PROVE  IInv'
  BY <1>4, AttemptType, AttemptInv, WritesKeepAnswers DEF IInv
<1>5. CASE ReadStep
  BY <1>5, ReadStepInv
<1>6. QED
  BY <1>1, <1>2, <1>3, <1>4, <1>5 DEF Next, ServerStep, WorkerStep, ReadStep

-----------------------------------------------------------------------------
(* Theorems                                                                *)

\* In every state claims and recoveries balance, and as long as no server was
\* started beside a live worker only one party may write.
THEOREM InvariantHolds == Spec => []IInv
<1>1. IInv /\ [Next]_vars => IInv'
  BY NextInv
<1>2. QED
  BY InitInv, <1>1, PTL DEF Spec

\* The rows of a run have their types, and every result refers to a planned
\* test that is over: the foreign key holds whatever processes recover, write
\* and die at once.
THEOREM TypeCorrect == Spec => []TypeOK
<1>1. IInv => TypeOK
  BY DEF IInv
<1>2. QED
  BY InvariantHolds, <1>1, PTL

\* Of all workers that poll, one claims the run for its submission and one for
\* each of its recoveries.
THEOREM ClaimsExclusive == Spec => []ClaimsAreExclusive
<1>1. IInv => ClaimsAreExclusive
  BY DEF IInv, ClaimsInv
<1>2. QED
  BY InvariantHolds, <1>1, PTL

\* A status, results or report answer whose first query says completed agrees
\* with the database in all its parts, whoever writes between its queries.
THEOREM AnswersFinal == Spec => []CompletedAnswersAreFinal
<1>1. IInv => CompletedAnswersAreFinal
  BY DEF IInv, ReadInv
<1>2. QED
  BY InvariantHolds, <1>1, PTL
=============================================================================
