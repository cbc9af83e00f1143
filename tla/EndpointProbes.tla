--------------------------- MODULE EndpointProbes ---------------------------
(***************************************************************************)
(* One batch of endpoint probes of a host (probe_endpoint_batch of         *)
(* discovery/surface.rs): the list of endpoints is cut into chunks, one    *)
(* thread walks each chunk in order, and the batch joins the threads in    *)
(* order and keeps what they saw by index, so that the first endpoint of   *)
(* the list that answered is used, not the first that happened to answer.  *)
(*                                                                         *)
(* Endpoints are their positions in the list, threads those of their       *)
(* chunks, both from 0.                                                    *)
(***************************************************************************)
EXTENDS Integers, FiniteSets

CONSTANTS
  Cpus,       \* available_parallelism
  MaxSize     \* the most endpoints of a batch

ASSUME EndpointProbesAssumption == Cpus \in Nat \ {0} /\ MaxSize \in Nat

VARIABLES
  size,       \* number of endpoints, 0 when there is no batch
  budget,     \* worker_count
  at,         \* offset of the endpoint each thread probes next
  seen,       \* observations of each thread, by index
  broken,     \* threads that returned an error
  joined,     \* number of threads joined
  ordered,    \* joined observations, by index
  answers     \* history: what each endpoint answered

probeVars == <<size, budget, at, seen, broken, joined, ordered, answers>>

Threads == 0..(Cpus - 1)
\* What an endpoint answers: a wanted status; another one or none; or the
\* request of its headers or its body could not be made.
Answers == {"unasked", "matched", "unwanted", "error"}
Nothing == [t \in Threads |-> {}]
Minimum(a, b) == IF a < b THEN a ELSE b

\* ceil(cpus / load) and ceil(cpus * headroom) are any numbers from 1 to the
\* number of cpus.
WorkerCounts(n) == 1..Minimum(n, Cpus)

\* Mutant: the division rounds down.
RoundedDown(n, w) == n \div w

ChunkSize(n, w) == (n + w - 1) \div w

\* slice::chunks: chunks of the given size, the last one may be shorter.
Chunks ==
  IF size = 0 THEN 0
  ELSE LET length == ChunkSize(size, budget) IN (size + length - 1) \div length
ChunkLength(t) == Minimum(ChunkSize(size, budget), size - t * ChunkSize(size, budget))
EndpointAt(t, offset) == t * ChunkSize(size, budget) + offset

\* Mutant: an index within the chunk.
OffsetOnly(t, offset) == offset

\* The index a thread files an observation under.
IndexOf(t, offset) == t * ChunkSize(size, budget) + offset

NoBatch ==
  /\ size = 0 /\ budget = 1 /\ joined = 0
  /\ at = [t \in Threads |-> 0] /\ seen = Nothing /\ broken = {}
  /\ ordered = {} /\ answers = [e \in 0..(MaxSize - 1) |-> "unasked"]

EndBatch ==
  /\ size' = 0 /\ budget' = 1 /\ joined' = 0
  /\ at' = [t \in Threads |-> 0] /\ seen' = Nothing /\ broken' = {}
  /\ ordered' = {} /\ answers' = [e \in 0..(MaxSize - 1) |-> "unasked"]

StartBatch(n) ==
  /\ size = 0 /\ n > 0
  /\ size' = n
  /\ budget' \in WorkerCounts(n)
  /\ UNCHANGED <<at, seen, broken, joined, ordered, answers>>

ThreadEnded(t) == at[t] = ChunkLength(t) \/ t \in broken

\* One endpoint: its headers, and its body when the status is a wanted one.
Probe(t) ==
  LET e == EndpointAt(t, at[t]) IN
  /\ t < Chunks /\ ~ThreadEnded(t)
  /\ \E answer \in Answers \ {"unasked"} :
       /\ answers' = [answers EXCEPT ![e] = answer]
       /\ broken' = IF answer = "error" THEN broken \union {t} ELSE broken
       /\ seen' = IF answer = "matched"
                  THEN [seen EXCEPT ![t] = @ \union {<<IndexOf(t, at[t]), e>>}] ELSE seen
       /\ at' = IF answer = "error" THEN at ELSE [at EXCEPT ![t] = @ + 1]
  /\ UNCHANGED <<size, budget, joined, ordered>>

\* The batch joins its next thread and files what it saw.
Join ==
  /\ joined < Chunks /\ ThreadEnded(joined) /\ joined \notin broken
  /\ ordered' = {o \in ordered : \A p \in seen[joined] : p[1] # o[1]} \union seen[joined]
  /\ joined' = joined + 1
  /\ UNCHANGED <<size, budget, at, seen, broken, answers>>

\* The thread to join had failed, and the batch fails with it. (The others go
\* on, and nobody reads what they see.)
BatchBroken == joined < Chunks /\ joined \in broken
BatchJoined == size > 0 /\ joined = Chunks

\* The endpoint the caller uses, -1 when none answered.
Chosen ==
  IF ordered = {} THEN -1
  ELSE (CHOOSE o \in ordered : \A p \in ordered : o[1] <= p[1])[2]

ProbeTypeOK ==
  /\ size \in 0..MaxSize
  /\ budget \in 1..Cpus
  /\ Chunks <= budget
  /\ at \in [Threads -> 0..MaxSize]
  /\ seen \in [Threads -> SUBSET ((0..(MaxSize - 1)) \X (0..(MaxSize - 1)))]
  /\ ordered \subseteq (0..(MaxSize - 1)) \X (0..(MaxSize - 1))
  /\ broken \subseteq Threads /\ joined \in 0..Cpus
  /\ answers \in [0..(MaxSize - 1) -> Answers]

\* Whatever the number of workers and their speeds, a batch that succeeds has
\* asked every endpoint and chooses the first of the list that answered as
\* wanted, or none when none did.
FirstMatchWins ==
  BatchJoined =>
    LET matched == {e \in 0..(size - 1) : answers[e] = "matched"} IN
    /\ \A e \in 0..(size - 1) : answers[e] \notin {"unasked", "error"}
    /\ IF matched = {} THEN Chosen = -1
       ELSE Chosen \in matched /\ \A e \in matched : Chosen <= e
=============================================================================
