-------------------------- MODULE InspectionProofs --------------------------
(***************************************************************************)
(* Proofs about HostInspection and the parts it is made of, for every      *)
(* number of cpus and of endpoints: a batch of probes chooses the first    *)
(* endpoint that answered, the host is found dead when it should be, and   *)
(* the tests that are executed are those its facts call for.               *)
(***************************************************************************)
EXTENDS HostInspection, FiniteSetTheorems, WellFoundedInduction, TLAPS

-----------------------------------------------------------------------------
(* Chunks of a list                                                        *)

LEMMA Quotient ==
  ASSUME NEW a \in Nat, NEW b \in Nat \ {0}
  PROVE  /\ a \div b \in Nat
         /\ (a \div b) * b <= a
         /\ a < (a \div b) * b + b
  OBVIOUS

LEMMA Multiples ==
  ASSUME NEW b \in Nat, NEW t \in Nat, NEW u \in Nat, t < u
  PROVE  t * b \in Nat /\ u * b \in Nat /\ t * b + b <= u * b
  OBVIOUS

\* A list of n endpoints is cut into at most w chunks, none of them empty.
LEMMA ChunkFacts ==
  ASSUME NEW n \in Nat \ {0}, NEW w \in 1..n
  PROVE  LET length == ChunkSize(n, w)
             chunks == (n + length - 1) \div length
         IN /\ length \in Nat \ {0} /\ chunks \in 1..w
            /\ n <= chunks * length
            /\ (chunks - 1) * length < n
<1> DEFINE length == ChunkSize(n, w)
           chunks == (n + length - 1) \div length
<1>1. n + w - 1 \in Nat /\ w \in Nat \ {0}
  OBVIOUS
<1>2. length \in Nat /\ length * w <= n + w - 1 /\ n + w - 1 < length * w + w
  BY <1>1, Quotient DEF ChunkSize
<1> HIDE DEF length
<1>3. length # 0
  BY <1>2
<1>4. n <= length * w
  BY <1>1, <1>2
<1>5. n + length - 1 \in Nat /\ length \in Nat \ {0}
  BY <1>2, <1>3
<1>6. /\ chunks \in Nat /\ chunks * length <= n + length - 1
      /\ n + length - 1 < chunks * length + length
  BY <1>5, Quotient
<1> HIDE DEF chunks
<1>7. chunks # 0
  BY <1>5, <1>6
<1>8. chunks <= w
  <2>1. SUFFICES ASSUME w < chunks PROVE FALSE
    BY <1>1, <1>6
  <2>2. w * length + length <= chunks * length
    BY <1>1, <1>2, <1>6, <2>1, Multiples
  <2>3. QED
    BY <1>2, <1>4, <1>6, <2>2
<1>9. n <= chunks * length
  BY <1>5, <1>6
<1>10. (chunks - 1) * length < n
  BY <1>5, <1>6
<1>11. QED
  BY <1>1, <1>5, <1>6, <1>7, <1>8, <1>9, <1>10 DEF length, chunks


\* The threads of a batch of n endpoints with a budget of w, the length of the
\* chunk of thread t, its endpoints, and the first k of them.
Count(n, w) == IF n = 0 THEN 0 ELSE (n + ChunkSize(n, w) - 1) \div ChunkSize(n, w)
Share(n, w, t) == Minimum(ChunkSize(n, w), n - t * ChunkSize(n, w))
FirstOwn(n, w, t, k) == (t * ChunkSize(n, w))..(t * ChunkSize(n, w) + k - 1)
Own(n, w, t) == FirstOwn(n, w, t, Share(n, w, t))

\* Every endpoint is that of one thread.
LEMMA Partition ==
  ASSUME NEW n \in Nat \ {0}, NEW w \in 1..n
  PROVE  /\ Count(n, w) \in 1..w
         /\ \A t \in 0..(Count(n, w) - 1) :
              /\ Share(n, w, t) \in 1..n
              /\ Own(n, w, t) \subseteq 0..(n - 1)
              /\ t * ChunkSize(n, w) \in Nat
              /\ \A k \in 0..Share(n, w, t) : FirstOwn(n, w, t, k) \subseteq Own(n, w, t)
         /\ \A t, u \in 0..(Count(n, w) - 1) : t # u => Own(n, w, t) \intersect Own(n, w, u) = {}
         /\ \A e \in 0..(n - 1) : \E t \in 0..(Count(n, w) - 1) : e \in Own(n, w, t)
<1> DEFINE length == ChunkSize(n, w)
           chunks == Count(n, w)
<1>1. /\ length \in Nat \ {0} /\ chunks \in 1..w
      /\ n <= chunks * length /\ (chunks - 1) * length < n
  BY ChunkFacts DEF Count
<1> HIDE DEF chunks
<1>2. ASSUME NEW t \in 0..(chunks - 1)
      PROVE  /\ t * length \in Nat /\ t * length < n
             /\ Share(n, w, t) = Minimum(length, n - t * length)
  <2>1. t * length <= (chunks - 1) * length
    <3>1. CASE t = chunks - 1
      BY <1>1, <3>1
    <3>2. CASE t < chunks - 1
      BY <1>1, <3>2, Multiples
    <3>3. QED
      BY <1>1, <3>1, <3>2
  <2>2. QED
    BY <1>1, <2>1 DEF Share
<1> HIDE DEF length
<1>3. ASSUME NEW t \in 0..(chunks - 1)
      PROVE  /\ Share(n, w, t) \in 1..n /\ Share(n, w, t) <= length
             /\ Own(n, w, t) = (t * length)..(t * length + Share(n, w, t) - 1)
             /\ Own(n, w, t) \subseteq 0..(n - 1)
             /\ t * length \in Nat
             /\ \A k \in 0..Share(n, w, t) : FirstOwn(n, w, t, k) \subseteq Own(n, w, t)
  <2>1. /\ Share(n, w, t) \in 1..n /\ Share(n, w, t) <= length
        /\ Share(n, w, t) <= n - t * length
    BY <1>1, <1>2 DEF Minimum
  <2>2. /\ Own(n, w, t) = (t * length)..(t * length + Share(n, w, t) - 1)
        /\ \A k : FirstOwn(n, w, t, k) = (t * length)..(t * length + k - 1)
    BY DEF Own, FirstOwn, length
  <2>3. QED
    BY <1>2, <2>1, <2>2
<1>4. ASSUME NEW t \in 0..(chunks - 1), NEW u \in 0..(chunks - 1), t < u
      PROVE  Own(n, w, t) \intersect Own(n, w, u) = {}
  <2>1. t * length + length <= u * length
    BY <1>1, <1>4, Multiples
  <2>2. ASSUME NEW e \in Own(n, w, t), e \in Own(n, w, u) PROVE FALSE
    <3>1. /\ e \in (t * length)..(t * length + Share(n, w, t) - 1)
          /\ Share(n, w, t) \in Int /\ Share(n, w, t) <= length /\ t * length \in Int
      BY <1>3, <2>2
    <3>2. e \in (u * length)..(u * length + Share(n, w, u) - 1)
      BY <1>3, <2>2
    <3>3. QED
      BY <1>1, <2>1, <3>1, <3>2
  <2>3. QED
    BY <2>2
<1>5. ASSUME NEW e \in 0..(n - 1) PROVE \E t \in 0..(chunks - 1) : e \in Own(n, w, t)
  <2> DEFINE t == e \div length
  <2>1. t \in Nat /\ t * length <= e /\ e < t * length + length
    BY <1>1, Quotient
  <2> HIDE DEF t
  <2>2. t < chunks
    <3>1. SUFFICES ASSUME chunks <= t PROVE FALSE
      BY <1>1, <2>1
    <3>2. chunks * length <= t * length
      <4>1. CASE chunks = t
        BY <1>1, <4>1
      <4>2. CASE chunks < t
        BY <1>1, <2>1, <4>2, Multiples
      <4>3. QED
        BY <1>1, <2>1, <3>1, <4>1, <4>2
    <3>3. QED
      BY <1>1, <2>1, <3>2
  <2>3. t \in 0..(chunks - 1)
    BY <1>1, <2>1, <2>2
  <2>4. e <= t * length + Share(n, w, t) - 1
    BY <1>1, <1>2, <2>1, <2>3 DEF Minimum
  <2>5. e \in Own(n, w, t)
    BY <1>3, <2>1, <2>3, <2>4
  <2>6. QED
    BY <2>3, <2>5
<1>6. \A t, u \in 0..(chunks - 1) : t # u => Own(n, w, t) \intersect Own(n, w, u) = {}
  BY <1>1, <1>4
<1>7. QED
  BY <1>1, <1>3, <1>5, <1>6 DEF length, chunks

-----------------------------------------------------------------------------
(* A batch of probes                                                       *)

\* What is filed for the endpoints of a set.
Matched(asked, endpoints) == {<<e, e>> : e \in {f \in endpoints : asked[f] = "matched"}}

\* A thread has asked the first endpoints of its chunk.
ThreadInv(t) ==
  /\ at[t] \in 0..Share(size, budget, t)
  /\ seen[t] = Matched(answers, FirstOwn(size, budget, t, at[t]))
  /\ \A e \in FirstOwn(size, budget, t, at[t]) : answers[e] \in {"matched", "unwanted"}

\* What was joined is what threads that had asked their whole chunk saw.
JoinedInv ==
  /\ joined \in 0..Count(size, budget)
  /\ \A t \in 0..(joined - 1) : at[t] = Share(size, budget, t) /\ t \notin broken
  /\ ordered = UNION {Matched(answers, Own(size, budget, t)) : t \in 0..(joined - 1)}

BatchTypes ==
  /\ size \in 0..MaxSize /\ budget \in 1..Cpus /\ joined \in 0..Cpus
  /\ at \in [Threads -> 0..MaxSize] /\ broken \subseteq Threads
  /\ seen \in [Threads -> SUBSET ((0..(MaxSize - 1)) \X (0..(MaxSize - 1)))]
  /\ ordered \subseteq (0..(MaxSize - 1)) \X (0..(MaxSize - 1))
  /\ answers \in [0..(MaxSize - 1) -> Answers]

BatchInv ==
  /\ BatchTypes
  /\ size = 0 => NoBatch
  /\ size > 0 => /\ budget <= size
                 /\ \A t \in 0..(Count(size, budget) - 1) : ThreadInv(t)
                 /\ JoinedInv

LEMMA NoBatchIsOne ==
  ASSUME NoBatch PROVE BatchInv
<1>1. Cpus \in Nat \ {0} /\ MaxSize \in Nat
  BY EndpointProbesAssumption
<1>2. BatchTypes
  BY <1>1 DEF BatchTypes, NoBatch, Nothing, Answers
<1>3. QED
  BY <1>2 DEF BatchInv, NoBatch

LEMMA BatchEnds ==
  ASSUME EndBatch PROVE BatchInv'
<1>1. Cpus \in Nat \ {0} /\ MaxSize \in Nat
  BY EndpointProbesAssumption
<1>2. BatchTypes'
  BY <1>1 DEF BatchTypes, EndBatch, Nothing, Answers
<1>3. QED
  BY <1>2 DEF BatchInv, NoBatch, EndBatch, Nothing

LEMMA BatchStarts ==
  ASSUME BatchInv, NEW n \in 1..MaxSize, StartBatch(n)
  PROVE  BatchInv'
<1>1. /\ Cpus \in Nat \ {0} /\ MaxSize \in Nat /\ NoBatch /\ BatchTypes
      /\ size' = n /\ budget' \in 1..Minimum(n, Cpus)
      /\ UNCHANGED <<at, seen, broken, joined, ordered, answers>>
  BY EndpointProbesAssumption DEF BatchInv, StartBatch, WorkerCounts
<1>2. PICK w \in 1..n : budget' = w /\ w \in 1..Cpus
  BY <1>1 DEF Minimum
<1>3. /\ Count(n, w) \in 1..w
      /\ \A t \in 0..(Count(n, w) - 1) : Share(n, w, t) \in 1..n /\ t * ChunkSize(n, w) \in Nat
  BY <1>1, Partition
<1>4. BatchTypes'
  BY <1>1, <1>2 DEF BatchTypes
<1>5. ASSUME NEW t \in 0..(Count(n, w) - 1) PROVE ThreadInv(t)'
  <2>1. t \in Threads
    BY <1>1, <1>2, <1>3 DEF Threads
  <2>2. at'[t] = 0 /\ seen'[t] = {}
    BY <1>1, <2>1 DEF NoBatch, Nothing
  <2>3. FirstOwn(n, w, t, 0) = {} /\ 0 \in 0..Share(n, w, t)
    BY <1>1, <1>3 DEF FirstOwn
  <2>4. Matched(answers', {}) = {}
    BY DEF Matched
  <2>5. QED
    BY <1>1, <1>2, <2>2, <2>3, <2>4 DEF ThreadInv
<1>6. JoinedInv'
  <2>1. joined' = 0 /\ ordered' = {} /\ 0..(joined' - 1) = {}
    BY <1>1 DEF NoBatch
  <2>2. 0 \in 0..Count(n, w)
    BY <1>3
  <2>3. QED
    BY <1>1, <1>2, <2>1, <2>2 DEF JoinedInv
<1>7. QED
  BY <1>1, <1>2, <1>4, <1>5, <1>6 DEF BatchInv

\* What holds while there is a batch.
LEMMA DuringBatch ==
  ASSUME BatchInv, size > 0
  PROVE  /\ size \in 1..MaxSize /\ budget \in 1..size /\ budget \in 1..Cpus
         /\ MaxSize \in Nat /\ Cpus \in Nat \ {0}
         /\ Count(size, budget) \in 1..budget
         /\ 0..(Count(size, budget) - 1) \subseteq Threads
         /\ \A t \in 0..(Count(size, budget) - 1) :
              /\ ThreadInv(t)
              /\ Share(size, budget, t) \in 1..size
              /\ Own(size, budget, t) \subseteq 0..(size - 1)
              /\ t * ChunkSize(size, budget) \in Nat
              /\ FirstOwn(size, budget, t, at[t]) \subseteq Own(size, budget, t)
         /\ JoinedInv /\ BatchTypes
         /\ Chunks = Count(size, budget)
         /\ \A t : ChunkLength(t) = Share(size, budget, t)
<1>1. /\ size \in 1..MaxSize /\ budget \in 1..size /\ budget \in 1..Cpus
      /\ MaxSize \in Nat /\ Cpus \in Nat \ {0} /\ BatchTypes /\ JoinedInv
      /\ \A t \in 0..(Count(size, budget) - 1) : ThreadInv(t)
  BY EndpointProbesAssumption DEF BatchInv, BatchTypes
<1>2. Count(size, budget) \in 1..budget
  BY <1>1, Partition
<1>3. 0..(Count(size, budget) - 1) \subseteq Threads
  BY <1>1, <1>2 DEF Threads
<1>4. ASSUME NEW t \in 0..(Count(size, budget) - 1)
      PROVE  /\ Share(size, budget, t) \in 1..size
             /\ Own(size, budget, t) \subseteq 0..(size - 1)
             /\ t * ChunkSize(size, budget) \in Nat
             /\ FirstOwn(size, budget, t, at[t]) \subseteq Own(size, budget, t)
  <2>1. at[t] \in 0..Share(size, budget, t)
    BY <1>1 DEF ThreadInv
  <2>2. size \in Nat \ {0} /\ budget \in 1..size
    BY <1>1
  <2>3. /\ Share(size, budget, t) \in 1..size
        /\ Own(size, budget, t) \subseteq 0..(size - 1)
        /\ t * ChunkSize(size, budget) \in Nat
        /\ \A k \in 0..Share(size, budget, t) :
             FirstOwn(size, budget, t, k) \subseteq Own(size, budget, t)
    BY <2>2, Partition
  <2>4. QED
    BY <2>1, <2>3
<1>5. Chunks = Count(size, budget) /\ \A t : ChunkLength(t) = Share(size, budget, t)
  BY DEF Chunks, ChunkLength, Count, Share
<1>6. QED
  BY <1>1, <1>2, <1>3, <1>4, <1>5

\* A thread asks its next endpoint, which is nobody else's.
LEMMA ProbeKeepsBatch ==
  ASSUME BatchInv, NEW t \in Threads, Probe(t)
  PROVE  BatchInv'
<1> DEFINE count == Count(size, budget)
           e == EndpointAt(t, at[t])
<1>1. size > 0
  <2>1. size = 0 => Chunks = 0
    BY DEF Chunks
  <2>2. t < Chunks /\ t \in Nat /\ size \in Nat
    BY EndpointProbesAssumption DEF Probe, Threads, BatchInv, BatchTypes
  <2>3. QED
    BY <2>1, <2>2
<1>2. /\ size \in 1..MaxSize /\ budget \in 1..size /\ budget \in 1..Cpus
      /\ MaxSize \in Nat /\ Cpus \in Nat \ {0} /\ count \in 1..budget
      /\ 0..(count - 1) \subseteq Threads
      /\ \A u \in 0..(count - 1) :
           /\ ThreadInv(u)
           /\ Share(size, budget, u) \in 1..size
           /\ Own(size, budget, u) \subseteq 0..(size - 1)
           /\ u * ChunkSize(size, budget) \in Nat
           /\ FirstOwn(size, budget, u, at[u]) \subseteq Own(size, budget, u)
      /\ JoinedInv /\ BatchTypes
      /\ Chunks = count /\ \A u : ChunkLength(u) = Share(size, budget, u)
  BY <1>1, DuringBatch
<1>3. t \in 0..(count - 1) /\ at[t] # Share(size, budget, t) /\ t \notin broken
  <2>1. t \in Nat
    BY <1>2 DEF Threads
  <2>2. QED
    BY <1>2, <2>1 DEF Probe, ThreadEnded
<1>4. at[t] \in Nat /\ at[t] < Share(size, budget, t) /\ Share(size, budget, t) \in 1..size
  BY <1>2, <1>3 DEF ThreadInv
<1>5. /\ e = t * ChunkSize(size, budget) + at[t] /\ IndexOf(t, at[t]) = e
      /\ e \in Own(size, budget, t) /\ e \in 0..(MaxSize - 1)
      /\ FirstOwn(size, budget, t, at[t] + 1) = FirstOwn(size, budget, t, at[t]) \union {e}
      /\ e \notin FirstOwn(size, budget, t, at[t])
  <2>1. e = t * ChunkSize(size, budget) + at[t] /\ IndexOf(t, at[t]) = e
    BY DEF EndpointAt, IndexOf
  <2>2. t * ChunkSize(size, budget) \in Nat
    BY <1>2, <1>3
  <2> HIDE DEF e
  <2>3. e \in Own(size, budget, t)
    BY <1>4, <2>1, <2>2 DEF Own, FirstOwn
  <2>4. e \in 0..(size - 1)
    BY <1>2, <1>3, <2>3
  <2>5. QED
    BY <1>2, <1>4, <2>1, <2>2, <2>3, <2>4 DEF FirstOwn
<1>6. \A u \in 0..(count - 1) : u # t => e \notin Own(size, budget, u)
  <2>1. \A u \in 0..(count - 1) : u # t => Own(size, budget, u) \intersect Own(size, budget, t) = {}
    <3>1. size \in Nat \ {0} /\ budget \in 1..size
      BY <1>2
    <3>2. \A u, v \in 0..(count - 1) :
            u # v => Own(size, budget, u) \intersect Own(size, budget, v) = {}
      BY <3>1, Partition
    <3>3. QED
      BY <1>3, <3>2
  <2>2. QED
    BY <1>5, <2>1
<1> HIDE DEF e
<1>7. PICK answer \in Answers \ {"unasked"} :
       /\ answers' = [answers EXCEPT ![e] = answer]
       /\ broken' = IF answer = "error" THEN broken \union {t} ELSE broken
       /\ seen' = IF answer = "matched"
                  THEN [seen EXCEPT ![t] = @ \union {<<e, e>>}] ELSE seen
       /\ at' = IF answer = "error" THEN at ELSE [at EXCEPT ![t] = @ + 1]
       /\ UNCHANGED <<size, budget, joined, ordered>>
  BY <1>5 DEF Probe, e
<1>8. /\ at \in [Threads -> 0..MaxSize] /\ broken \subseteq Threads
      /\ seen \in [Threads -> SUBSET ((0..(MaxSize - 1)) \X (0..(MaxSize - 1)))]
      /\ ordered \subseteq (0..(MaxSize - 1)) \X (0..(MaxSize - 1))
      /\ answers \in [0..(MaxSize - 1) -> Answers]
  BY <1>2 DEF BatchTypes
<1>9. BatchTypes'
  <2>1. at' \in [Threads -> 0..MaxSize]
    BY <1>2, <1>4, <1>7, <1>8
  <2>2. seen' \in [Threads -> SUBSET ((0..(MaxSize - 1)) \X (0..(MaxSize - 1)))]
    BY <1>5, <1>7, <1>8
  <2>3. answers' \in [0..(MaxSize - 1) -> Answers]
    BY <1>5, <1>7, <1>8
  <2>4. broken' \subseteq Threads
    BY <1>7, <1>8
  <2>5. QED
    BY <1>2, <1>7, <2>1, <2>2, <2>3, <2>4 DEF BatchTypes
<1>10. answers'[e] = answer /\ \A f \in 0..(MaxSize - 1) : f # e => answers'[f] = answers[f]
  BY <1>5, <1>7, <1>8
<1>11. ASSUME NEW u \in 0..(count - 1), u # t PROVE ThreadInv(u)'
  <2>1. at'[u] = at[u] /\ seen'[u] = seen[u]
    BY <1>2, <1>7, <1>8, <1>11
  <2>2. \A f \in FirstOwn(size, budget, u, at[u]) : f \in 0..(MaxSize - 1) /\ f # e
    BY <1>2, <1>6, <1>11
  <2>3. \A f \in FirstOwn(size, budget, u, at[u]) : answers'[f] = answers[f]
    BY <1>10, <2>2
  <2>4. ThreadInv(u)
    BY <1>2
  <2>5. QED
    BY <1>7, <2>1, <2>3, <2>4 DEF ThreadInv, Matched
<1>12. ThreadInv(t)'
  <2>1. ThreadInv(t) /\ t \in Threads
    BY <1>2, <1>3
  <2>2. \A f \in FirstOwn(size, budget, t, at[t]) : f \in 0..(MaxSize - 1) /\ f # e
    BY <1>2, <1>3, <1>5
  <2>3. \A f \in FirstOwn(size, budget, t, at[t]) : answers'[f] = answers[f]
    BY <1>10, <2>2
  <2>4. CASE answer = "error"
    <3>1. at'[t] = at[t] /\ seen'[t] = seen[t]
      BY <1>7, <2>4
    <3>2. QED
      BY <1>7, <2>1, <2>3, <3>1 DEF ThreadInv, Matched
  <2>5. CASE answer # "error"
    <3>1. at'[t] = at[t] + 1 /\ answer \in {"matched", "unwanted"}
      BY <1>7, <1>8, <2>1, <2>5 DEF Answers
    <3>2. at'[t] \in 0..Share(size, budget, t)
      BY <1>4, <3>1
    <3>3. seen'[t] = IF answer = "matched" THEN seen[t] \union {<<e, e>>} ELSE seen[t]
      BY <1>7, <1>8, <2>1
    <3>4. FirstOwn(size, budget, t, at'[t]) = FirstOwn(size, budget, t, at[t]) \union {e}
      BY <1>5, <3>1
    <3>5. Matched(answers', FirstOwn(size, budget, t, at'[t])) = seen'[t]
      <4>1. seen[t] = Matched(answers, FirstOwn(size, budget, t, at[t]))
        BY <2>1 DEF ThreadInv
      <4>2. CASE answer = "matched"
        BY <1>10, <2>3, <3>3, <3>4, <4>1, <4>2 DEF Matched
      <4>3. CASE answer # "matched"
        BY <1>10, <2>3, <3>3, <3>4, <4>1, <4>3 DEF Matched
      <4>4. QED
        BY <4>2, <4>3
    <3>6. \A f \in FirstOwn(size, budget, t, at'[t]) : answers'[f] \in {"matched", "unwanted"}
      BY <1>10, <2>1, <2>3, <3>1, <3>4 DEF ThreadInv
    <3>7. QED
      BY <1>7, <3>2, <3>5, <3>6 DEF ThreadInv
  <2>6. QED
    BY <2>4, <2>5
<1>13. JoinedInv'
  <2>1. joined \in 0..count /\ \A u \in 0..(joined - 1) : at[u] = Share(size, budget, u) /\ u \notin broken
    BY <1>2 DEF JoinedInv
  <2>2. \A u \in 0..(joined - 1) : u \in 0..(count - 1) /\ u # t
    BY <1>2, <1>3, <2>1
  <2>3. \A u \in 0..(joined - 1) : at'[u] = Share(size, budget, u) /\ u \notin broken'
    BY <1>2, <1>7, <1>8, <2>1, <2>2
  <2>4. ASSUME NEW u \in 0..(joined - 1)
        PROVE  Matched(answers', Own(size, budget, u)) = Matched(answers, Own(size, budget, u))
    <3>1. \A f \in Own(size, budget, u) : f \in 0..(MaxSize - 1) /\ f # e
      BY <1>2, <1>6, <2>2
    <3>2. QED
      BY <1>10, <3>1 DEF Matched
  <2>5. ordered' = UNION {Matched(answers', Own(size, budget, u)) : u \in 0..(joined - 1)}
    <3>1. ordered = UNION {Matched(answers, Own(size, budget, u)) : u \in 0..(joined - 1)}
      BY <1>2 DEF JoinedInv
    <3>2. QED
      BY <1>7, <2>4, <3>1
  <2>6. QED
    BY <1>7, <2>1, <2>3, <2>5 DEF JoinedInv
<1>14. \A u \in 0..(count - 1) : ThreadInv(u)'
  BY <1>11, <1>12
<1>15. QED
  BY <1>1, <1>2, <1>7, <1>9, <1>13, <1>14 DEF BatchInv

\* The batch joins a thread that has asked its whole chunk; nothing it files
\* was filed before.
LEMMA JoinKeepsBatch ==
  ASSUME BatchInv, Join
  PROVE  BatchInv'
<1> DEFINE count == Count(size, budget)
<1>1. size > 0
  <2>1. size = 0 => Chunks = 0
    BY DEF Chunks
  <2>2. joined < Chunks /\ joined \in Nat /\ size \in Nat
    BY EndpointProbesAssumption DEF Join, BatchInv, BatchTypes
  <2>3. QED
    BY <2>1, <2>2
<1>2. /\ size \in 1..MaxSize /\ budget \in 1..size /\ budget \in 1..Cpus
      /\ MaxSize \in Nat /\ Cpus \in Nat \ {0} /\ count \in 1..budget
      /\ 0..(count - 1) \subseteq Threads
      /\ \A u \in 0..(count - 1) : ThreadInv(u)
      /\ JoinedInv /\ BatchTypes
      /\ Chunks = count /\ \A u : ChunkLength(u) = Share(size, budget, u)
  BY <1>1, DuringBatch
<1>3. joined \in 0..(count - 1) /\ joined \notin broken /\ at[joined] = Share(size, budget, joined)
  BY <1>2 DEF Join, JoinedInv, ThreadEnded
<1>4. seen[joined] = Matched(answers, Own(size, budget, joined))
  BY <1>2, <1>3 DEF ThreadInv, Own
<1>5. ordered = UNION {Matched(answers, Own(size, budget, u)) : u \in 0..(joined - 1)}
  BY <1>2 DEF JoinedInv
<1>6. ASSUME NEW o \in ordered, NEW p \in seen[joined] PROVE p[1] # o[1]
  <2>1. PICK u \in 0..(joined - 1) : o \in Matched(answers, Own(size, budget, u))
    BY <1>5
  <2>2. Own(size, budget, u) \intersect Own(size, budget, joined) = {}
    <3>1. size \in Nat \ {0} /\ budget \in 1..size
      BY <1>2
    <3>2. \A t, v \in 0..(count - 1) :
            t # v => Own(size, budget, t) \intersect Own(size, budget, v) = {}
      BY <3>1, Partition
    <3>3. u \in 0..(count - 1) /\ u # joined
      BY <1>2, <1>3
    <3>4. QED
      BY <1>3, <3>2, <3>3
  <2>3. o[1] \in Own(size, budget, u)
    BY <2>1 DEF Matched
  <2>4. p[1] \in Own(size, budget, joined)
    BY <1>4 DEF Matched
  <2>5. QED
    BY <2>2, <2>3, <2>4
<1>7. /\ ordered' = ordered \union seen[joined] /\ joined' = joined + 1
      /\ UNCHANGED <<size, budget, at, seen, broken, answers>>
  BY <1>6 DEF Join
<1>8. BatchTypes'
  <2>1. seen[joined] \subseteq (0..(MaxSize - 1)) \X (0..(MaxSize - 1))
    BY <1>2, <1>3 DEF BatchTypes
  <2>2. joined' \in 0..Cpus
    BY <1>2, <1>3, <1>7
  <2>3. QED
    BY <1>2, <1>7, <2>1, <2>2 DEF BatchTypes
<1>9. JoinedInv'
  <2>1. joined' \in 0..count /\ 0..(joined' - 1) = 0..(joined - 1) \union {joined}
    BY <1>2, <1>3, <1>7
  <2>2. \A u \in 0..(joined' - 1) : at[u] = Share(size, budget, u) /\ u \notin broken
    BY <1>2, <1>3, <2>1 DEF JoinedInv
  <2>3. ordered' = UNION {Matched(answers, Own(size, budget, u)) : u \in 0..(joined' - 1)}
    BY <1>4, <1>5, <1>7, <2>1
  <2>4. QED
    BY <1>7, <2>1, <2>2, <2>3 DEF JoinedInv
<1>10. \A u \in 0..(count - 1) : ThreadInv(u)'
  BY <1>2, <1>7 DEF ThreadInv
<1>11. QED
  BY <1>1, <1>2, <1>7, <1>8, <1>9, <1>10 DEF BatchInv

LEMMA BatchUnchanged ==
  ASSUME BatchInv, UNCHANGED probeVars PROVE BatchInv'
<1>1. UNCHANGED <<size, budget, at, seen, broken, joined, ordered, answers>>
  BY DEF probeVars
<1>2. BatchTypes' <=> BatchTypes
  BY <1>1 DEF BatchTypes
<1>3. NoBatch' <=> NoBatch
  BY <1>1 DEF NoBatch
<1>4. \A t \in 0..(Count(size, budget) - 1) : ThreadInv(t)' <=> ThreadInv(t)
  BY <1>1 DEF ThreadInv
<1>5. JoinedInv' <=> JoinedInv
  BY <1>1 DEF JoinedInv
<1>6. QED
  BY <1>1, <1>2, <1>3, <1>4, <1>5 DEF BatchInv

LEMMA BatchTyped ==
  ASSUME BatchInv PROVE ProbeTypeOK
<1>1. /\ Cpus \in Nat \ {0} /\ MaxSize \in Nat /\ BatchTypes
      /\ size \in Nat /\ budget \in Nat \ {0}
  BY EndpointProbesAssumption DEF BatchInv, BatchTypes
<1>2. Chunks <= budget
  <2>1. CASE size = 0
    BY <1>1, <2>1 DEF Chunks
  <2>2. CASE size > 0
    BY <1>1, <2>2, DuringBatch
  <2>3. QED
    BY <1>1, <2>1, <2>2
<1>3. QED
  BY <1>1, <1>2 DEF BatchTypes, ProbeTypeOK

\* A batch that was joined has asked every endpoint, and filed those that
\* matched.
LEMMA JoinedBatch ==
  ASSUME BatchInv, BatchJoined
  PROVE  /\ \A e \in 0..(size - 1) : answers[e] \in {"matched", "unwanted"}
         /\ ordered = Matched(answers, 0..(size - 1))
         /\ size \in Nat
<1> DEFINE count == Count(size, budget)
<1>1. size > 0 /\ joined = Chunks
  BY DEF BatchJoined
<1>2. /\ size \in 1..MaxSize /\ budget \in 1..size /\ MaxSize \in Nat /\ count \in 1..budget
      /\ \A u \in 0..(count - 1) : ThreadInv(u) /\ Own(size, budget, u) \subseteq 0..(size - 1)
      /\ JoinedInv /\ Chunks = count
  BY <1>1, DuringBatch
<1>3. joined = count
  BY <1>1, <1>2
<1>4. \A u \in 0..(count - 1) : at[u] = Share(size, budget, u)
  BY <1>2, <1>3 DEF JoinedInv
<1>5. \A e \in 0..(size - 1) : \E t \in 0..(count - 1) : e \in Own(size, budget, t)
  <2>1. size \in Nat \ {0} /\ budget \in 1..size
    BY <1>2
  <2>2. QED
    BY <2>1, Partition
<1>6. \A u \in 0..(count - 1) : \A e \in Own(size, budget, u) : answers[e] \in {"matched", "unwanted"}
  BY <1>2, <1>4 DEF ThreadInv, Own
<1>7. ordered = UNION {Matched(answers, Own(size, budget, u)) : u \in 0..(count - 1)}
  BY <1>2, <1>3 DEF JoinedInv
<1>8. ordered = Matched(answers, 0..(size - 1))
  <2>1. ordered \subseteq Matched(answers, 0..(size - 1))
    BY <1>2, <1>7 DEF Matched
  <2>2. Matched(answers, 0..(size - 1)) \subseteq ordered
    <3>1. ASSUME NEW e \in 0..(size - 1), answers[e] = "matched" PROVE <<e, e>> \in ordered
      <4>1. PICK u \in 0..(count - 1) : e \in Own(size, budget, u)
        BY <1>5
      <4>2. <<e, e>> \in Matched(answers, Own(size, budget, u))
        BY <3>1, <4>1 DEF Matched
      <4>3. QED
        BY <1>7, <4>2
    <3>2. QED
      BY <3>1 DEF Matched
  <2>3. QED
    BY <2>1, <2>2
<1>9. QED
  BY <1>2, <1>5, <1>6, <1>8

\* A set of natural numbers that is not empty has a least element.
LEMMA LeastNatural ==
  ASSUME NEW T \in SUBSET Nat, T # {}
  PROVE  \E m \in T : \A k \in T : m <= k
<1> DEFINE U == {0..k : k \in T}
           R == StrictSubsetOrdering(Nat)
<1>1. IsWellFoundedOn(R, FiniteSubsetsOf(Nat))
  BY FS_StrictSubsetOrderingWellFounded
<1>2. U \subseteq FiniteSubsetsOf(Nat) /\ U # {}
  <2>1. ASSUME NEW k \in T PROVE 0..k \in FiniteSubsetsOf(Nat)
    BY FS_Interval DEF FiniteSubsetsOf
  <2>2. QED
    BY <2>1
<1>3. PICK x \in U : \A y \in U : <<y, x>> \notin R
  <2> HIDE DEF U, R
  <2>1. QED
    BY <1>1, <1>2, WFMin
<1>4. PICK m \in T : x = 0..m
  OBVIOUS
<1>5. ASSUME NEW k \in T, k < m PROVE FALSE
  <2>1. 0..k \in SUBSET Nat /\ 0..m \in SUBSET Nat /\ 0..k \subseteq 0..m
    BY <1>5
  <2>2. m \in 0..m /\ m \notin 0..k
    BY <1>5
  <2>3. <<0..k, 0..m>> \in R
    BY <2>1, <2>2 DEF StrictSubsetOrdering
  <2>4. QED
    BY <1>3, <1>4, <2>3
<1>6. QED
  BY <1>5

LEMMA FirstIsChosen ==
  ASSUME BatchInv PROVE FirstMatchWins
<1>1. SUFFICES ASSUME BatchJoined PROVE FirstMatchWins
  BY DEF FirstMatchWins
<1> DEFINE matched == {e \in 0..(size - 1) : answers[e] = "matched"}
<1>2. /\ \A e \in 0..(size - 1) : answers[e] \in {"matched", "unwanted"}
      /\ ordered = {<<e, e>> : e \in matched} /\ matched \in SUBSET Nat
  BY <1>1, JoinedBatch DEF Matched
<1> HIDE DEF matched
<1>3. CASE matched = {}
  <2>1. Chosen = -1
    BY <1>2, <1>3 DEF Chosen
  <2>2. QED
    BY <1>2, <1>3, <2>1 DEF FirstMatchWins, matched
<1>4. CASE matched # {}
  <2>1. PICK m \in matched : \A k \in matched : m <= k
    BY <1>2, <1>4, LeastNatural
  <2>2. <<m, m>> \in ordered /\ \A p \in ordered : <<m, m>>[1] <= p[1]
    BY <1>2, <2>1
  <2> DEFINE o == CHOOSE o \in ordered : \A p \in ordered : o[1] <= p[1]
  <2>3. o \in ordered /\ \A p \in ordered : o[1] <= p[1]
    BY <2>2
  <2>4. Chosen = o[2]
    BY <2>2 DEF Chosen
  <2> HIDE DEF o
  <2>5. PICK e \in matched : o = <<e, e>>
    BY <1>2, <2>3
  <2>6. Chosen \in matched /\ \A k \in matched : Chosen <= k
    <3>1. o[1] = e /\ Chosen = e
      BY <2>4, <2>5
    <3>2. ASSUME NEW k \in matched PROVE e <= k
      <4>1. <<k, k>> \in ordered
        BY <1>2
      <4>2. o[1] <= <<k, k>>[1]
        BY <2>3, <4>1
      <4>3. QED
        BY <3>1, <4>2
    <3>3. QED
      BY <2>5, <3>1, <3>2
  <2>7. QED
    BY <1>2, <1>4, <2>6 DEF FirstMatchWins, matched
<1>5. QED
  BY <1>3, <1>4

-----------------------------------------------------------------------------
(* The planner                                                             *)

LEMMA WebRules ==
  ASSUME NEW f
  PROVE  /\ Matches(Rules[1], f) <=> /\ f.entity = "web_service"
                                     /\ AttrAgrees(f.attrs, "scheme", "https")
                                     /\ AttrAgrees(f.attrs, "alive", "true")
         /\ Matches(Rules[2], f) <=> /\ f.entity = "web_service"
                                     /\ AttrAgrees(f.attrs, "scheme", "https")
                                     /\ AttrAgrees(f.attrs, "alive", "true")
                                     /\ AttrAgrees(f.attrs, "psi_eligible", "true")
         /\ Rules[1].run = HttpsTests /\ Rules[2].run = {"psi_web_performance"}
<1> DEFINE a == [scheme |-> "https", alive |-> "true"]
           b == [scheme |-> "https", alive |-> "true", psi_eligible |-> "true"]
<1>1. /\ Rules[1] = [entity |-> "web_service", attr_equals |-> a, run |-> HttpsTests]
      /\ Rules[2] = [entity |-> "web_service", attr_equals |-> b,
                     run |-> {"psi_web_performance"}]
  BY DEF Rules
<1>2. /\ DOMAIN a = {"scheme", "alive"} /\ a["scheme"] = "https" /\ a["alive"] = "true"
      /\ DOMAIN b = {"scheme", "alive", "psi_eligible"} /\ b["scheme"] = "https"
      /\ b["alive"] = "true" /\ b["psi_eligible"] = "true"
  OBVIOUS
<1> HIDE DEF a, b
<1>3. QED
  BY <1>1, <1>2 DEF Matches

LEMMA OtherRules ==
  ASSUME NEW f
  PROVE  /\ Matches(Rules[3], f) <=> /\ f.entity = "service_profile"
                                     /\ AttrAgrees(f.attrs, "role", "mail")
         /\ Matches(Rules[4], f) <=> /\ f.entity = "dns_record"
                                     /\ AttrAgrees(f.attrs, "type", "CNAME")
         /\ Matches(Rules[5], f) <=> /\ f.entity = "site_profile"
                                     /\ AttrAgrees(f.attrs, "kind", "cms")
                                     /\ AttrAgrees(f.attrs, "provider", "wordpress")
         /\ Matches(Rules[6], f) <=> /\ f.entity = "site_profile"
                                     /\ AttrAgrees(f.attrs, "kind", "basic")
         /\ Matches(Rules[7], f) <=> f.entity = "ip_address"
         /\ Rules[3].run = MailTests /\ Rules[4].run = {"dns_cname_chain"}
         /\ Rules[5].run = {"wp_touchpoints", "web_seo_basics"}
         /\ Rules[6].run = {"web_basic_surface", "web_seo_basics"}
         /\ Rules[7].run = IpTests
<1> DEFINE a == [role |-> "mail"]
           b == [type |-> "CNAME"]
           c == [kind |-> "cms", provider |-> "wordpress"]
           d == [kind |-> "basic"]
<1>1. /\ Rules[3] = [entity |-> "service_profile", attr_equals |-> a, run |-> MailTests]
      /\ Rules[4] = [entity |-> "dns_record", attr_equals |-> b, run |-> {"dns_cname_chain"}]
      /\ Rules[5] = [entity |-> "site_profile", attr_equals |-> c,
                     run |-> {"wp_touchpoints", "web_seo_basics"}]
      /\ Rules[6] = [entity |-> "site_profile", attr_equals |-> d,
                     run |-> {"web_basic_surface", "web_seo_basics"}]
      /\ Rules[7] = [entity |-> "ip_address", attr_equals |-> <<>>, run |-> IpTests]
  BY DEF Rules
<1>2. /\ DOMAIN a = {"role"} /\ a["role"] = "mail"
      /\ DOMAIN b = {"type"} /\ b["type"] = "CNAME"
      /\ DOMAIN c = {"kind", "provider"} /\ c["kind"] = "cms" /\ c["provider"] = "wordpress"
      /\ DOMAIN d = {"kind"} /\ d["kind"] = "basic"
      /\ DOMAIN <<>> = {}
  OBVIOUS
<1> HIDE DEF a, b, c, d
<1>3. /\ Matches(Rules[3], f) <=> /\ f.entity = "service_profile"
                                  /\ AttrAgrees(f.attrs, "role", "mail")
      /\ Matches(Rules[4], f) <=> /\ f.entity = "dns_record"
                                  /\ AttrAgrees(f.attrs, "type", "CNAME")
  BY <1>1, <1>2 DEF Matches
<1>4. /\ Matches(Rules[5], f) <=> /\ f.entity = "site_profile"
                                  /\ AttrAgrees(f.attrs, "kind", "cms")
                                  /\ AttrAgrees(f.attrs, "provider", "wordpress")
      /\ Matches(Rules[6], f) <=> /\ f.entity = "site_profile"
                                  /\ AttrAgrees(f.attrs, "kind", "basic")
      /\ Matches(Rules[7], f) <=> f.entity = "ip_address"
  BY <1>1, <1>2 DEF Matches
<1>5. QED
  BY <1>1, <1>3, <1>4

\* The tests of a fact, rule by rule.
LEMMA Scheduled ==
  ASSUME NEW f, NEW x
  PROVE  x \in TestsOf(f) <=>
           \/ Matches(Rules[1], f) /\ x \in Rules[1].run
           \/ Matches(Rules[2], f) /\ x \in Rules[2].run
           \/ Matches(Rules[3], f) /\ x \in Rules[3].run
           \/ Matches(Rules[4], f) /\ x \in Rules[4].run
           \/ Matches(Rules[5], f) /\ x \in Rules[5].run
           \/ Matches(Rules[6], f) /\ x \in Rules[6].run
           \/ Matches(Rules[7], f) /\ x \in Rules[7].run
<1>1. DOMAIN Rules = 1..7
  BY DEF Rules
<1>2. x \in TestsOf(f) <=> \E i \in DOMAIN Rules : Matches(Rules[i], f) /\ x \in Rules[i].run
  BY DEF TestsOf
<1>3. QED
  BY <1>1, <1>2

\* What the facts of an inspection schedule.
LEMMA WebTests ==
  ASSUME TypeOK, NEW x
  PROVE  x \in TestsOf(WebServiceFact) <=>
           /\ alive /\ (addresses => surface.scheme = "https")
           /\ x \in HttpsTests \/ (addresses /\ surface.body = "page" /\ x = "psi_web_performance")
<1> DEFINE f == WebServiceFact
<1>1. f.entity = "web_service" /\ {alive, addresses} \subseteq BOOLEAN /\ surface \in Surfaces
  BY DEF WebServiceFact, Fact, TypeOK
<1>2. f.attrs = IF addresses
       THEN [scheme |-> Text(surface.scheme), alive |-> Flag(alive),
             psi_eligible |-> Flag(alive /\ LooksLikeWebsite(surface))]
       ELSE [scheme |-> Text("https"), alive |-> Flag(alive)]
  BY DEF WebServiceFact, Fact
<1> HIDE DEF f
<1>3. AttrAgrees(f.attrs, "scheme", "https") <=> (addresses => surface.scheme = "https")
  BY <1>1, <1>2 DEF AttrAgrees, Agrees, Text
<1>4. AttrAgrees(f.attrs, "alive", "true") <=> alive
  BY <1>1, <1>2 DEF AttrAgrees, Agrees, Flag
<1>5. AttrAgrees(f.attrs, "psi_eligible", "true") <=> addresses /\ alive /\ surface.body = "page"
  BY <1>1, <1>2 DEF AttrAgrees, Agrees, Flag, LooksLikeWebsite
<1>6. x \in TestsOf(f) <=>
        \/ Matches(Rules[1], f) /\ x \in Rules[1].run
        \/ Matches(Rules[2], f) /\ x \in Rules[2].run
  BY <1>1, Scheduled, OtherRules
<1>7. QED
  BY <1>1, <1>3, <1>4, <1>5, <1>6, WebRules DEF f

LEMMA LookupTests ==
  ASSUME NEW x
  PROVE  /\ x \in TestsOf(MailFact) <=> x \in MailTests
         /\ x \in TestsOf(CnameFact) <=> x = "dns_cname_chain"
         /\ x \in TestsOf(AddressFact) <=> x \in IpTests
<1>1. MailFact.entity = "service_profile" /\ AttrAgrees(MailFact.attrs, "role", "mail")
  BY DEF MailFact, Fact, AttrAgrees, Agrees, Text
<1>2. CnameFact.entity = "dns_record" /\ AttrAgrees(CnameFact.attrs, "type", "CNAME")
  BY DEF CnameFact, Fact, AttrAgrees, Agrees, Text
<1>3. AddressFact.entity = "ip_address"
  BY DEF AddressFact, Fact
<1>4. x \in TestsOf(MailFact) <=> x \in MailTests
  BY <1>1, Scheduled, WebRules, OtherRules
<1>5. x \in TestsOf(CnameFact) <=> x = "dns_cname_chain"
  BY <1>2, Scheduled, WebRules, OtherRules
<1>6. x \in TestsOf(AddressFact) <=> x \in IpTests
  BY <1>3, Scheduled, WebRules, OtherRules
<1>7. QED
  BY <1>4, <1>5, <1>6

LEMMA SiteTests ==
  ASSUME TypeOK, NEW x
  PROVE  x \in TestsOf(SiteProfileFact) <=>
           \/ /\ profile.kind = "cms" /\ profile.provider = "wordpress"
              /\ x \in {"wp_touchpoints", "web_seo_basics"}
           \/ profile.kind = "basic" /\ x \in {"web_basic_surface", "web_seo_basics"}
<1> DEFINE f == SiteProfileFact
<1>1. f.entity = "site_profile"
  BY DEF SiteProfileFact, Fact
<1>2. f.attrs = IF profile.provider = "none"
       THEN [kind |-> Text(profile.kind)]
       ELSE [kind |-> Text(profile.kind), provider |-> Text(profile.provider)]
  BY DEF SiteProfileFact, Fact
<1> HIDE DEF f
<1>3. /\ AttrAgrees(f.attrs, "kind", "cms") <=> profile.kind = "cms"
      /\ AttrAgrees(f.attrs, "kind", "basic") <=> profile.kind = "basic"
      /\ AttrAgrees(f.attrs, "provider", "wordpress") <=> profile.provider = "wordpress"
  BY <1>2 DEF AttrAgrees, Agrees, Text
<1>4. x \in TestsOf(f) <=>
        \/ Matches(Rules[5], f) /\ x \in Rules[5].run
        \/ Matches(Rules[6], f) /\ x \in Rules[6].run
  BY <1>1, Scheduled, WebRules, OtherRules
<1>5. QED
  BY <1>1, <1>3, <1>4, OtherRules DEF f

-----------------------------------------------------------------------------
(* The inductive invariant                                                 *)

TypesInv ==
  /\ pc \in Control
  /\ probes \in RequestedProbes
  /\ mail \in BOOLEAN /\ alive \in BOOLEAN /\ reached \in BOOLEAN
  /\ cname \in BOOLEAN /\ addresses \in BOOLEAN
  /\ dead \in {"none", "unreachable", "blank", "upstream", "shell"}
  /\ surface \in Surfaces
  /\ profile \in {NoProfile, Profile("api", "other")} \union SiteProfiles
  /\ \A fact \in facts : fact.target = Host

\* The profile tells what the host serves.
Told == profile.kind \in {"api", "cms", "dav"} \/ profile.provider # "none"

\* The verdict when the facts are written.
SoundVerdict ==
  /\ dead = "unreachable" <=> ~reached
  /\ dead \in {"blank", "upstream", "shell"} <=>
       /\ reached /\ addresses /\ ~Told
       /\ surface.body \in {"blank", "shell"} \/ surface.upstream
  /\ alive <=> dead = "none"

\* What is known of the host at each point. A host is inspected further only
\* when it was reached and has addresses, and is not found dead before all
\* that may tell what it serves was asked.
VerdictInv ==
  /\ pc \in {"mail", "liveness", "cname", "addresses"} => profile = NoProfile /\ ~addresses
  /\ pc \in {"cname", "addresses"} =>
       (alive <=> reached) /\ dead = IF reached THEN "none" ELSE "unreachable"
  /\ pc \in {"surface", "dav", "verdict", "api"} =>
       addresses /\ alive /\ reached /\ dead = "none"
  /\ pc = "surface" => profile = NoProfile
  /\ pc = "dav" => ~IsStrong(profile)
  /\ pc \in {"dav", "verdict", "api"} => profile # NoProfile
  /\ pc = "api" => surface.body = "blank" /\ ~IsStrong(profile)
  /\ pc \in {"facts", "done"} => SoundVerdict
  /\ pc = "done" =>
       facts = {WebServiceFact}
               \union (IF mail THEN {MailFact} ELSE {})
               \union (IF cname THEN {CnameFact} ELSE {})
               \union (IF addresses THEN {AddressFact} ELSE {})
               \union (IF profile = NoProfile THEN {} ELSE {SiteProfileFact})

IInv == TypesInv /\ VerdictInv /\ BatchInv

LEMMA BatchKept ==
  ASSUME IInv, [Next]_vars PROVE BatchInv'
<1>0. BatchInv /\ {DavEndpoints, ApiEndpoints} \subseteq 1..MaxSize
  BY HostInspectionAssumption DEF IInv
<1>1. CASE StartProbes
  BY <1>0, <1>1, BatchStarts DEF StartProbes
<1>2. CASE ProbeEndpoint
  BY <1>0, <1>2, ProbeKeepsBatch DEF ProbeEndpoint
<1>3. CASE JoinThread
  BY <1>0, <1>3, JoinKeepsBatch DEF JoinThread
<1>4. CASE ProbesFail \/ DavProbed \/ ApiProbed
  BY <1>4, BatchEnds DEF ProbesFail, DavProbed, ApiProbed
<1>5. CASE \/ CollectDomainMailFacts \/ CheckHostLiveness \/ FindCname \/ FindAddresses
           \/ FetchSurface \/ Verdict \/ WriteFacts \/ Returned \/ UNCHANGED vars
  <2>1. UNCHANGED probeVars
    BY <1>5 DEF CollectDomainMailFacts, CheckHostLiveness, FindCname, FindAddresses,
       FetchSurface, Verdict, WriteFacts, Returned, vars
  <2>2. QED
    BY <1>0, <2>1, BatchUnchanged
<1>6. QED
  BY <1>1, <1>2, <1>3, <1>4, <1>5 DEF Next

\* Steps that only the batch takes part in.
LEMMA InspectionUnchanged ==
  ASSUME TypesInv, VerdictInv, UNCHANGED <<pc, probes, findings, facts>>
  PROVE  TypesInv' /\ VerdictInv'
<1>1. UNCHANGED <<pc, probes, mail, alive, dead, reached, cname, addresses, surface, profile, facts>>
  BY DEF findings
<1>2. TypesInv'
  BY <1>1 DEF TypesInv
<1>3. VerdictInv'
  BY <1>1 DEF VerdictInv, SoundVerdict, Told, IsStrong, WebServiceFact, SiteProfileFact
<1>4. QED
  BY <1>2, <1>3

LEMMA InspectionFails ==
  ASSUME TypesInv, Fail PROVE TypesInv' /\ VerdictInv'
<1>1. /\ UNCHANGED <<probes, mail, alive, dead, reached, cname, addresses, surface, profile, facts>>
      /\ pc' = "failed"
  BY DEF Fail, findings
<1>2. TypesInv'
  BY <1>1 DEF TypesInv, Control
<1>3. VerdictInv'
  BY <1>1 DEF VerdictInv
<1>4. QED
  BY <1>2, <1>3

\* A page that was classified tells what the host serves, or is a plain site.
LEMMA Strength ==
  ASSUME TypesInv, profile # NoProfile
  PROVE  IsStrong(profile) <=> Told
  BY DEF TypesInv, IsStrong, Told, SiteProfiles, Profile, NoProfile

LEMMA LookupsKept ==
  ASSUME TypesInv, VerdictInv,
         CollectDomainMailFacts \/ CheckHostLiveness \/ FindCname \/ FindAddresses
  PROVE  TypesInv' /\ VerdictInv'
<1>1. CASE Fail
  BY <1>1, InspectionFails
<1>2. CASE ~Fail /\ CollectDomainMailFacts
  <2>1. /\ pc = "mail" /\ pc' = "liveness" /\ mail' \in BOOLEAN
        /\ UNCHANGED <<probes, alive, dead, reached, cname, addresses, surface, profile, facts>>
    BY <1>2, Zenon DEF CollectDomainMailFacts
  <2>2. TypesInv'
    BY <2>1 DEF TypesInv, Control
  <2>3. VerdictInv'
    BY <2>1 DEF VerdictInv
  <2>4. QED
    BY <2>2, <2>3
<1>3. CASE CheckHostLiveness
  <2>1. reached' \in BOOLEAN
    <3>1. PICK https, http, ping \in ProbeResults : reached' = ("success" \in {https, http, ping})
      BY <1>3, Zenon DEF CheckHostLiveness
    <3> DEFINE results == {https, http, ping}
    <3>2. reached' = ("success" \in results)
      BY <3>1
    <3> HIDE DEF results
    <3>3. QED
      BY <3>2
  <2>2. /\ pc = "liveness" /\ pc' = "cname" /\ alive' = reached'
        /\ dead' = IF reached' THEN "none" ELSE "unreachable"
        /\ UNCHANGED <<probes, mail, cname, addresses, surface, profile, facts>>
    BY <1>3 DEF CheckHostLiveness
  <2>3. TypesInv'
    BY <2>1, <2>2 DEF TypesInv, Control
  <2>4. VerdictInv'
    BY <2>1, <2>2 DEF VerdictInv
  <2>5. QED
    BY <2>3, <2>4
<1>4. CASE ~Fail /\ FindCname
  <2>1. cname' \in BOOLEAN
    BY <1>4, Zenon DEF FindCname
  <2>2. /\ pc = "cname" /\ pc' = "addresses"
        /\ UNCHANGED <<probes, mail, alive, dead, reached, addresses, surface, profile, facts>>
    BY <1>4 DEF FindCname
  <2>3. TypesInv'
    BY <2>1, <2>2 DEF TypesInv, Control
  <2>4. VerdictInv'
    BY <2>2 DEF VerdictInv
  <2>5. QED
    BY <2>3, <2>4
<1>5. CASE ~Fail /\ FindAddresses
  <2>1. addresses' \in BOOLEAN
    BY <1>5, Zenon DEF FindAddresses
  <2>2. /\ pc = "addresses" /\ pc' = IF addresses' /\ alive THEN "surface" ELSE "facts"
        /\ UNCHANGED <<probes, mail, alive, dead, reached, cname, surface, profile, facts>>
    BY <1>5 DEF FindAddresses
  <2>3. TypesInv'
    BY <2>1, <2>2 DEF TypesInv, Control
  <2>4. /\ profile = NoProfile /\ (alive <=> reached)
        /\ dead = IF reached THEN "none" ELSE "unreachable"
    BY <2>2 DEF VerdictInv
  <2>5. CASE addresses' /\ alive
    <3>1. pc' = "surface" /\ addresses' /\ alive' /\ reached' /\ dead' = "none"
      BY <2>2, <2>4, <2>5, Zenon
    <3>2. profile' = NoProfile
      BY <2>2, <2>4
    <3>3. QED
      BY <2>3, <3>1, <3>2 DEF VerdictInv
  <2>6. CASE ~(addresses' /\ alive)
    <3>1. pc' = "facts" /\ ~(reached' /\ addresses') /\ (alive' <=> reached')
      BY <2>2, <2>4, <2>6, Zenon
    <3>2. dead' = IF reached' THEN "none" ELSE "unreachable"
      BY <2>2, <2>4, Zenon
    <3>3. SoundVerdict'
      <4>1. CASE reached'
        BY <3>1, <3>2, <4>1 DEF SoundVerdict
      <4>2. CASE ~reached'
        BY <3>1, <3>2, <4>2 DEF SoundVerdict
      <4>3. QED
        BY <4>1, <4>2
    <3>4. QED
      BY <2>3, <3>1, <3>3 DEF VerdictInv
  <2>7. QED
    BY <2>3, <2>5, <2>6
<1>6. QED
  BY <1>1, <1>2, <1>3, <1>4, <1>5

LEMMA SurfaceKept ==
  ASSUME TypesInv, VerdictInv, FetchSurface
  PROVE  TypesInv' /\ VerdictInv'
<1>1. CASE Fail
  BY <1>1, InspectionFails
<1>2. CASE ~Fail
  <2>1. /\ pc = "surface" /\ profile' \in SiteProfiles
        /\ pc' = IF ShouldProbeDav(profile') THEN "dav" ELSE "verdict"
        /\ UNCHANGED <<probes, mail, alive, dead, reached, cname, addresses, facts>>
    BY <1>2 DEF FetchSurface
  <2>2. surface' \in Surfaces
    <3>1. \A https, http \in ProbeResults : ReachableScheme(https, http) \in {"https", "http"}
      BY DEF ReachableScheme
    <3>2. QED
      BY <1>2, <3>1 DEF FetchSurface, Surfaces
  <2>3. TypesInv'
    BY <2>1, <2>2 DEF TypesInv, Control
  <2>4. profile' # NoProfile
    BY <2>1 DEF SiteProfiles, NoProfile, Profile
  <2>5. pc' \in {"dav", "verdict"} /\ (pc' = "dav" => ~IsStrong(profile'))
    BY <2>1 DEF ShouldProbeDav
  <2>6. VerdictInv'
    BY <2>1, <2>4, <2>5 DEF VerdictInv
  <2>7. QED
    BY <2>3, <2>6
<1>3. QED
  BY <1>1, <1>2

LEMMA VerdictKept ==
  ASSUME TypesInv, VerdictInv, DavProbed \/ Verdict \/ ApiProbed \/ WriteFacts
  PROVE  TypesInv' /\ VerdictInv'
<1> DEFINE reason == DetectSurfaceFailure(surface)
<1>0. /\ surface \in Surfaces
      /\ reason \in {"none", "blank", "upstream", "shell"}
      /\ reason # "none" <=> surface.body \in {"blank", "shell"} \/ surface.upstream
      /\ reason = "blank" <=> surface.body = "blank"
  BY DEF TypesInv, Surfaces, Bodies, DetectSurfaceFailure
<1> HIDE DEF reason
<1>1. CASE DavProbed
  <2>1. /\ pc = "dav" /\ pc' = "verdict" /\ profile' \in {profile, Profile("dav", "other")}
        /\ UNCHANGED <<probes, mail, alive, dead, reached, cname, addresses, surface, facts>>
    BY <1>1 DEF DavProbed, ProbedDavProfile
  <2>2. TypesInv'
    BY <2>1 DEF TypesInv, Control, SiteProfiles
  <2>3. profile' # NoProfile
    BY <2>1 DEF VerdictInv, NoProfile, Profile
  <2>4. VerdictInv'
    BY <2>1, <2>3 DEF VerdictInv
  <2>5. QED
    BY <2>2, <2>4
<1>2. CASE Verdict
  <2>1. /\ pc = "verdict" /\ addresses /\ alive /\ reached /\ dead = "none"
        /\ profile # NoProfile /\ (IsStrong(profile) <=> Told)
        /\ UNCHANGED <<probes, mail, reached, cname, addresses, surface, profile, facts>>
    BY <1>2, Strength DEF Verdict, VerdictInv
  <2>2. CASE reason # "none" /\ ShouldProbeApi(reason, profile)
    <3>1. pc' = "api" /\ UNCHANGED <<alive, dead>>
      BY <1>2, <2>2 DEF Verdict, reason
    <3>2. surface.body = "blank" /\ ~IsStrong(profile)
      BY <1>0, <2>2 DEF ShouldProbeApi
    <3>3. TypesInv'
      BY <2>1, <3>1 DEF TypesInv, Control
    <3>4. VerdictInv'
      BY <2>1, <3>1, <3>2 DEF VerdictInv
    <3>5. QED
      BY <3>3, <3>4
  <2>3. CASE ~(reason # "none" /\ ShouldProbeApi(reason, profile))
    <3>1. /\ pc' = "facts"
          /\ IF reason # "none" /\ ~IsStrong(profile)
             THEN dead' = reason /\ alive' = FALSE ELSE UNCHANGED <<alive, dead>>
      BY <1>2, <2>3 DEF Verdict, reason, MarkDead
    <3>2. TypesInv'
      BY <1>0, <2>1, <3>1 DEF TypesInv, Control
    <3>3. SoundVerdict'
      <4>1. Told' <=> Told
        BY <2>1 DEF Told
      <4>2. QED
        BY <1>0, <2>1, <3>1, <4>1 DEF SoundVerdict
    <3>4. VerdictInv'
      BY <3>1, <3>3 DEF VerdictInv
    <3>5. QED
      BY <3>2, <3>4
  <2>4. QED
    BY <2>2, <2>3
<1>3. CASE ApiProbed
  <2>1. /\ pc = "api" /\ addresses /\ alive /\ reached /\ dead = "none"
        /\ profile # NoProfile /\ ~Told /\ reason = "blank" /\ surface.body = "blank"
        /\ pc' = "facts"
        /\ UNCHANGED <<probes, mail, reached, cname, addresses, surface, facts>>
    BY <1>0, <1>3, Strength DEF ApiProbed, VerdictInv
  <2>2. CASE Chosen = -1
    <3>1. dead' = "blank" /\ alive' = FALSE /\ profile' = profile
      BY <1>3, <2>1, <2>2 DEF ApiProbed, MarkDead, reason
    <3>2. TypesInv'
      BY <2>1, <3>1 DEF TypesInv, Control
    <3>3. SoundVerdict'
      BY <2>1, <3>1 DEF SoundVerdict, Told
    <3>4. QED
      BY <2>1, <3>2, <3>3 DEF VerdictInv
  <2>3. CASE Chosen # -1
    <3>1. profile' = Profile("api", "other") /\ UNCHANGED <<alive, dead>>
      BY <1>3, <2>3 DEF ApiProbed
    <3>2. TypesInv'
      BY <2>1, <3>1 DEF TypesInv, Control
    <3>3. Told'
      BY <3>1 DEF Told, Profile
    <3>4. SoundVerdict'
      BY <2>1, <3>1, <3>3 DEF SoundVerdict
    <3>5. QED
      BY <2>1, <3>2, <3>4 DEF VerdictInv
  <2>4. QED
    BY <2>2, <2>3
<1>4. CASE WriteFacts
  <2>1. /\ pc = "facts" /\ pc' = "done"
        /\ UNCHANGED <<probes, mail, alive, dead, reached, cname, addresses, surface, profile>>
    BY <1>4 DEF WriteFacts, findings
  <2>2. facts' = {WebServiceFact}
              \union (IF mail THEN {MailFact} ELSE {})
              \union (IF cname THEN {CnameFact} ELSE {})
              \union (IF addresses THEN {AddressFact} ELSE {})
              \union (IF profile = NoProfile THEN {} ELSE {SiteProfileFact})
    BY <1>4 DEF WriteFacts
  <2>3. \A fact \in facts' : fact.target = Host
    BY <2>2 DEF WebServiceFact, MailFact, CnameFact, AddressFact, SiteProfileFact, Fact
  <2>4. TypesInv'
    BY <2>1, <2>3 DEF TypesInv, Control
  <2>5. SoundVerdict'
    BY <2>1 DEF VerdictInv, SoundVerdict, Told
  <2>6. WebServiceFact' = WebServiceFact /\ SiteProfileFact' = SiteProfileFact
    BY <2>1 DEF WebServiceFact, SiteProfileFact
  <2>7. VerdictInv'
    BY <2>1, <2>2, <2>5, <2>6 DEF VerdictInv
  <2>8. QED
    BY <2>4, <2>7
<1>5. QED
  BY <1>1, <1>2, <1>3, <1>4

-----------------------------------------------------------------------------
(* Theorems                                                                *)

LEMMA InvariantInit ==
  ASSUME Init PROVE IInv
<1>1. TypesInv
  BY Zenon DEF Init, TypesInv, Control, NotFetched, Surfaces, Bodies
<1>2. VerdictInv
  BY DEF Init, VerdictInv
<1>3. QED
  BY <1>1, <1>2, NoBatchIsOne DEF Init, IInv

LEMMA InvariantStep ==
  ASSUME IInv, [Next]_vars PROVE IInv'
<1>0. TypesInv /\ VerdictInv
  BY DEF IInv
<1>1. CASE CollectDomainMailFacts \/ CheckHostLiveness \/ FindCname \/ FindAddresses
  BY <1>0, <1>1, LookupsKept, BatchKept DEF IInv
<1>2. CASE FetchSurface
  BY <1>0, <1>2, SurfaceKept, BatchKept DEF IInv
<1>3. CASE StartProbes \/ ProbeEndpoint \/ JoinThread \/ Returned \/ UNCHANGED vars
  <2>1. UNCHANGED <<pc, probes, findings, facts>>
    BY <1>3 DEF StartProbes, ProbeEndpoint, JoinThread, Returned, vars
  <2>2. QED
    BY <1>0, <2>1, InspectionUnchanged, BatchKept DEF IInv
<1>4. CASE ProbesFail
  BY <1>0, <1>4, InspectionFails, BatchKept DEF IInv, ProbesFail
<1>5. CASE DavProbed \/ Verdict \/ ApiProbed \/ WriteFacts
  BY <1>0, <1>5, VerdictKept, BatchKept DEF IInv
<1>6. QED
  BY <1>1, <1>2, <1>3, <1>4, <1>5 DEF Next

LEMMA Typed ==
  ASSUME IInv PROVE TypeOK
<1>1. profile \in [kind : Kinds, provider : Providers]
  BY DEF IInv, TypesInv, NoProfile, Profile, SiteProfiles, Kinds, Providers
<1>2. ProbeTypeOK
  BY BatchTyped DEF IInv
<1>3. QED
  BY <1>1, <1>2 DEF IInv, TypesInv, TypeOK

\* The tests that a run that asked for all of them executes.
Executed ==
  LET requested == UNION {Rules[i].run : i \in DOMAIN Rules}
      deadHosts == IF dead = "none" THEN {} ELSE {Host}
  IN {p[1] : p \in RuntimeTests(facts, requested) \ SkippedTests(facts, requested, deadHosts)}

\* A test is executed when the host is not dead and a fact schedules it.
LEMMA ExecutedTests ==
  ASSUME \A fact \in facts : fact.target = Host, NEW x
  PROVE  x \in Executed <=> dead = "none" /\ \E fact \in facts : x \in TestsOf(fact)
<1> DEFINE requested == UNION {Rules[i].run : i \in DOMAIN Rules}
           deadHosts == IF dead = "none" THEN {} ELSE {Host}
<1>1. ASSUME NEW fact \in facts, NEW y \in TestsOf(fact)
      PROVE  y \in requested /\ y \notin {"web_well_known", "web_api_fuzz"}
  <2>1. y \in requested
    BY <1>1 DEF TestsOf
  <2>2. y \in HttpsTests \union {"psi_web_performance"} \union MailTests
                \union {"dns_cname_chain", "wp_touchpoints", "web_seo_basics",
                        "web_basic_surface"} \union IpTests
    BY <1>1, Scheduled, WebRules, OtherRules
  <2>3. QED
    BY <2>1, <2>2 DEF HttpsTests, MailTests, IpTests
<1>2. \A p : p \in RuntimeTests(facts, requested) <=>
               \E fact \in facts : \E y \in TestsOf(fact) : p = <<y, Host>>
  <2> HIDE DEF requested
  <2>1. \A p : p \in PlanOf(facts) <=>
                 \E fact \in facts : \E y \in TestsOf(fact) : p = <<y, Host>>
    BY DEF PlanOf
  <2>2. QED
    BY <1>1, <2>1 DEF RuntimeTests
<1>3. SkippedTests(facts, requested, deadHosts)
        = IF dead = "none" THEN {} ELSE RuntimeTests(facts, requested)
  <2> HIDE DEF requested
  <2>1. CASE dead = "none"
    BY <2>1 DEF SkippedTests
  <2>2. CASE dead # "none"
    <3>1. \A p \in RuntimeTests(facts, requested) : p[2] \in deadHosts /\ ~RunsOnDeadHost(p[1])
      BY <1>1, <1>2, <2>2 DEF RunsOnDeadHost
    <3>2. QED
      BY <2>2, <3>1 DEF SkippedTests
  <2>3. QED
    BY <2>1, <2>2
<1>4. Executed = {p[1] : p \in RuntimeTests(facts, requested)
                                 \ SkippedTests(facts, requested, deadHosts)}
  BY DEF Executed
<1> HIDE DEF requested, deadHosts
<1>5. CASE dead = "none"
  <2>1. Executed = {p[1] : p \in RuntimeTests(facts, requested)}
    BY <1>3, <1>4, <1>5
  <2>2. ASSUME NEW fact \in facts, x \in TestsOf(fact) PROVE x \in Executed
    <3>1. <<x, Host>> \in RuntimeTests(facts, requested)
      BY <1>2, <2>2
    <3>2. <<x, Host>>[1] \in Executed
      BY <2>1, <3>1
    <3>3. QED
      BY <3>2
  <2>3. ASSUME x \in Executed PROVE \E fact \in facts : x \in TestsOf(fact)
    <3>1. PICK p \in RuntimeTests(facts, requested) : x = p[1]
      BY <2>1, <2>3
    <3>2. PICK fact \in facts : \E y \in TestsOf(fact) : p = <<y, Host>>
      BY <1>2, <3>1
    <3>3. QED
      BY <3>1, <3>2
  <2>4. QED
    BY <1>5, <2>2, <2>3
<1>6. CASE dead # "none"
  BY <1>3, <1>4, <1>6
<1>7. QED
  BY <1>5, <1>6

\* The tests executed for an inspected host, by what was found of it.
LEMMA TestsByFindings ==
  ASSUME IInv, pc = "done", NEW x
  PROVE  x \in Executed <=>
           /\ dead = "none"
           /\ \/ /\ addresses => surface.scheme = "https"
                 /\ \/ x \in HttpsTests
                    \/ addresses /\ surface.body = "page" /\ x = "psi_web_performance"
              \/ mail /\ x \in MailTests
              \/ cname /\ x = "dns_cname_chain"
              \/ addresses /\ x \in IpTests
              \/ /\ profile.kind = "cms" /\ profile.provider = "wordpress"
                 /\ x \in {"wp_touchpoints", "web_seo_basics"}
              \/ profile.kind = "basic" /\ x \in {"web_basic_surface", "web_seo_basics"}
<1>1. /\ TypeOK /\ \A fact \in facts : fact.target = Host
      /\ alive <=> dead = "none"
      /\ facts = {WebServiceFact}
               \union (IF mail THEN {MailFact} ELSE {})
               \union (IF cname THEN {CnameFact} ELSE {})
               \union (IF addresses THEN {AddressFact} ELSE {})
               \union (IF profile = NoProfile THEN {} ELSE {SiteProfileFact})
  BY Typed DEF IInv, TypesInv, VerdictInv, SoundVerdict
<1>2. (\E fact \in facts : x \in TestsOf(fact)) <=>
        \/ x \in TestsOf(WebServiceFact)
        \/ mail /\ x \in TestsOf(MailFact)
        \/ cname /\ x \in TestsOf(CnameFact)
        \/ addresses /\ x \in TestsOf(AddressFact)
        \/ profile # NoProfile /\ x \in TestsOf(SiteProfileFact)
  BY <1>1
<1>3. profile.kind \in {"cms", "basic"} => profile # NoProfile
  BY DEF NoProfile, Profile
<1>4. x \in Executed <=> dead = "none" /\ \E fact \in facts : x \in TestsOf(fact)
  BY <1>1, ExecutedTests
<1>5. QED
  BY <1>1, <1>2, <1>3, <1>4, WebTests, LookupTests, SiteTests

\* The invariant of an inspection holds in every reachable state.
THEOREM InvariantHolds == Spec => []IInv
<1>1. QED
  BY InvariantInit, InvariantStep, PTL DEF Spec

\* Every variable of the inspection keeps its type, and a batch has no more
\* threads than its budget (probe_worker_count, probe_endpoint_batch).
THEOREM TypeCorrect == Spec => []TypeOK
<1>1. IInv => TypeOK
  BY Typed
<1>2. QED
  BY <1>1, InvariantHolds, PTL

\* For every number of cpus and of endpoints, and whatever the speeds of the
\* threads, a batch chooses the first endpoint of the list that answered as
\* wanted (probe_endpoint_batch): the chunks partition the list, and what
\* the threads saw is filed by index.
THEOREM FirstWins == Spec => []FirstMatchWins
<1>1. IInv => FirstMatchWins
  BY FirstIsChosen DEF IInv
<1>2. QED
  BY <1>1, InvariantHolds, PTL

\* A host is listed as dead exactly when it was not reached, or its root page
\* is broken and nothing told what it serves (inspect_host).
THEOREM VerdictsSound == Spec => []VerdictsAreSound
<1>1. IInv => VerdictsAreSound
  BY DEF IInv, VerdictInv, SoundVerdict, Told, VerdictsAreSound
<1>2. QED
  BY <1>1, InvariantHolds, PTL

\* The tests executed for a host follow from what was found of it, and none
\* is when it is dead (RulesEngine::plan, execute_one_planned_test).
THEOREM PlansFollow == Spec => []PlansFollowVerdicts
<1>1. ASSUME IInv PROVE PlansFollowVerdicts
  <2>1. SUFFICES ASSUME pc = "done" PROVE PlansFollowVerdicts
    BY DEF PlansFollowVerdicts
  <2> DEFINE overHttps == dead = "none" /\ (addresses => surface.scheme = "https")
             Executes(tests, condition) ==
               IF condition THEN tests \subseteq Executed ELSE tests \intersect Executed = {}
  <2>2. profile.provider = "wordpress" => profile.kind = "cms"
    BY <1>1 DEF IInv, TypesInv, NoProfile, Profile, SiteProfiles
  <2>3. Executes(HttpsTests, overHttps)
    BY <1>1, <2>1, TestsByFindings DEF HttpsTests, MailTests, IpTests
  <2>4. Executes({"psi_web_performance"}, overHttps /\ addresses /\ surface.body = "page")
    BY <1>1, <2>1, TestsByFindings DEF HttpsTests, MailTests, IpTests
  <2>5. Executes(MailTests, dead = "none" /\ mail)
    BY <1>1, <2>1, TestsByFindings DEF HttpsTests, MailTests, IpTests
  <2>6. Executes({"dns_cname_chain"}, dead = "none" /\ cname)
    BY <1>1, <2>1, TestsByFindings DEF HttpsTests, MailTests, IpTests
  <2>7. Executes(IpTests, dead = "none" /\ addresses)
    BY <1>1, <2>1, TestsByFindings DEF HttpsTests, MailTests, IpTests
  <2>8. Executes({"web_basic_surface"}, dead = "none" /\ profile.kind = "basic")
    BY <1>1, <2>1, TestsByFindings DEF HttpsTests, MailTests, IpTests
  <2>9. Executes({"wp_touchpoints"}, dead = "none" /\ profile.provider = "wordpress")
    BY <1>1, <2>1, <2>2, TestsByFindings DEF HttpsTests, MailTests, IpTests
  <2>10. QED
    BY <2>3, <2>4, <2>5, <2>6, <2>7, <2>8, <2>9 DEF PlansFollowVerdicts, Executed
<1>2. QED
  BY <1>1, InvariantHolds, PTL
=============================================================================
