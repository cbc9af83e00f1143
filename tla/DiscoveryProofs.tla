--------------------------- MODULE DiscoveryProofs --------------------------
(***************************************************************************)
(* Proofs about Discovery for every set of hosts and of links between      *)
(* them, cycles included, every number of passes and every depth: a pass   *)
(* inspects exactly the hosts within reach, the best pass is kept, and     *)
(* fresh names are not asked for again.                                    *)
(***************************************************************************)
EXTENDS Discovery, FiniteSetTheorems, SequenceTheorems, WellFoundedInduction, TLAPS

-----------------------------------------------------------------------------
(* Induction over 0..n, on the set of the numbers for which a fact holds:  *)
(* the sets 0..k are well-founded under inclusion, so that there would be  *)
(* a least number out of the set.                                          *)

LEMMA UpTo ==
  ASSUME NEW n \in Nat, NEW T \in SUBSET (0..n), 0 \in T,
         \A k \in 1..n : k - 1 \in T => k \in T
  PROVE  T = 0..n
<1> DEFINE U == {0..k : k \in (0..n) \ T}
           R == StrictSubsetOrdering(Nat)
<1>1. SUFFICES ASSUME T # 0..n PROVE FALSE
  OBVIOUS
<1>2. IsWellFoundedOn(R, FiniteSubsetsOf(Nat))
  BY FS_StrictSubsetOrderingWellFounded
<1>3. U \subseteq FiniteSubsetsOf(Nat) /\ U # {}
  <2>1. ASSUME NEW k \in 0..n PROVE 0..k \in FiniteSubsetsOf(Nat)
    BY FS_Interval DEF FiniteSubsetsOf
  <2>2. QED
    BY <1>1, <2>1
<1>4. PICK x \in U : \A y \in U : <<y, x>> \notin R
  <2> HIDE DEF U, R
  <2>1. QED
    BY <1>2, <1>3, WFMin
<1>5. PICK m \in (0..n) \ T : x = 0..m
  OBVIOUS
<1>6. m \in 1..n /\ m - 1 \in (0..n) \ T
  OBVIOUS
<1>7. <<0..(m - 1), 0..m>> \in R
  <2>1. 0..(m - 1) \in SUBSET Nat /\ 0..m \in SUBSET Nat /\ 0..(m - 1) \subseteq 0..m
    BY <1>6
  <2>2. m \in 0..m /\ m \notin 0..(m - 1)
    BY <1>6
  <2>3. QED
    BY <2>1, <2>2 DEF StrictSubsetOrdering
<1>8. QED
  BY <1>4, <1>5, <1>6, <1>7

-----------------------------------------------------------------------------
(* Hosts within links of a set of hosts                                    *)

\* The hosts in scope that are within a link of those of a set.
Spread(F, W) == W \union {h \in InScope : \E g \in W : <<g, h>> \in F}

\* Within, as a function of the seeds in scope and the links.
IsRow(S, F, n, row) ==
  row = [k \in 0..n |->
           IF k = 0 THEN S
           ELSE row[k - 1] \union {h \in InScope : \E g \in row[k - 1] : <<g, h>> \in F}]
Row(S, F) == CHOOSE row : IsRow(S, F, MaxDepth, row)

LEMMA WithinIsRow == Within = Row(seeds \intersect InScope, found)
<1>1. QED
  BY DEF Within, Row, IsRow

LEMMA WithinIsRowNext == Within' = Row((seeds \intersect InScope)', found')
<1>1. QED
  BY DEF Within, Row, IsRow

LEMMA RowExists ==
  ASSUME NEW S, NEW F, NEW n \in Nat
  PROVE  \E row : IsRow(S, F, n, row)
<1> DEFINE T == {k \in 0..n : \E row : IsRow(S, F, k, row)}
<1>1. 0 \in T
  <2>1. IsRow(S, F, 0, [k \in 0..0 |-> S])
    BY DEF IsRow
  <2>2. QED
    BY <2>1
<1>2. ASSUME NEW m \in 1..n, m - 1 \in T PROVE m \in T
  <2>1. PICK row : IsRow(S, F, m - 1, row)
    BY <1>2
  <2> DEFINE longer == [k \in 0..m |-> IF k = m THEN Spread(F, row[m - 1]) ELSE row[k]]
  <2>2. ASSUME NEW k \in 0..m
        PROVE  longer[k] = IF k = 0 THEN S ELSE Spread(F, longer[k - 1])
    <3>1. CASE k = m
      BY <3>1
    <3>2. CASE k # m
      <4>1. k \in 0..(m - 1)
        BY <3>2
      <4>2. row[k] = IF k = 0 THEN S ELSE Spread(F, row[k - 1])
        BY <2>1, <4>1 DEF IsRow, Spread
      <4>3. QED
        BY <3>2, <4>1, <4>2
    <3>3. QED
      BY <3>1, <3>2
  <2>3. IsRow(S, F, m, longer)
    BY <2>2 DEF IsRow, Spread
  <2>4. QED
    BY <2>3
<1>3. T = 0..n
  <2> HIDE DEF T
  <2>1. T \in SUBSET (0..n)
    BY DEF T
  <2>2. QED
    BY <1>1, <1>2, <2>1, UpTo
<1>4. QED
  BY <1>3

LEMMA RowSteps ==
  ASSUME NEW S, NEW F
  PROVE  /\ Row(S, F)[0] = S
         /\ \A k \in 1..MaxDepth : Row(S, F)[k] = Spread(F, Row(S, F)[k - 1])
<1>1. MaxDepth \in Nat
  BY DiscoveryAssumption
<1>2. IsRow(S, F, MaxDepth, Row(S, F))
  BY <1>1, RowExists DEF Row
<1> DEFINE row == Row(S, F)
<1>3. row = [k \in 0..MaxDepth |->
              IF k = 0 THEN S
              ELSE row[k - 1] \union {h \in InScope : \E g \in row[k - 1] : <<g, h>> \in F}]
  BY <1>2 DEF IsRow
<1> HIDE DEF row
<1>4. \A k \in 0..MaxDepth : row[k] = IF k = 0 THEN S ELSE Spread(F, row[k - 1])
  BY <1>3 DEF Spread
<1>5. row[0] = S /\ \A k \in 1..MaxDepth : row[k] = Spread(F, row[k - 1])
  BY <1>1, <1>4
<1>6. QED
  BY <1>5 DEF row

\* The more links, the more hosts.
LEMMA RowGrows ==
  ASSUME NEW S, NEW F, NEW j \in 0..MaxDepth, NEW k \in j..MaxDepth
  PROVE  Row(S, F)[j] \subseteq Row(S, F)[k]
<1>0. MaxDepth \in Nat
  BY DiscoveryAssumption
<1> DEFINE T == {i \in 0..MaxDepth : i >= j => Row(S, F)[j] \subseteq Row(S, F)[i]}
<1>1. 0 \in T
  BY <1>0
<1>2. ASSUME NEW i \in 1..MaxDepth, i - 1 \in T PROVE i \in T
  BY <1>0, <1>2, RowSteps DEF Spread
<1>3. T = 0..MaxDepth
  <2> HIDE DEF T
  <2>1. T \in SUBSET (0..MaxDepth)
    BY DEF T
  <2>2. QED
    BY <1>0, <1>1, <1>2, <2>1, UpTo
<1>4. QED
  BY <1>0, <1>3

LEMMA RowInScope ==
  ASSUME NEW S \in SUBSET InScope, NEW F, NEW k \in 0..MaxDepth
  PROVE  Row(S, F)[k] \subseteq InScope
<1>0. MaxDepth \in Nat
  BY DiscoveryAssumption
<1> DEFINE T == {i \in 0..MaxDepth : Row(S, F)[i] \subseteq InScope}
<1>1. 0 \in T
  BY <1>0, RowSteps
<1>2. ASSUME NEW i \in 1..MaxDepth, i - 1 \in T PROVE i \in T
  BY <1>0, <1>2, RowSteps DEF Spread
<1>3. T = 0..MaxDepth
  <2> HIDE DEF T
  <2>1. T \in SUBSET (0..MaxDepth)
    BY DEF T
  <2>2. QED
    BY <1>0, <1>1, <1>2, <2>1, UpTo
<1>4. QED
  BY <1>3

\* New links of hosts that are not within fewer than d links add no host within
\* d links.
LEMMA RowStays ==
  ASSUME NEW S, NEW F, NEW G, F \subseteq G, NEW d \in 0..MaxDepth,
         d > 0 => \A g \in Row(S, F)[d - 1], h \in InScope : <<g, h>> \in G => <<g, h>> \in F
  PROVE  \A k \in 0..d : Row(S, G)[k] = Row(S, F)[k]
<1>0. MaxDepth \in Nat /\ d \in Nat
  BY DiscoveryAssumption
<1> DEFINE T == {i \in 0..d : Row(S, G)[i] = Row(S, F)[i]}
<1>1. 0 \in T
  BY <1>0, RowSteps
<1>2. ASSUME NEW i \in 1..d, i - 1 \in T PROVE i \in T
  <2>1. /\ i \in 1..MaxDepth /\ i - 1 \in 0..MaxDepth /\ d - 1 \in (i - 1)..MaxDepth
        /\ i \in 0..d
    BY <1>0
  <2>2. Row(S, F)[i - 1] \subseteq Row(S, F)[d - 1]
    BY <2>1, RowGrows
  <2>3. Row(S, G)[i - 1] = Row(S, F)[i - 1]
    BY <1>2
  <2>4. Row(S, G)[i] = Spread(G, Row(S, F)[i - 1])
    BY <2>1, <2>3, RowSteps
  <2>5. Spread(G, Row(S, F)[i - 1]) = Spread(F, Row(S, F)[i - 1])
    <3>1. d > 0
      BY <1>0
    <3>2. \A g \in Row(S, F)[i - 1], h \in InScope : <<g, h>> \in G <=> <<g, h>> \in F
      BY <2>2, <3>1
    <3>3. QED
      BY <3>2 DEF Spread
  <2>6. Row(S, F)[i] = Spread(F, Row(S, F)[i - 1])
    BY <2>1, RowSteps
  <2>7. QED
    BY <2>1, <2>4, <2>5, <2>6
<1>3. T = 0..d
  <2> HIDE DEF T
  <2>1. T \in SUBSET (0..d)
    BY DEF T
  <2>2. QED
    BY <1>0, <1>1, <1>2, <2>1, UpTo
<1>4. QED
  BY <1>3

\* Hosts that no link leaves hold all that is within links of some of them.
LEMMA RowIsWithin ==
  ASSUME NEW S, NEW F, NEW W, S \subseteq W,
         \A g \in W, h \in InScope : <<g, h>> \in F => h \in W,
         NEW k \in 0..MaxDepth
  PROVE  Row(S, F)[k] \subseteq W
<1>0. MaxDepth \in Nat
  BY DiscoveryAssumption
<1> DEFINE T == {i \in 0..MaxDepth : Row(S, F)[i] \subseteq W}
<1>1. 0 \in T
  BY <1>0, RowSteps
<1>2. ASSUME NEW i \in 1..MaxDepth, i - 1 \in T PROVE i \in T
  <2>1. Row(S, F)[i - 1] \subseteq W /\ i \in 0..MaxDepth
    BY <1>0, <1>2
  <2>2. Row(S, F)[i] = Spread(F, Row(S, F)[i - 1])
    BY RowSteps
  <2>3. Row(S, F)[i] \subseteq W
    BY <2>1, <2>2 DEF Spread
  <2>4. QED
    BY <2>1, <2>3
<1>3. T = 0..MaxDepth
  <2> HIDE DEF T
  <2>1. T \in SUBSET (0..MaxDepth)
    BY DEF T
  <2>2. QED
    BY <1>0, <1>1, <1>2, <2>1, UpTo
<1>4. QED
  BY <1>3

-----------------------------------------------------------------------------
(* Queues                                                                  *)

Entry == Hosts \X (0..MaxDepth)
Entries(q) == {q[i] : i \in 1..Len(q)}
Waiting(q, d) == {h \in Hosts : <<h, d>> \in Entries(q)}

\* The depths of a queue grow, by one at most.
Ordered(q) ==
  \A i, j \in 1..Len(q) : i <= j => q[i][2] <= q[j][2] /\ q[j][2] <= q[i][2] + 1

LEMMA JoinedEntries ==
  ASSUME NEW q \in Seq(Entry), NEW r \in Seq(Entry)
  PROVE  q \o r \in Seq(Entry) /\ Entries(q \o r) = Entries(q) \union Entries(r)
<1>1. /\ q \o r \in Seq(Entry) /\ Len(q \o r) = Len(q) + Len(r)
      /\ \A i \in 1..Len(q) + Len(r) : (q \o r)[i] = IF i <= Len(q) THEN q[i] ELSE r[i - Len(q)]
  BY ConcatProperties
<1>2. Len(q) \in Nat /\ Len(r) \in Nat
  OBVIOUS
<1>3. \A i \in 1..Len(q) : q[i] \in Entries(q \o r)
  BY <1>1, <1>2 DEF Entries
<1>4. ASSUME NEW i \in 1..Len(r) PROVE r[i] \in Entries(q \o r)
  <2>1. i + Len(q) \in 1..Len(q \o r) /\ (q \o r)[i + Len(q)] = r[i]
    BY <1>1, <1>2
  <2>2. QED
    BY <2>1 DEF Entries
<1>5. \A i \in 1..Len(q \o r) : (q \o r)[i] \in Entries(q) \union Entries(r)
  BY <1>1, <1>2 DEF Entries
<1>6. QED
  BY <1>1, <1>3, <1>4, <1>5 DEF Entries

LEMMA TailEntries ==
  ASSUME NEW q \in Seq(Entry), q # <<>>
  PROVE  /\ Head(q) = q[1] /\ q[1] \in Entry /\ 1 \in 1..Len(q)
         /\ Tail(q) \in Seq(Entry) /\ Len(Tail(q)) = Len(q) - 1
         /\ \A i \in 1..Len(Tail(q)) : Tail(q)[i] = q[i + 1]
         /\ Entries(q) = Entries(Tail(q)) \union {q[1]}
<1>1. /\ Head(q) = q[1] /\ q[1] \in Entry /\ 1 \in 1..Len(q)
      /\ Tail(q) \in Seq(Entry) /\ Len(Tail(q)) = Len(q) - 1 /\ Len(q) \in Nat \ {0}
      /\ \A i \in 1..Len(Tail(q)) : Tail(q)[i] = q[i + 1]
  BY HeadTailProperties
<1>2. ASSUME NEW i \in 1..Len(q), i # 1 PROVE q[i] \in Entries(Tail(q))
  <2>1. i - 1 \in 1..Len(Tail(q)) /\ Tail(q)[i - 1] = q[i]
    BY <1>1, <1>2
  <2>2. QED
    BY <2>1 DEF Entries
<1>3. \A i \in 1..Len(Tail(q)) : Tail(q)[i] \in Entries(q)
  BY <1>1 DEF Entries
<1>4. QED
  BY <1>1, <1>2, <1>3 DEF Entries

\* Whatever order hosts are queued in, all of them are, and no others.
LEMMA QueuedEntries ==
  ASSUME NEW hosts \in SUBSET Hosts, NEW d \in 0..MaxDepth, NEW q \in Queued(hosts, d)
  PROVE  q \in Seq(Entry) /\ Entries(q) = hosts \X {d}
<1>1. PICK s \in SetToSeqs(hosts) : q = [i \in 1..Len(s) |-> <<s[i], d>>]
  BY DEF Queued
<1>2. IsFiniteSet(hosts) /\ Cardinality(hosts) \in Nat
  BY DiscoveryAssumption, FS_Subset, FS_CardinalityType
<1>3. /\ s \in [1..Cardinality(hosts) -> hosts]
      /\ \A i, j \in 1..Cardinality(hosts) : i # j => s[i] # s[j]
  BY DEF SetToSeqs
<1>4. Len(s) = Cardinality(hosts)
  BY <1>2, <1>3
<1>5. \A h \in hosts : \E i \in 1..Len(s) : s[i] = h
  <2>1. s \in Injection(1..Cardinality(hosts), hosts)
    BY <1>3 DEF Injection, IsInjective
  <2>2. Cardinality(1..Cardinality(hosts)) = Cardinality(hosts)
    BY <1>2, FS_Interval
  <2>3. s \in Surjection(1..Cardinality(hosts), hosts)
    BY <1>2, <2>1, <2>2, FS_Injection
  <2>4. QED
    BY <1>4, <2>3 DEF Surjection
<1>6. q \in Seq(Entry) /\ Len(q) = Len(s)
  BY <1>1, <1>2, <1>3, <1>4 DEF Entry
<1>7. Entries(q) = {<<s[i], d>> : i \in 1..Len(s)}
  BY <1>1, <1>6 DEF Entries
<1>8. \A i \in 1..Len(s) : s[i] \in hosts
  BY <1>3, <1>4
<1>9. QED
  BY <1>5, <1>6, <1>7, <1>8

-----------------------------------------------------------------------------
(* The search of a pass: q is its queue, V the hosts visited, S the seeds  *)
(* in scope, F the links found.                                            *)

\* The search has come to depth d: all hosts within fewer links are visited,
\* those within d links are visited or queued, and what visited hosts link to
\* is so, too, unless it is too far away.
At(d, q, V, S, F) ==
  /\ Ordered(q)
  /\ \A e \in Entries(q) : /\ e[2] \in d..(d + 1)
                           /\ e[1] \in InScope => e[1] \in Row(S, F)[e[2]]
  /\ V \subseteq Row(S, F)[d]
  /\ d > 0 => Row(S, F)[d - 1] \subseteq V
  /\ Row(S, F)[d] \subseteq V \union Waiting(q, d)
  /\ \A p \in F : /\ p[1] \in V
                  /\ d < MaxDepth /\ p[2] \in InScope =>
                       p[2] \in V \union Waiting(q, d) \union Waiting(q, d + 1)

Searching(q, V, S, F) ==
  IF q = <<>> THEN V = Row(S, F)[MaxDepth] ELSE At(q[1][2], q, V, S, F)

\* The next host to leave the queue is at the depth the search has come to, or
\* the search goes on one link further, or all hosts in reach are visited.
LEMMA Settle ==
  ASSUME NEW d \in 0..MaxDepth, NEW q \in Seq(Entry), NEW V, NEW S, NEW F \in SUBSET (Hosts \X Hosts),
         InScope \subseteq Hosts, At(d, q, V, S, F)
  PROVE  Searching(q, V, S, F)
<1>0. MaxDepth \in Nat /\ d \in 0..MaxDepth
  BY DiscoveryAssumption
<1>1. CASE q = <<>>
  <2>1. Entries(q) = {}
    BY <1>1 DEF Entries
  <2>2. \A e : Waiting(q, e) = {}
    BY <2>1 DEF Waiting
  <2>3. V = Row(S, F)[d]
    BY <2>2 DEF At
  <2>4. CASE d = MaxDepth
    BY <1>1, <2>3, <2>4 DEF Searching
  <2>5. CASE d < MaxDepth
    <3>1. S \subseteq V
      <4>1. Row(S, F)[0] = S /\ Row(S, F)[0] \subseteq Row(S, F)[d]
        BY <1>0, RowSteps, RowGrows
      <4>2. QED
        BY <2>3, <4>1
    <3>2. \A g \in V, h \in InScope : <<g, h>> \in F => h \in V
      BY <2>2, <2>5 DEF At
    <3>3. Row(S, F)[MaxDepth] \subseteq V
      BY <1>0, <3>1, <3>2, RowIsWithin
    <3>4. V \subseteq Row(S, F)[MaxDepth]
      BY <1>0, <2>3, RowGrows
    <3>5. V = Row(S, F)[MaxDepth]
      BY <3>3, <3>4
    <3>6. QED
      BY <1>1, <3>5 DEF Searching
  <2>6. QED
    BY <1>0, <2>4, <2>5
<1>2. CASE q # <<>> /\ q[1][2] = d
  BY <1>2 DEF Searching
<1>3. CASE q # <<>> /\ q[1][2] # d
  <2>1. q[1] \in Entries(q) /\ q[1] \in Entry /\ Len(q) \in Nat /\ 1 \in 1..Len(q)
    BY <1>3, TailEntries DEF Entries
  <2>2. q[1][2] = d + 1 /\ d < MaxDepth /\ d + 1 \in 1..MaxDepth
    BY <1>0, <1>3, <2>1 DEF At, Entry
  <2>3. \A e \in Entries(q) : e[2] = d + 1
    <3>1. ASSUME NEW i \in 1..Len(q) PROVE q[i][2] = d + 1
      <4>1. q[1][2] <= q[i][2] /\ q[i][2] \in d..(d + 1)
        BY <2>1 DEF At, Ordered, Entries
      <4>2. QED
        BY <1>0, <2>2, <4>1
    <3>2. QED
      BY <3>1 DEF Entries
  <2>4. Waiting(q, d) = {} /\ Row(S, F)[d] \subseteq V
    <3>1. ASSUME NEW h \in Hosts, <<h, d>> \in Entries(q) PROVE FALSE
      <4>1. <<h, d>>[2] = d + 1
        BY <2>3, <3>1
      <4>2. QED
        BY <1>0, <4>1
    <3>2. Waiting(q, d) = {}
      BY <3>1 DEF Waiting
    <3>3. QED
      BY <3>2 DEF At
  <2>5. Row(S, F)[d + 1] = Spread(F, Row(S, F)[d])
    BY <1>0, <2>2, RowSteps
  <2>6. Row(S, F)[d + 1] \subseteq V \union Waiting(q, d + 1)
    BY <2>2, <2>4, <2>5 DEF Spread, At
  <2>7. V \subseteq Row(S, F)[d + 1]
    BY <2>5 DEF Spread, At
  <2>8. At(d + 1, q, V, S, F)
    <3>1. \A e \in Entries(q) : /\ e[2] \in (d + 1)..(d + 1 + 1)
                                /\ e[1] \in InScope => e[1] \in Row(S, F)[e[2]]
      BY <1>0, <2>3 DEF At
    <3>2. d + 1 > 0 => Row(S, F)[d + 1 - 1] \subseteq V
      BY <1>0, <2>4
    <3>3. \A p \in F : /\ p[1] \in V
                       /\ d + 1 < MaxDepth /\ p[2] \in InScope =>
                            p[2] \in V \union Waiting(q, d + 1) \union Waiting(q, d + 1 + 1)
      BY <2>2, <2>4 DEF At
    <3>4. QED
      BY <2>6, <2>7, <3>1, <3>2, <3>3 DEF At
  <2>9. QED
    BY <1>3, <2>2, <2>8 DEF Searching
<1>4. QED
  BY <1>1, <1>2, <1>3

\* A pass starts from its seeds.
LEMMA StartSearch ==
  ASSUME NEW q \in Seq(Entry), NEW S \in SUBSET InScope, InScope \subseteq Hosts,
         \A e \in Entries(q) : e[2] = 0 /\ (e[1] \in InScope => e[1] \in S),
         S \subseteq Waiting(q, 0)
  PROVE  Searching(q, {}, S, {})
<1>0. MaxDepth \in Nat /\ 0 \in 0..MaxDepth
  BY DiscoveryAssumption
<1>1. Row(S, {})[0] = S
  BY RowSteps
<1>2. Ordered(q)
  <2>1. \A i \in 1..Len(q) : q[i][2] = 0
    BY DEF Entries
  <2>2. QED
    BY <2>1 DEF Ordered
<1>3. At(0, q, {}, S, {})
  <2>1. \A e \in Entries(q) : /\ e[2] \in 0..(0 + 1)
                              /\ e[1] \in InScope => e[1] \in Row(S, {})[e[2]]
    BY <1>1
  <2>2. QED
    BY <1>1, <1>2, <2>1 DEF At
<1>4. QED
  BY <1>0, <1>3, Settle

\* What the head of the queue leaves to the search.
LEMMA HeadOfSearch ==
  ASSUME NEW q \in Seq(Entry), q # <<>>, NEW V, NEW S, NEW F, Searching(q, V, S, F)
  PROVE  LET d == q[1][2] IN
         /\ d \in 0..MaxDepth /\ q[1] = <<q[1][1], d>> /\ q[1][1] \in Hosts
         /\ At(d, q, V, S, F)
         /\ Ordered(Tail(q)) /\ Tail(q) \in Seq(Entry)
         /\ Entries(q) = Entries(Tail(q)) \union {q[1]}
         /\ \A e \in 0..(MaxDepth + 1) :
              Waiting(q, e) \subseteq Waiting(Tail(q), e) \union (IF e = d THEN {q[1][1]} ELSE {})
<1>1. /\ q[1] \in Entry /\ Tail(q) \in Seq(Entry) /\ Len(Tail(q)) = Len(q) - 1 /\ Len(q) \in Nat
      /\ \A i \in 1..Len(Tail(q)) : Tail(q)[i] = q[i + 1]
      /\ Entries(q) = Entries(Tail(q)) \union {q[1]}
  BY TailEntries
<1>2. At(q[1][2], q, V, S, F)
  BY DEF Searching
<1>3. Ordered(Tail(q))
  <2>1. \A i \in 1..Len(Tail(q)) : i + 1 \in 1..Len(q)
    BY <1>1
  <2>2. QED
    BY <1>1, <1>2, <2>1 DEF At, Ordered
<1>4. q[1][2] \in 0..MaxDepth /\ q[1] = <<q[1][1], q[1][2]>> /\ q[1][1] \in Hosts
  BY <1>1 DEF Entry
<1>5. \A e \in 0..(MaxDepth + 1) :
        Waiting(q, e) \subseteq
          Waiting(Tail(q), e) \union (IF e = q[1][2] THEN {q[1][1]} ELSE {})
  BY <1>1, <1>4 DEF Waiting
<1>6. QED
  BY <1>1, <1>2, <1>3, <1>4, <1>5

\* A host out of scope, or one that was visited, is passed over.
LEMMA SkipKeepsSearch ==
  ASSUME NEW q \in Seq(Entry), q # <<>>, NEW V, NEW S \in SUBSET InScope,
         NEW F \in SUBSET (Hosts \X Hosts), InScope \subseteq Hosts,
         Searching(q, V, S, F), q[1][1] \notin InScope \/ q[1][1] \in V
  PROVE  Searching(Tail(q), V, S, F)
<1> DEFINE d == q[1][2]
           host == q[1][1]
           rest == Tail(q)
<1>1. /\ d \in 0..MaxDepth /\ At(d, q, V, S, F)
      /\ Ordered(rest) /\ rest \in Seq(Entry) /\ Entries(rest) \subseteq Entries(q)
      /\ \A e \in 0..(MaxDepth + 1) :
           Waiting(q, e) \subseteq Waiting(rest, e) \union (IF e = d THEN {host} ELSE {})
  BY HeadOfSearch
<1>2. MaxDepth \in Nat
  BY DiscoveryAssumption
<1>3. d \in 0..(MaxDepth + 1) /\ d + 1 \in 0..(MaxDepth + 1) /\ d + 1 # d
  BY <1>1, <1>2
<1>4. Waiting(q, d) \subseteq Waiting(rest, d) \union {host} /\ Waiting(q, d + 1) \subseteq Waiting(rest, d + 1)
  BY <1>1, <1>3
<1>5. host \in InScope => host \in V
  OBVIOUS
<1>6. Row(S, F)[d] \subseteq InScope
  BY <1>1, RowInScope
<1> HIDE DEF d, host, rest
<1>7. At(d, rest, V, S, F)
  <2>1. Row(S, F)[d] \subseteq V \union Waiting(rest, d)
    BY <1>1, <1>4, <1>5, <1>6 DEF At
  <2>2. \A p \in F : /\ p[1] \in V
                     /\ d < MaxDepth /\ p[2] \in InScope =>
                          p[2] \in V \union Waiting(rest, d) \union Waiting(rest, d + 1)
    BY <1>1, <1>4, <1>5 DEF At
  <2>3. QED
    BY <1>1, <2>1, <2>2 DEF At
<1>8. QED
  BY <1>1, <1>7, Settle DEF rest

\* The hosts an inspection yields are queued behind those already there, one
\* link further, unless that is too far.
LEMMA InspectKeepsSearch ==
  ASSUME NEW q \in Seq(Entry), q # <<>>, NEW V \in SUBSET Hosts, NEW S \in SUBSET InScope,
         NEW F \in SUBSET (Hosts \X Hosts), InScope \subseteq Hosts,
         Searching(q, V, S, F), q[1][1] \in InScope, q[1][1] \notin V,
         NEW new \in SUBSET Hosts, NEW n \in Seq(Entry),
         IF q[1][2] < MaxDepth
         THEN Entries(n) = ((new \intersect InScope) \ (V \union {q[1][1]})) \X {q[1][2] + 1}
         ELSE n = <<>>
  PROVE  Searching(Tail(q) \o n, V \union {q[1][1]}, S, F \union ({q[1][1]} \X new))
<1> DEFINE d == q[1][2]
           host == q[1][1]
           rest == Tail(q)
           next == rest \o n
           W == V \union {host}
           G == F \union ({host} \X new)
<1>1. /\ d \in 0..MaxDepth /\ q[1] = <<host, d>> /\ host \in Hosts /\ At(d, q, V, S, F)
      /\ Ordered(rest) /\ rest \in Seq(Entry)
      /\ Entries(q) = Entries(rest) \union {<<host, d>>}
      /\ \A e \in 0..(MaxDepth + 1) :
           Waiting(q, e) \subseteq Waiting(rest, e) \union (IF e = d THEN {host} ELSE {})
  BY HeadOfSearch
<1>2. MaxDepth \in Nat /\ d \in Int
  BY <1>1, DiscoveryAssumption
<1>3. d \in 0..(MaxDepth + 1) /\ d + 1 \in 0..(MaxDepth + 1) /\ d + 1 # d
  BY <1>1, <1>2
<1>4. /\ Waiting(q, d) \subseteq Waiting(rest, d) \union {host}
      /\ Waiting(q, d + 1) \subseteq Waiting(rest, d + 1)
  BY <1>1, <1>3
<1>5. next \in Seq(Entry) /\ Entries(next) = Entries(rest) \union Entries(n)
  BY <1>1, JoinedEntries
<1>6. /\ d < MaxDepth => Entries(n) = ((new \intersect InScope) \ W) \X {d + 1}
      /\ d >= MaxDepth => n = <<>>
  BY <1>2
<1> HIDE DEF d, host, rest, next, W, G
<1>7. \A e \in Entries(n) : d < MaxDepth /\ e[2] = d + 1 /\ e[1] \in new /\ e[1] \in InScope
  <2>1. CASE d < MaxDepth
    BY <1>6, <2>1
  <2>2. CASE d >= MaxDepth
    BY <1>6, <2>2 DEF Entries
  <2>3. QED
    BY <1>2, <2>1, <2>2
<1>8. \A k \in 0..d : Row(S, G)[k] = Row(S, F)[k]
  <2>1. d > 0 => host \notin Row(S, F)[d - 1]
    BY <1>1 DEF At, host
  <2>2. d > 0 => \A g \in Row(S, F)[d - 1], h \in InScope : <<g, h>> \in G => <<g, h>> \in F
    BY <2>1 DEF G
  <2>3. d \in 0..MaxDepth /\ F \subseteq G
    BY <1>1 DEF G
  <2>4. QED
    BY ONLY <2>2, <2>3, RowStays
<1>9. host \in Row(S, F)[d]
  <2>1. <<host, d>> \in Entries(q) /\ host \in InScope
    BY <1>1 DEF host
  <2>2. <<host, d>>[1] \in InScope => <<host, d>>[1] \in Row(S, F)[<<host, d>>[2]]
    BY <1>1, <2>1 DEF At
  <2>3. QED
    BY <2>1, <2>2
<1>10. \A k \in 0..MaxDepth : k = d + 1 =>
         Row(S, F)[k] \subseteq Row(S, G)[k] /\ (new \intersect InScope) \subseteq Row(S, G)[k]
  <2> SUFFICES ASSUME d + 1 \in 0..MaxDepth
               PROVE  /\ Row(S, F)[d + 1] \subseteq Row(S, G)[d + 1]
                      /\ (new \intersect InScope) \subseteq Row(S, G)[d + 1]
    OBVIOUS
  <2>1. d + 1 \in 1..MaxDepth /\ d + 1 - 1 = d /\ d \in 0..d
    BY <1>1, <1>2
  <2>2. Row(S, F)[d + 1] = Spread(F, Row(S, F)[d])
    BY <2>1, RowSteps
  <2>3. Row(S, G)[d + 1] = Spread(G, Row(S, F)[d])
    BY <1>8, <2>1, RowSteps
  <2>4. QED
    BY <1>9, <2>2, <2>3 DEF Spread, G
<1>11. Ordered(next)
  <2>1. /\ Len(rest) \in Nat /\ Len(n) \in Nat /\ Len(next) = Len(rest) + Len(n)
        /\ \A i \in 1..Len(next) : next[i] = IF i <= Len(rest) THEN rest[i] ELSE n[i - Len(rest)]
    BY <1>1, ConcatProperties DEF next
  <2>2. ASSUME NEW i \in 1..Len(next)
        PROVE  /\ i <= Len(rest) => next[i] = rest[i] /\ rest[i][2] \in d..(d + 1)
               /\ i > Len(rest) => next[i][2] = d + 1
    <3>1. CASE i <= Len(rest)
      <4>1. rest[i] \in Entries(rest)
        BY <2>1, <3>1 DEF Entries
      <4>2. QED
        BY <1>1, <2>1, <3>1, <4>1 DEF At
    <3>2. CASE i > Len(rest)
      <4>1. i - Len(rest) \in 1..Len(n) /\ next[i] = n[i - Len(rest)]
        BY <2>1, <3>2
      <4>2. next[i] \in Entries(n)
        BY <4>1 DEF Entries
      <4>3. QED
        BY <1>7, <2>1, <3>2, <4>2
    <3>3. QED
      BY <2>1, <3>1, <3>2
  <2>3. ASSUME NEW i \in 1..Len(next), NEW j \in 1..Len(next), i <= j
        PROVE  next[i][2] <= next[j][2] /\ next[j][2] <= next[i][2] + 1
    <3>1. CASE j <= Len(rest)
      <4>1. /\ i \in 1..Len(rest) /\ j \in 1..Len(rest)
            /\ next[i] = rest[i] /\ next[j] = rest[j]
        BY <2>1, <2>3, <3>1
      <4>2. QED
        BY <1>1, <2>3, <4>1 DEF Ordered
    <3>2. CASE j > Len(rest)
      <4>1. next[j][2] = d + 1
        BY <2>2, <3>2
      <4>2. next[i][2] \in d..(d + 1)
        <5>1. i \in Int /\ (i <= Len(rest) \/ i > Len(rest))
          BY <2>1
        <5>2. d + 1 \in d..(d + 1)
          BY <1>2
        <5>3. QED
          BY <2>2, <5>1, <5>2
      <4>3. QED
        BY <1>2, <4>1, <4>2
    <3>3. QED
      BY <2>1, <3>1, <3>2
  <2>4. QED
    BY <2>3 DEF Ordered
<1>12. \A e \in Entries(next) : /\ e[2] \in d..(d + 1)
                                /\ e[1] \in InScope => e[1] \in Row(S, G)[e[2]]
  <2>1. ASSUME NEW e \in Entries(rest)
        PROVE  e[2] \in d..(d + 1) /\ (e[1] \in InScope => e[1] \in Row(S, G)[e[2]])
    <3>1. e[2] \in d..(d + 1) /\ (e[1] \in InScope => e[1] \in Row(S, F)[e[2]])
      BY <1>1 DEF At
    <3>2. e[2] \in 0..MaxDepth
      BY <1>1, <2>1 DEF Entries, Entry
    <3>3. CASE e[2] = d
      <4>1. d \in 0..d
        BY <1>1, <1>2
      <4>2. QED
        BY <1>8, <3>1, <3>3, <4>1
    <3>4. CASE e[2] = d + 1
      BY <1>10, <3>1, <3>2, <3>4
    <3>5. QED
      BY <1>2, <3>1, <3>3, <3>4
  <2>2. ASSUME NEW e \in Entries(n)
        PROVE  e[2] \in d..(d + 1) /\ (e[1] \in InScope => e[1] \in Row(S, G)[e[2]])
    <3>1. e[2] = d + 1 /\ e[1] \in new \intersect InScope /\ d + 1 \in 0..MaxDepth
      BY <1>1, <1>2, <1>7
    <3>2. QED
      BY <1>2, <1>10, <3>1
  <2>3. QED
    BY <1>5, <2>1, <2>2
<1>13. \A e : Waiting(rest, e) \subseteq Waiting(next, e)
  BY <1>5 DEF Waiting
<1>14. d < MaxDepth => ((new \intersect InScope) \ W) \subseteq Waiting(next, d + 1)
  BY <1>5, <1>6 DEF Waiting
<1>15. \A p \in G : /\ p[1] \in W
                    /\ d < MaxDepth /\ p[2] \in InScope =>
                         p[2] \in W \union Waiting(next, d) \union Waiting(next, d + 1)
  <2>1. ASSUME NEW p \in F
        PROVE  /\ p[1] \in W
               /\ d < MaxDepth /\ p[2] \in InScope =>
                    p[2] \in W \union Waiting(next, d) \union Waiting(next, d + 1)
    BY <1>1, <1>4, <1>13 DEF At, W
  <2>2. ASSUME NEW p \in {host} \X new
        PROVE  /\ p[1] \in W
               /\ d < MaxDepth /\ p[2] \in InScope =>
                    p[2] \in W \union Waiting(next, d) \union Waiting(next, d + 1)
    BY <1>14 DEF W
  <2>3. QED
    BY <2>1, <2>2 DEF G
<1>16. At(d, next, W, S, G)
  <2>1. d \in 0..d /\ (d > 0 => d - 1 \in 0..d)
    BY <1>1, <1>2
  <2>2. W \subseteq Row(S, G)[d]
    BY <1>1, <1>8, <1>9, <2>1 DEF At, W
  <2>3. d > 0 => Row(S, G)[d - 1] \subseteq W
    BY <1>1, <1>8, <2>1 DEF At, W
  <2>4. Row(S, G)[d] \subseteq W \union Waiting(next, d)
    BY <1>1, <1>4, <1>8, <1>13, <2>1 DEF At, W
  <2>5. QED
    BY <1>11, <1>12, <1>15, <2>2, <2>3, <2>4 DEF At
<1>17. G \in SUBSET (Hosts \X Hosts)
  BY <1>1 DEF G
<1>18. Searching(next, W, S, G)
  BY <1>1, <1>5, <1>16, <1>17, Settle
<1>19. QED
  BY <1>18 DEF next, rest, W, G, host

-----------------------------------------------------------------------------
(* The invariant                                                           *)

HistoryOK ==
  /\ seeds \subseteq Hosts
  /\ found \subseteq Hosts \X Hosts
  /\ counts \in Seq(0..Cardinality(Hosts))

\* All hosts that seed a pass are in its queue, and those alone.
Seeded(q, hosts) ==
  /\ \A e \in Entries(q) : e[2] = 0 /\ (e[1] \in InScope => e[1] \in hosts)
  /\ hosts \intersect InScope \subseteq Waiting(q, 0)

SearchInv ==
  /\ pc \in {"load", "ask", "store", "fallBack"} =>
       visited = {} /\ found = {} /\ Seeded(queue, seeds)
  /\ pc = "inspect" => Searching(queue, visited, seeds \intersect InScope, found)
  /\ pc = "passEnds" => visited = Row(seeds \intersect InScope, found)[MaxDepth]

\* The best of the passes that have ended, and why no more passes follow.
BestInv ==
  /\ Len(counts) = IF pc \in {"sleep", "done"} THEN pass ELSE pass - 1
  /\ best \in 0..Len(counts)
  /\ best = 0 => counts = <<>>
  /\ best # 0 => /\ lastCount = counts[best]
                 /\ \A i \in 1..Len(counts) : counts[i] <= lastCount
  /\ pc = "sleep" => pass < MaxPasses
  /\ pc = "done" /\ pass < MaxPasses => counts[pass] = lastCount

\* The row of the cache is no older than what this run stored.
CacheInv ==
  /\ pc = "store" => names # {}
  /\ cache.at <= clock
  /\ stored >= 0 => cache.names # {} /\ stored <= cache.at
  /\ SourcesAreSpared

IInv == TypeOK /\ HistoryOK /\ SearchInv /\ BestInv /\ CacheInv

LEMMA Bounds ==
  /\ MaxPasses \in 1..5 /\ MaxDepth \in Nat /\ MaxClock \in Nat /\ Ttl \in Nat
  /\ Cardinality(Hosts) \in Nat
  /\ InScope \subseteq Hosts /\ SeedHosts \subseteq Hosts /\ MailHosts \subseteq Hosts
  /\ CtNames \subseteq Hosts /\ Links \in [Hosts -> SUBSET Hosts]
<1>1. Cardinality(Hosts) \in Nat
  BY DiscoveryAssumption, FS_CardinalityType
<1>2. QED
  BY <1>1, DiscoveryAssumption DEF MaxPasses

LEMMA SubdomainsBounded ==
  ASSUME visited \subseteq Hosts PROVE Subdomains \in 0..Cardinality(Hosts)
<1>1. visited \ {Apex} \in SUBSET Hosts
  OBVIOUS
<1>2. /\ IsFiniteSet(visited \ {Apex})
      /\ Cardinality(visited \ {Apex}) <= Cardinality(Hosts)
  BY <1>1, DiscoveryAssumption, FS_Subset
<1>3. Cardinality(visited \ {Apex}) \in Nat
  BY <1>2, FS_CardinalityType
<1>4. QED
  BY <1>2, <1>3, Bounds DEF Subdomains

\* Names of CT join a queue.
LEMMA NamesJoin ==
  ASSUME TypeOK, HistoryOK, NEW ct \in SUBSET CtNames, TakeNames(ct)
  PROVE  /\ queue' \in Seq(Entry) /\ seeds' = seeds \union ct /\ pc' = "inspect"
         /\ Entries(queue') = Entries(queue) \union ((ct \intersect InScope) \X {0})
<1>1. PICK q \in Queued(ct \intersect InScope, 0) : queue' = queue \o q
  BY DEF TakeNames
<1>2. ct \intersect InScope \in SUBSET Hosts /\ 0 \in 0..MaxDepth
  BY Bounds
<1>3. q \in Seq(Entry) /\ Entries(q) = (ct \intersect InScope) \X {0}
  BY <1>2, QueuedEntries
<1>4. queue \in Seq(Entry)
  BY DEF TypeOK, Entry
<1>5. QED
  BY <1>1, <1>3, <1>4, JoinedEntries DEF TakeNames

\* The hosts that a pass starts from.
LEMMA SeedsQueued ==
  ASSUME TypeOK, BeginPass
  PROVE  \E mail \in SUBSET MailHosts :
           /\ queue' \in Seq(Entry) /\ seeds' = mail \union SeedHosts
           /\ Entries(queue') = ((mail \intersect InScope) \union SeedHosts) \X {0}
<1>1. PICK mail \in SUBSET MailHosts :
        /\ \E m \in Queued(mail \intersect InScope, 0), s \in Queued(SeedHosts, 0) :
             queue' = m \o s
        /\ seeds' = mail \union SeedHosts
  BY DEF BeginPass
<1>2. PICK m \in Queued(mail \intersect InScope, 0), s \in Queued(SeedHosts, 0) :
        queue' = m \o s
  BY <1>1
<1>3. /\ mail \intersect InScope \in SUBSET Hosts /\ SeedHosts \in SUBSET Hosts
      /\ 0 \in 0..MaxDepth
  BY Bounds
<1>4. m \in Seq(Entry) /\ Entries(m) = (mail \intersect InScope) \X {0}
  BY <1>3, QueuedEntries
<1>5. s \in Seq(Entry) /\ Entries(s) = SeedHosts \X {0}
  BY <1>3, QueuedEntries
<1>6. queue' \in Seq(Entry) /\ Entries(queue') = Entries(m) \union Entries(s)
  BY <1>2, <1>4, <1>5, JoinedEntries
<1>7. Entries(queue') = ((mail \intersect InScope) \union SeedHosts) \X {0}
  BY <1>4, <1>5, <1>6
<1>8. QED
  BY <1>1, <1>6, <1>7

\* What an inspection does to the queue.
LEMMA HostInspected ==
  ASSUME TypeOK, HistoryOK, InspectHost
  PROVE  /\ queue # <<>> /\ queue[1] \in Entry
         /\ queue[1][1] \in InScope /\ queue[1][1] \notin visited
         /\ visited' = visited \union {queue[1][1]}
         /\ \E new \in SUBSET Hosts, n \in Seq(Entry) :
              /\ found' = found \union ({queue[1][1]} \X new)
              /\ queue' = Tail(queue) \o n
              /\ IF queue[1][2] < MaxDepth
                 THEN Entries(n) = ((new \intersect InScope) \ (visited \union {queue[1][1]}))
                                     \X {queue[1][2] + 1}
                 ELSE n = <<>>
<1> DEFINE host == queue[1][1]
           depth == queue[1][2]
<1>1. /\ queue # <<>> /\ queue \in Seq(Entry) /\ Head(queue) = queue[1] /\ queue[1] \in Entry
      /\ Tail(queue) \in Seq(Entry)
  <2>1. queue # <<>> /\ queue \in Seq(Entry)
    BY DEF InspectHost, TypeOK, Entry
  <2>2. QED
    BY <2>1, TailEntries
<1>2. PopFront.next = queue[1] /\ PopFront.rest = Tail(queue)
  BY <1>1 DEF PopFront
<1>3. host \in InScope /\ host \notin visited /\ visited' = visited \union {host}
  BY <1>2 DEF InspectHost, Skipped
<1>4. PICK new \in Yields(host) :
        /\ found' = found \union ({host} \X new)
        /\ IF Expands(depth)
           THEN \E q \in Queued((new \intersect InScope) \ visited', depth + 1) :
                  queue' = Tail(queue) \o q
           ELSE queue' = Tail(queue)
  BY <1>2 DEF InspectHost
<1>5. new \in SUBSET Hosts /\ host \in Hosts /\ depth \in 0..MaxDepth
  BY <1>1, <1>4, Bounds DEF Yields, Entry
<1>6. CASE Expands(depth)
  <2>1. PICK q \in Queued((new \intersect InScope) \ visited', depth + 1) :
          queue' = Tail(queue) \o q
    BY <1>4, <1>6
  <2>2. (new \intersect InScope) \ visited' \in SUBSET Hosts /\ depth + 1 \in 0..MaxDepth
    BY <1>5, <1>6, Bounds DEF Expands
  <2>3. q \in Seq(Entry) /\ Entries(q) = ((new \intersect InScope) \ visited') \X {depth + 1}
    BY <2>2, QueuedEntries
  <2>4. QED
    BY <1>1, <1>3, <1>4, <1>5, <1>6, <2>1, <2>3 DEF Expands
<1>7. CASE ~Expands(depth)
  <2>1. queue' = Tail(queue) \o <<>> /\ <<>> \in Seq(Entry)
    BY <1>1, <1>4, <1>7
  <2>2. QED
    BY <1>1, <1>3, <1>4, <1>5, <1>7, <2>1 DEF Expands
<1>8. QED
  BY <1>6, <1>7

-----------------------------------------------------------------------------
(* Every step keeps the invariant                                          *)

LEMMA QueueTypeKept ==
  ASSUME IInv, [Next]_vars
  PROVE  /\ queue' \in Seq(Entry) /\ visited' \subseteq Hosts
         /\ seeds' \subseteq Hosts /\ found' \subseteq Hosts \X Hosts
<1> USE DEF IInv
<1>0. /\ queue \in Seq(Entry) /\ visited \subseteq Hosts /\ names \subseteq CtNames
      /\ cache.names \subseteq CtNames
      /\ seeds \subseteq Hosts /\ found \subseteq Hosts \X Hosts
  BY DEF TypeOK, HistoryOK, Entry
<1>1. CASE BeginPass
  <2>1. queue' \in Seq(Entry) /\ seeds' \subseteq Hosts
    BY <1>1, SeedsQueued, Bounds
  <2>2. QED
    BY <1>1, <2>1 DEF BeginPass
<1>2. ASSUME NEW ct \in SUBSET CtNames, TakeNames(ct), UNCHANGED <<visited, found>>
      PROVE  /\ queue' \in Seq(Entry) /\ visited' \subseteq Hosts
             /\ seeds' \subseteq Hosts /\ found' \subseteq Hosts \X Hosts
  BY <1>0, <1>2, NamesJoin, Bounds
<1>3. CASE LoadCache
  BY <1>0, <1>2, <1>3 DEF LoadCache
<1>4. CASE AskSources
  BY <1>0, <1>2, <1>4 DEF AskSources
<1>5. CASE StoreNames
  BY <1>0, <1>2, <1>5 DEF StoreNames
<1>6. CASE FallBack
  BY <1>0, <1>2, <1>6 DEF FallBack
<1>7. CASE SkipHost
  <2>1. Tail(queue) \in Seq(Entry)
    BY <1>0, <1>7, TailEntries DEF SkipHost
  <2>2. QED
    BY <1>0, <1>7, <2>1 DEF SkipHost, PopFront
<1>8. CASE InspectHost
  <2>1. PICK new \in SUBSET Hosts, n \in Seq(Entry) :
          found' = found \union ({queue[1][1]} \X new) /\ queue' = Tail(queue) \o n
    BY <1>8, HostInspected
  <2>2. queue[1][1] \in Hosts /\ Tail(queue) \in Seq(Entry)
    BY <1>0, <1>8, TailEntries DEF InspectHost, Entry
  <2>3. queue' \in Seq(Entry)
    BY <2>1, <2>2, JoinedEntries
  <2>4. visited' \subseteq Hosts
    BY <1>0, <1>8, <2>2, HostInspected
  <2>5. seeds' \subseteq Hosts /\ found' \subseteq Hosts \X Hosts
    BY <1>0, <1>8, <2>1, <2>2 DEF InspectHost
  <2>6. QED
    BY <2>3, <2>4, <2>5
<1>9. CASE QueueEmpty
  BY <1>0, <1>9 DEF QueueEmpty, queueing
<1>10. CASE EndPass
  BY <1>0, <1>10 DEF EndPass, queueing
<1>11. CASE Wake
  BY <1>0, <1>11 DEF Wake, queueing
<1>12. CASE StepFails
  BY <1>0, <1>12 DEF StepFails, queueing
<1>13. CASE OtherRunStores
  BY <1>0, <1>13 DEF OtherRunStores, queueing
<1>14. CASE Tick
  BY <1>0, <1>14 DEF Tick, queueing
<1>15. CASE UNCHANGED vars
  BY <1>0, <1>15 DEF vars, queueing
<1>16. QED
  BY <1>1, <1>3, <1>4, <1>5, <1>6, <1>7, <1>8, <1>9, <1>10, <1>11, <1>12, <1>13,
     <1>14, <1>15 DEF Next, Step

\* The control point, the cache and the clock.
LEMMA ControlTypeKept ==
  ASSUME IInv, [Next]_vars
  PROVE  /\ pc' \in Control /\ names' \subseteq CtNames
         /\ cache' \in [names : SUBSET CtNames, at : 0..MaxClock]
         /\ clock' \in 0..MaxClock /\ stored' \in -1..clock'
<1>0. /\ pc \in Control /\ names \subseteq CtNames
      /\ cache \in [names : SUBSET CtNames, at : 0..MaxClock]
      /\ clock \in 0..MaxClock /\ stored \in -1..clock /\ MaxClock \in Nat
  BY Bounds DEF IInv, TypeOK
<1>1. pc' \in Control
  BY <1>0 DEF Next, Step, vars, BeginPass, LoadCache, AskSources, StoreNames, FallBack,
     SkipHost, InspectHost, QueueEmpty, EndPass, Wake, StepFails, OtherRunStores, Tick,
     TakeNames, Control
<1>2. names' \subseteq CtNames
  BY <1>0 DEF Next, Step, vars, BeginPass, LoadCache, AskSources, StoreNames, FallBack,
     SkipHost, InspectHost, QueueEmpty, EndPass, Wake, StepFails, OtherRunStores, Tick
<1>3. /\ cache' \in [names : SUBSET CtNames, at : 0..MaxClock]
      /\ clock' \in 0..MaxClock /\ stored' \in -1..clock'
  BY <1>0 DEF Next, Step, vars, BeginPass, LoadCache, AskSources, StoreNames, FallBack,
     SkipHost, InspectHost, QueueEmpty, EndPass, Wake, StepFails, OtherRunStores, Tick,
     Upsert
<1>4. QED
  BY <1>1, <1>2, <1>3

\* The passes: one ends, is counted, and is compared with the best.
LEMMA PassesKept ==
  ASSUME IInv, [Next]_vars
  PROVE  /\ pass' \in 1..MaxPasses /\ best' \in 0..pass'
         /\ lastCount' \in 0..Cardinality(Hosts)
         /\ counts' \in Seq(0..Cardinality(Hosts))
         /\ BestInv'
<1>0. /\ pass \in 1..MaxPasses /\ lastCount \in 0..Cardinality(Hosts)
      /\ counts \in Seq(0..Cardinality(Hosts)) /\ BestInv /\ MaxPasses \in 1..5
      /\ Cardinality(Hosts) \in Nat /\ best \in 0..pass
  BY Bounds DEF IInv, TypeOK, HistoryOK
<1>1. CASE EndPass
  <2> DEFINE n == Subdomains
  <2>1. n \in 0..Cardinality(Hosts)
    BY SubdomainsBounded DEF IInv, TypeOK
  <2>2. Len(counts) = pass - 1 /\ best \in 0..Len(counts)
    BY <1>0, <1>1 DEF BestInv, EndPass
  <2>3. /\ counts' = Append(counts, n) /\ pass' = pass
        /\ best' = IF best = 0 \/ n > lastCount THEN pass ELSE best
        /\ lastCount' = IF best = 0 \/ n > lastCount THEN n ELSE lastCount
        /\ pc' \in {"done", "sleep"}
        /\ pc' = "sleep" => pass # MaxPasses
        /\ pc' = "done" /\ pass # MaxPasses => ~(best = 0 \/ n > lastCount) /\ n = lastCount
    BY <1>1 DEF EndPass, KeepBest, Better, Converged
  <2> HIDE DEF n
  <2>4. /\ counts' \in Seq(0..Cardinality(Hosts)) /\ Len(counts') = pass /\ counts'[pass] = n
        /\ \A i \in 1..pass - 1 : counts'[i] = counts[i]
        /\ \A i \in 1..pass - 1 : counts[i] \in 0..Cardinality(Hosts)
    BY <1>0, <2>1, <2>2, <2>3
  <2>5. /\ best' \in 0..pass /\ best' # 0 /\ lastCount' = counts'[best']
        /\ \A i \in 1..pass : counts'[i] <= lastCount'
    <3>1. CASE best = 0
      <4>1. pass = 1
        BY <1>0, <2>2, <3>1 DEF BestInv
      <4>2. QED
        BY <1>0, <2>1, <2>3, <2>4, <3>1, <4>1
    <3>2. CASE best # 0
      <4>1. best \in 1..pass - 1 /\ lastCount = counts[best]
            /\ \A i \in 1..pass - 1 : counts[i] <= lastCount
        BY <1>0, <2>2, <3>2 DEF BestInv
      <4>2. QED
        BY <1>0, <2>1, <2>3, <2>4, <3>2, <4>1
    <3>3. QED
      BY <3>1, <3>2
  <2>6. BestInv'
    BY <1>0, <2>3, <2>4, <2>5 DEF BestInv
  <2>7. QED
    BY <1>0, <2>1, <2>3, <2>4, <2>5, <2>6
<1>2. CASE Wake
  BY <1>0, <1>2 DEF Wake, BestInv
<1>3. CASE ~EndPass /\ ~Wake
  <2>1. UNCHANGED outcome
    BY <1>3 DEF Next, Step, vars, BeginPass, LoadCache, AskSources, StoreNames, FallBack,
     SkipHost, InspectHost, QueueEmpty, StepFails, OtherRunStores, Tick
  <2>2. (pc' \in {"sleep", "done"} \/ pc \in {"sleep", "done"}) => pc' = pc
    BY <1>3 DEF Next, Step, vars, BeginPass, LoadCache, AskSources, StoreNames, FallBack,
     SkipHost, InspectHost, QueueEmpty, StepFails, OtherRunStores, Tick, TakeNames
  <2>3. QED
    BY <1>0, <2>1, <2>2 DEF outcome, BestInv
<1>4. QED
  BY <1>1, <1>2, <1>3

LEMMA CacheKept ==
  ASSUME IInv, [Next]_vars PROVE CacheInv'
<1>0. /\ cache \in [names : SUBSET CtNames, at : 0..MaxClock] /\ Ttl \in Nat
      /\ clock \in 0..MaxClock /\ stored \in -1..clock /\ MaxClock \in Nat /\ CacheInv
  BY Bounds DEF IInv, TypeOK
<1> USE DEF CacheInv, SourcesAreSpared
<1>1. CASE LoadCache
  <2>1. UNCHANGED <<names, cache, clock, stored>>
    BY <1>1 DEF LoadCache
  <2>2. pc' # "store"
    BY <1>1 DEF LoadCache, TakeNames
  <2>3. CASE pc' = "ask" /\ stored >= 0 /\ Ttl > 0
    <3>1. ~CacheIsFresh
      BY <1>1, <2>3 DEF LoadCache, TakeNames
    <3>2. QED
      BY <1>0, <2>1, <2>2, <2>3, <3>1 DEF CacheIsFresh
  <2>4. CASE ~(pc' = "ask" /\ stored >= 0 /\ Ttl > 0)
    BY <1>0, <2>1, <2>2, <2>4
  <2>5. QED
    BY <2>3, <2>4
<1>2. CASE AskSources
  BY <1>0, <1>2 DEF AskSources, TakeNames
<1>3. CASE StoreNames
  BY <1>0, <1>3 DEF StoreNames, TakeNames, Upsert
<1>4. CASE FallBack
  BY <1>0, <1>4 DEF FallBack, TakeNames
<1>5. CASE OtherRunStores
  <2>1. PICK ct \in SUBSET CtNames : ct # {} /\ cache' = [names |-> ct, at |-> clock]
    BY <1>5 DEF OtherRunStores
  <2>2. cache'.names # {} /\ cache'.at = clock
    BY <2>1
  <2>3. UNCHANGED <<pc, names, clock, stored>>
    BY <1>5 DEF OtherRunStores
  <2>4. QED
    BY <1>0, <2>2, <2>3
<1>6. CASE Tick
  BY <1>0, <1>6 DEF Tick
<1>7. CASE BeginPass \/ SkipHost \/ InspectHost \/ QueueEmpty \/ EndPass \/ Wake \/ StepFails
           \/ UNCHANGED vars
  <2>1. UNCHANGED <<cache, clock, stored, names>>
    BY <1>7 DEF vars, BeginPass, SkipHost, InspectHost, QueueEmpty, EndPass, Wake, StepFails
  <2>2. pc' \in {"ask", "store"} => pc' = pc
    BY <1>7 DEF vars, BeginPass, SkipHost, InspectHost, QueueEmpty, EndPass, Wake, StepFails
  <2>3. QED
    BY <1>0, <2>1, <2>2
<1>8. QED
  BY <1>1, <1>2, <1>3, <1>4, <1>5, <1>6, <1>7 DEF Next, Step

LEMMA SearchKept ==
  ASSUME IInv, [Next]_vars PROVE SearchInv'
<1> DEFINE S == seeds \intersect InScope
<1>0. /\ queue \in Seq(Entry) /\ visited \subseteq Hosts /\ names \subseteq CtNames
      /\ cache.names \subseteq CtNames /\ TypeOK /\ HistoryOK /\ SearchInv
      /\ seeds \subseteq Hosts /\ found \subseteq Hosts \X Hosts
      /\ InScope \subseteq Hosts /\ CtNames \subseteq Hosts
  BY Bounds DEF IInv, TypeOK, HistoryOK, Entry
<1>1. CASE BeginPass
  <2>1. PICK mail \in SUBSET MailHosts :
          /\ queue' \in Seq(Entry) /\ seeds' = mail \union SeedHosts
          /\ Entries(queue') = ((mail \intersect InScope) \union SeedHosts) \X {0}
    BY <1>0, <1>1, SeedsQueued
  <2>2. Seeded(queue', seeds')
    <3>1. \A e \in Entries(queue') : e[2] = 0 /\ e[1] \in seeds'
      BY <2>1
    <3>2. seeds' \intersect InScope \subseteq Waiting(queue', 0)
      BY <1>0, <2>1 DEF Waiting
    <3>3. QED
      BY <3>1, <3>2 DEF Seeded
  <2>3. visited' = {} /\ found' = {} /\ pc' = "load"
    BY <1>1 DEF BeginPass
  <2>4. QED
    BY <2>2, <2>3 DEF SearchInv
<1>2. ASSUME NEW ct \in SUBSET CtNames, TakeNames(ct), pc \in {"load", "ask", "store", "fallBack"},
             UNCHANGED <<visited, found>>
      PROVE  SearchInv'
  <2>1. /\ queue' \in Seq(Entry) /\ seeds' = seeds \union ct /\ pc' = "inspect"
        /\ Entries(queue') = Entries(queue) \union ((ct \intersect InScope) \X {0})
    BY <1>0, <1>2, NamesJoin
  <2>2. visited = {} /\ found = {} /\ Seeded(queue, seeds)
    BY <1>0, <1>2 DEF SearchInv
  <2>3. \A e \in Entries(queue') : e[2] = 0 /\ (e[1] \in InScope => e[1] \in seeds' \intersect InScope)
    BY <2>1, <2>2 DEF Seeded
  <2>4. seeds' \intersect InScope \subseteq Waiting(queue', 0)
    BY <1>0, <2>1, <2>2 DEF Seeded, Waiting
  <2>5. Searching(queue', {}, seeds' \intersect InScope, {})
    BY <1>0, <2>1, <2>3, <2>4, StartSearch
  <2>6. QED
    BY <1>2, <2>1, <2>2, <2>5 DEF SearchInv
<1>3. ASSUME pc \in {"load", "ask", "store", "fallBack"},
             pc' \in {"load", "ask", "store", "fallBack"},
             UNCHANGED <<queue, seeds, visited, found>>
      PROVE  SearchInv'
  BY <1>0, <1>3 DEF SearchInv
<1>4. CASE LoadCache
  BY <1>0, <1>2, <1>3, <1>4 DEF LoadCache
<1>5. CASE AskSources
  BY <1>0, <1>2, <1>3, <1>5 DEF AskSources
<1>6. CASE StoreNames
  BY <1>0, <1>2, <1>6 DEF StoreNames
<1>7. CASE FallBack
  BY <1>0, <1>2, <1>7 DEF FallBack
<1>8. ASSUME pc = "inspect", pc' = "inspect", UNCHANGED seeds,
             Searching(queue', visited', seeds \intersect InScope, found')
      PROVE  SearchInv'
  BY <1>8 DEF SearchInv
<1>9. CASE SkipHost
  <2>1. queue # <<>> /\ Head(queue) = queue[1]
    BY <1>0, <1>9, TailEntries DEF SkipHost
  <2>2. queue[1][1] \notin InScope \/ queue[1][1] \in visited
    BY <1>9, <2>1 DEF SkipHost, Skipped, PopFront
  <2>3. Searching(queue, visited, S, found)
    BY <1>0, <1>9 DEF SearchInv, SkipHost
  <2>4. Searching(Tail(queue), visited, S, found)
    BY <1>0, <2>1, <2>2, <2>3, SkipKeepsSearch
  <2>5. queue' = Tail(queue) /\ UNCHANGED <<pc, visited, seeds, found>> /\ pc = "inspect"
    BY <1>9 DEF SkipHost, PopFront
  <2>6. QED
    BY <1>8, <2>4, <2>5
<1>10. CASE InspectHost
  <2>1. /\ queue # <<>> /\ queue[1][1] \in InScope /\ queue[1][1] \notin visited
        /\ visited' = visited \union {queue[1][1]}
    BY <1>0, <1>10, HostInspected
  <2>2. PICK new \in SUBSET Hosts, n \in Seq(Entry) :
          /\ found' = found \union ({queue[1][1]} \X new)
          /\ queue' = Tail(queue) \o n
          /\ IF queue[1][2] < MaxDepth
             THEN Entries(n) = ((new \intersect InScope) \ (visited \union {queue[1][1]}))
                                 \X {queue[1][2] + 1}
             ELSE n = <<>>
    BY <1>0, <1>10, HostInspected
  <2>3. Searching(queue, visited, S, found)
    BY <1>0, <1>10 DEF SearchInv, InspectHost
  <2>4. visited \in SUBSET Hosts /\ S \in SUBSET InScope /\ found \in SUBSET (Hosts \X Hosts)
    BY <1>0
  <2> HIDE DEF S
  <2>5. Searching(Tail(queue) \o n, visited \union {queue[1][1]}, S,
                  found \union ({queue[1][1]} \X new))
    BY <1>0, <2>1, <2>2, <2>3, <2>4, InspectKeepsSearch
  <2>6. UNCHANGED <<pc, seeds>> /\ pc = "inspect"
    BY <1>10 DEF InspectHost
  <2>7. QED
    BY <1>8, <2>1, <2>2, <2>5, <2>6 DEF S
<1>11. CASE QueueEmpty
  BY <1>0, <1>11 DEF QueueEmpty, queueing, SearchInv, Searching
<1>12. CASE EndPass
  BY <1>12 DEF EndPass, SearchInv
<1>13. CASE Wake \/ StepFails
  BY <1>13 DEF Wake, StepFails, SearchInv
<1>14. CASE OtherRunStores \/ Tick \/ UNCHANGED vars
  BY <1>0, <1>14 DEF OtherRunStores, Tick, vars, queueing, SearchInv
<1>15. QED
  BY <1>1, <1>4, <1>5, <1>6, <1>7, <1>9, <1>10, <1>11, <1>12, <1>13, <1>14 DEF Next, Step

-----------------------------------------------------------------------------
(* Theorems                                                                *)

LEMMA InvariantInit ==
  ASSUME Init PROVE IInv
<1>1. TypeOK
  BY Bounds DEF Init, TypeOK, Control
<1>2. HistoryOK
  BY DEF Init, HistoryOK
<1>3. SearchInv
  BY DEF Init, SearchInv
<1>4. BestInv
  BY DEF Init, BestInv
<1>5. CacheInv
  BY DEF Init, CacheInv, SourcesAreSpared
<1>6. QED
  BY <1>1, <1>2, <1>3, <1>4, <1>5 DEF IInv

LEMMA InvariantStep ==
  ASSUME IInv, [Next]_vars PROVE IInv'
<1>1. TypeOK'
  BY QueueTypeKept, ControlTypeKept, PassesKept DEF TypeOK, Entry
<1>2. HistoryOK'
  BY QueueTypeKept, PassesKept DEF HistoryOK
<1>3. QED
  BY <1>1, <1>2, SearchKept, PassesKept, CacheKept DEF IInv

\* The invariant of a discovery holds in every reachable state.
THEOREM InvariantHolds == Spec => []IInv
<1>1. QED
  BY InvariantInit, InvariantStep, PTL DEF Spec

\* Every variable of the discovery keeps its type, and no host is queued
\* deeper than MaxDepth (perform_discovery_pass).
THEOREM TypeCorrect == Spec => []TypeOK
<1>1. IInv => TypeOK
  BY DEF IInv
<1>2. QED
  BY <1>1, InvariantHolds, PTL

\* A pass inspects exactly the hosts in scope within MaxDepth links of a
\* seed, in whatever order the inspections find them, cycles included
\* (perform_discovery_pass): the queue holds one depth after the other, so
\* that a host first leaves it at its least depth.
THEOREM PassesComplete == Spec => []PassesAreComplete
<1>1. IInv => PassesAreComplete
  BY WithinIsRow DEF IInv, SearchInv, PassesAreComplete
<1>2. QED
  BY <1>1, InvariantHolds, PTL

\* The outcome of a discovery is that of its best pass
\* (perform_discovery_internal).
THEOREM BestKept == Spec => []OutcomeIsBest
<1>1. ASSUME IInv PROVE OutcomeIsBest
  <2>1. BestInv /\ pass \in 1..MaxPasses /\ MaxPasses \in 1..5
    BY <1>1, Bounds DEF IInv, TypeOK
  <2>2. QED
    BY <2>1 DEF BestInv, OutcomeIsBest
<1>2. QED
  BY <1>1, InvariantHolds, PTL

\* While the names a run has stored are fresh it does not ask the sources
\* again, whatever other runs of the domain store (query_ct_names).
THEOREM SourcesSpared == Spec => []SourcesAreSpared
<1>1. IInv => SourcesAreSpared
  BY DEF IInv, CacheInv
<1>2. QED
  BY <1>1, InvariantHolds, PTL
=============================================================================
