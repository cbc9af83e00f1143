-------------------------- MODULE TestPhaseProofs ---------------------------
(***************************************************************************)
(* Proofs about TestPhase for every set of runs, tests and hosts, every    *)
(* assignment of tests to phases and hosts, and every limit: no budget     *)
(* gains or loses a permit, and tests stay within the documented limits.   *)
(***************************************************************************)
EXTENDS TestPhase, FiniteSetTheorems, SequenceTheorems, TLAPS

-----------------------------------------------------------------------------
(* The inductive invariant                                                 *)

\* The free permits of a budget and its holders make up its limit.
Balanced(free, limit, holders) ==
  /\ IsFiniteSet(holders)
  /\ free \in 0..limit
  /\ free + Cardinality(holders) = limit

BudgetsInv ==
  /\ Balanced(globalFree, GlobalLimit, GlobalHolders)
  /\ \A r \in Runs :
       /\ Balanced(runFree[r], RunLimit, RunHolders(r))
       /\ \A h \in Hosts : Balanced(hostFree[r][h], HostLimit, HostHolders(r, h))

IInv == TypeOK /\ BudgetsInv

-----------------------------------------------------------------------------
(* Budgets                                                                 *)

\* Every budget has a permit.
LEMMA LimitsArePositive ==
  /\ RunLimit \in Nat \ {0} /\ GlobalLimit \in Nat \ {0} /\ HostLimit \in Nat \ {0}
<1>1. QED
  BY TestPhaseAssumption DEF RunLimit, GlobalLimit, HostLimit, AtLeastOne

\* A budget nobody holds has all its permits.
LEMMA AllFree ==
  ASSUME NEW limit \in Nat
  PROVE  Balanced(limit, limit, {})
<1>1. QED
  BY FS_EmptySet DEF Balanced

\* A permit that is taken goes from the free ones to a new holder.
LEMMA Taken ==
  ASSUME NEW free, NEW limit \in Nat, NEW holders, NEW x,
         Balanced(free, limit, holders), free # 0, x \notin holders
  PROVE  Balanced(free - 1, limit, holders \union {x})
<1>1. /\ IsFiniteSet(holders \union {x})
      /\ Cardinality(holders \union {x}) = Cardinality(holders) + 1
  BY FS_AddElement DEF Balanced
<1>2. Cardinality(holders) \in Nat
  BY FS_CardinalityType DEF Balanced
<1>3. QED
  BY <1>1, <1>2 DEF Balanced

\* A permit that is released comes back to the free ones.
LEMMA Released ==
  ASSUME NEW free, NEW limit \in Nat, NEW holders, NEW x,
         Balanced(free, limit, holders), x \in holders
  PROVE  Balanced(free + 1, limit, holders \ {x})
<1>1. /\ IsFiniteSet(holders \ {x})
      /\ Cardinality(holders \ {x}) = Cardinality(holders) - 1
  BY FS_RemoveElement DEF Balanced
<1>2. Cardinality(holders) \in Nat /\ Cardinality(holders \ {x}) \in Nat
  BY <1>1, FS_CardinalityType DEF Balanced
<1>3. QED
  BY <1>1, <1>2 DEF Balanced

\* What a task that goes away, a holder or not, does to a budget.
LEMMA GivenBack ==
  ASSUME NEW free, NEW limit \in Nat, NEW holders, NEW x, Balanced(free, limit, holders)
  PROVE  Balanced(free + (IF x \in holders THEN 1 ELSE 0), limit, holders \ {x})
<1>1. CASE x \in holders
  BY <1>1, Released
<1>2. CASE x \notin holders
  <2>1. holders \ {x} = holders
    BY <1>2
  <2>2. free + 0 = free
    BY DEF Balanced
  <2>3. QED
    BY <1>2, <2>1, <2>2
<1>3. QED
  BY <1>1, <1>2

\* What the holders of a budget that is balanced number at most.
LEMMA HoldersBounded ==
  ASSUME NEW free, NEW limit \in Nat, NEW holders, Balanced(free, limit, holders),
         NEW some \in SUBSET holders
  PROVE  Cardinality(some) <= limit
<1>1. Cardinality(some) <= Cardinality(holders) /\ IsFiniteSet(some)
  BY FS_Subset DEF Balanced
<1>2. Cardinality(some) \in Nat /\ Cardinality(holders) \in Nat
  BY <1>1, FS_CardinalityType DEF Balanced
<1>3. QED
  BY <1>1, <1>2 DEF Balanced

\* Balanced budgets are what PermitsAreConserved says.
LEMMA BudgetsConserve ==
  ASSUME IInv
  PROVE  PermitsAreConserved
<1>1. QED
  BY DEF IInv, BudgetsInv, Balanced, PermitsAreConserved

-----------------------------------------------------------------------------
(* Queues and stages                                                       *)

\* A queue that a task leaves keeps its other waiters.
LEMMA WithoutType ==
  ASSUME NEW S, NEW queue \in Seq(S), NEW x
  PROVE  Without(queue, x) \in Seq(S)
<1> DEFINE i == CHOOSE i \in Place(queue, x) : TRUE
<1>1. CASE Place(queue, x) # {}
  <2>1. i \in 1..Len(queue)
    BY <1>1 DEF Place
  <2>2. /\ SubSeq(queue, 1, i - 1) \in Seq(S)
        /\ SubSeq(queue, i + 1, Len(queue)) \in Seq(S)
    <3> HIDE DEF i
    <3>1. QED
      BY <2>1, SubSeqProperties
  <2>3. QED
    BY <1>1, <2>2 DEF Without, RemoveAt
<1>2. QED
  BY <1>1 DEF Without

\* A waiter that is granted a permit finds one free.
LEMMA GrantedIsFree ==
  ASSUME NEW S, NEW queue \in Seq(S), NEW free \in Nat, NEW x, Granted(queue, free, x)
  PROVE  free # 0
<1>1. QED
  BY DEF Granted

\* A step of one test changes its own place among the holders only.
LEMMA StageStep ==
  ASSUME TypeOK, NEW r \in Runs, NEW t \in Tests, NEW s \in Stages,
         stage' = [stage EXCEPT ![r][t] = s]
  PROVE  /\ stage' \in [Runs -> [Tests -> Stages]]
         /\ GlobalHolders' = IF s \in HoldsGlobal THEN GlobalHolders \union {<<r, t>>}
                             ELSE GlobalHolders \ {<<r, t>>}
         /\ RunHolders(r)' = IF s \in HoldsRun THEN RunHolders(r) \union {t}
                             ELSE RunHolders(r) \ {t}
         /\ HostHolders(r, HostOf[t])' =
              IF s \in HoldsHost THEN HostHolders(r, HostOf[t]) \union {t}
              ELSE HostHolders(r, HostOf[t]) \ {t}
         /\ \A h \in Hosts \ {HostOf[t]} : HostHolders(r, h)' = HostHolders(r, h)
         /\ \A q \in Runs \ {r} : /\ RunHolders(q)' = RunHolders(q)
                                  /\ \A h \in Hosts : HostHolders(q, h)' = HostHolders(q, h)
<1> USE DEF TypeOK
<1>1. stage' \in [Runs -> [Tests -> Stages]]
  OBVIOUS
<1>2. GlobalHolders' = IF s \in HoldsGlobal THEN GlobalHolders \union {<<r, t>>}
                       ELSE GlobalHolders \ {<<r, t>>}
  <2>1. \A p \in Runs \X Tests : stage'[p[1]][p[2]] = IF p = <<r, t>> THEN s ELSE stage[p[1]][p[2]]
    OBVIOUS
  <2>2. <<r, t>> \in Runs \X Tests
    OBVIOUS
  <2>3. QED
    BY <2>1, <2>2 DEF GlobalHolders
<1>3. RunHolders(r)' = IF s \in HoldsRun THEN RunHolders(r) \union {t} ELSE RunHolders(r) \ {t}
  BY DEF RunHolders
<1>4. HostHolders(r, HostOf[t])' =
        IF s \in HoldsHost THEN HostHolders(r, HostOf[t]) \union {t}
        ELSE HostHolders(r, HostOf[t]) \ {t}
  BY DEF HostHolders
<1>5. \A h \in Hosts \ {HostOf[t]} : HostHolders(r, h)' = HostHolders(r, h)
  BY DEF HostHolders
<1>6. \A q \in Runs \ {r} : /\ RunHolders(q)' = RunHolders(q)
                            /\ \A h \in Hosts : HostHolders(q, h)' = HostHolders(q, h)
  BY DEF RunHolders, HostHolders
<1>7. QED
  BY <1>1, <1>2, <1>3, <1>4, <1>5, <1>6

\* The order in which the tests of a phase queue is a sequence of tests.
LEMMA OrderType ==
  ASSUME NEW r \in Runs, NEW order \in SetToSeqs(PhaseTests[r])
  PROVE  order \in Seq(Tests)
<1>1. Cardinality(PhaseTests[r]) \in Nat /\ PhaseTests[r] \subseteq Tests
  BY TestPhaseAssumption, FS_CardinalityType
<1>2. order \in [1..Cardinality(PhaseTests[r]) -> Tests]
  BY <1>1 DEF SetToSeqs
<1>3. QED
  BY <1>1, <1>2

-----------------------------------------------------------------------------
(* The invariant is inductive                                              *)

LEMMA InitInv == Init => IInv
<1> SUFFICES ASSUME Init PROVE IInv
  OBVIOUS
<1> USE LimitsArePositive, TestPhaseAssumption
<1>1. TypeOK
  <2>1. stage \in [Runs -> [Tests -> Stages]]
    BY DEF Init, Stages
  <2>2. /\ runFree \in [Runs -> 0..RunLimit] /\ globalFree \in 0..GlobalLimit
        /\ hostFree \in [Runs -> [Hosts -> 0..HostLimit]]
    BY DEF Init
  <2>3. /\ runQueue \in [Runs -> Seq(Tests)] /\ globalQueue \in Seq(Runs \X Tests)
        /\ hostQueue \in [Runs -> [Hosts -> Seq(Tests)]]
    BY DEF Init
  <2>4. failing \in [Runs -> BOOLEAN] /\ shutdown \in BOOLEAN
    BY DEF Init
  <2>5. QED
    BY <2>1, <2>2, <2>3, <2>4 DEF TypeOK
<1>2. /\ GlobalHolders = {}
      /\ \A r \in Runs : RunHolders(r) = {} /\ \A h \in Hosts : HostHolders(r, h) = {}
  BY DEF Init, GlobalHolders, RunHolders, HostHolders, HoldsGlobal, HoldsRun, HoldsHost
<1>3. BudgetsInv
  BY <1>2, AllFree DEF Init, BudgetsInv
<1>4. QED
  BY <1>1, <1>3 DEF IInv

\* A phase starts in a slot none of whose tests holds a permit, with budgets of
\* its own; it leaves the shared budget as it is.
LEMMA StartPhaseInv ==
  ASSUME IInv, NEW r \in Runs, StartPhase(r)
  PROVE  IInv'
<1> USE LimitsArePositive, TestPhaseAssumption
<1>1. TypeOK'
  <2>1. PICK order \in SetToSeqs(PhaseTests[r]) : runQueue' = [runQueue EXCEPT ![r] = order]
    BY DEF StartPhase
  <2>2. runQueue' \in [Runs -> Seq(Tests)]
    BY <2>1, OrderType DEF IInv, TypeOK
  <2>3. stage' \in [Runs -> [Tests -> Stages]]
    BY DEF IInv, TypeOK, StartPhase, Stages
  <2>4. /\ runFree' \in [Runs -> 0..RunLimit]
        /\ hostFree' \in [Runs -> [Hosts -> 0..HostLimit]]
        /\ hostQueue' \in [Runs -> [Hosts -> Seq(Tests)]]
    BY DEF IInv, TypeOK, StartPhase
  <2>5. failing' \in [Runs -> BOOLEAN]
    BY DEF IInv, TypeOK, StartPhase
  <2>6. QED
    BY <2>2, <2>3, <2>4, <2>5 DEF IInv, TypeOK, StartPhase, globalPermits
<1>2. \A t \in Tests : stage[r][t] = "none" /\ stage'[r][t] \in {"runWait", "none"}
  BY DEF StartPhase, MayStart, IInv, TypeOK
<1>3. \A q \in Runs \ {r} : /\ stage'[q] = stage[q] /\ runFree'[q] = runFree[q]
                            /\ hostFree'[q] = hostFree[q]
  BY DEF StartPhase, IInv, TypeOK
<1>4. GlobalHolders' = GlobalHolders
  <2>1. \A p \in Runs \X Tests :
          (stage'[p[1]][p[2]] \in HoldsGlobal) <=> (stage[p[1]][p[2]] \in HoldsGlobal)
    BY <1>2, <1>3 DEF HoldsGlobal
  <2>2. QED
    BY <2>1 DEF GlobalHolders
<1>5. RunHolders(r)' = {} /\ \A h \in Hosts : HostHolders(r, h)' = {}
  BY <1>2 DEF RunHolders, HostHolders, HoldsRun, HoldsHost
<1>6. runFree'[r] = RunLimit /\ \A h \in Hosts : hostFree'[r][h] = HostLimit
  BY DEF StartPhase, IInv, TypeOK
<1>7. \A q \in Runs \ {r} : /\ RunHolders(q)' = RunHolders(q)
                            /\ \A h \in Hosts : HostHolders(q, h)' = HostHolders(q, h)
  BY <1>3 DEF RunHolders, HostHolders
<1>8. globalFree' = globalFree
  BY DEF StartPhase, globalPermits
<1>9. BudgetsInv'
  <2>1. Balanced(globalFree', GlobalLimit, GlobalHolders')
    BY <1>4, <1>8 DEF IInv, BudgetsInv
  <2>2. /\ Balanced(runFree'[r], RunLimit, RunHolders(r)')
        /\ \A h \in Hosts : Balanced(hostFree'[r][h], HostLimit, HostHolders(r, h)')
    BY <1>5, <1>6, AllFree
  <2>3. \A q \in Runs \ {r} :
          /\ Balanced(runFree'[q], RunLimit, RunHolders(q)')
          /\ \A h \in Hosts : Balanced(hostFree'[q][h], HostLimit, HostHolders(q, h)')
    BY <1>3, <1>7 DEF IInv, BudgetsInv
  <2>4. QED
    BY <2>1, <2>2, <2>3 DEF BudgetsInv
<1>10. QED
  BY <1>1, <1>9 DEF IInv

\* What the budgets owe a step of test t of run r: those it does not use keep
\* their permits and holders.
LEMMA OtherBudgets ==
  ASSUME IInv, NEW r \in Runs, NEW t \in Tests, NEW s \in Stages,
         stage' = [stage EXCEPT ![r][t] = s],
         Balanced(globalFree', GlobalLimit, GlobalHolders'),
         Balanced(runFree'[r], RunLimit, RunHolders(r)'),
         Balanced(hostFree'[r][HostOf[t]], HostLimit, HostHolders(r, HostOf[t])'),
         \A h \in Hosts \ {HostOf[t]} : hostFree'[r][h] = hostFree[r][h],
         \A q \in Runs \ {r} : runFree'[q] = runFree[q] /\ hostFree'[q] = hostFree[q]
  PROVE  BudgetsInv'
<1>1. /\ \A h \in Hosts \ {HostOf[t]} : HostHolders(r, h)' = HostHolders(r, h)
      /\ \A q \in Runs \ {r} : /\ RunHolders(q)' = RunHolders(q)
                               /\ \A h \in Hosts : HostHolders(q, h)' = HostHolders(q, h)
  BY StageStep DEF IInv
<1>2. \A h \in Hosts : Balanced(hostFree'[r][h], HostLimit, HostHolders(r, h)')
  <2> TAKE h \in Hosts
  <2>1. CASE h = HostOf[t]
    BY <2>1
  <2>2. CASE h # HostOf[t]
    BY <2>2, <1>1 DEF IInv, BudgetsInv
  <2>3. QED
    BY <2>1, <2>2
<1>3. \A q \in Runs \ {r} :
        /\ Balanced(runFree'[q], RunLimit, RunHolders(q)')
        /\ \A h \in Hosts : Balanced(hostFree'[q][h], HostLimit, HostHolders(q, h)')
  BY <1>1 DEF IInv, BudgetsInv
<1>4. QED
  BY <1>2, <1>3 DEF BudgetsInv

\* A test takes a permit of its run's budget.
LEMMA TakeRunPermitInv ==
  ASSUME IInv, NEW r \in Runs, NEW t \in Tests, TakeRunPermit(r, t)
  PROVE  IInv'
<1> USE LimitsArePositive, TestPhaseAssumption
<1>1. stage[r][t] = "runWait" /\ stage' = [stage EXCEPT ![r][t] = "globalWait"]
  BY DEF TakeRunPermit
<1>2. "globalWait" \in Stages /\ TypeOK
  BY DEF Stages, IInv
<1>3. runFree[r] # 0 /\ runFree[r] \in 0..RunLimit
  BY <1>2, GrantedIsFree DEF TakeRunPermit, TypeOK
<1>4. runFree' = [runFree EXCEPT ![r] = runFree[r] - 1] /\ runFree' \in [Runs -> 0..RunLimit]
  BY <1>2, <1>3 DEF TakeRunPermit, TypeOK
<1>5. /\ GlobalHolders' = GlobalHolders
      /\ RunHolders(r)' = RunHolders(r) \union {t}
      /\ HostHolders(r, HostOf[t])' = HostHolders(r, HostOf[t])
  <2>1. /\ GlobalHolders' = GlobalHolders \ {<<r, t>>}
        /\ RunHolders(r)' = RunHolders(r) \union {t}
        /\ HostHolders(r, HostOf[t])' = HostHolders(r, HostOf[t]) \ {t}
    <3>1. /\ GlobalHolders' = IF "globalWait" \in HoldsGlobal THEN GlobalHolders \union {<<r, t>>}
                              ELSE GlobalHolders \ {<<r, t>>}
          /\ RunHolders(r)' = IF "globalWait" \in HoldsRun THEN RunHolders(r) \union {t}
                              ELSE RunHolders(r) \ {t}
          /\ HostHolders(r, HostOf[t])' =
               IF "globalWait" \in HoldsHost THEN HostHolders(r, HostOf[t]) \union {t}
               ELSE HostHolders(r, HostOf[t]) \ {t}
      BY <1>1, <1>2, StageStep
    <3>2. "globalWait" \in HoldsRun \ (HoldsGlobal \union HoldsHost)
      BY DEF HoldsRun, HoldsGlobal, HoldsHost
    <3>3. QED
      BY <3>1, <3>2
  <2>2. <<r, t>> \notin GlobalHolders /\ t \notin HostHolders(r, HostOf[t])
    BY <1>1 DEF GlobalHolders, HostHolders, HoldsGlobal, HoldsHost
  <2>3. QED
    BY <2>1, <2>2
<1>6. t \notin RunHolders(r)
  BY <1>1 DEF RunHolders, HoldsRun
<1>7. UNCHANGED <<globalFree, hostFree, hostQueue, failing, shutdown>>
  BY DEF TakeRunPermit, hostPermits
<1>8. BudgetsInv'
  <2>1. Balanced(runFree'[r], RunLimit, RunHolders(r)')
    BY <1>2, <1>3, <1>4, <1>5, <1>6, Taken DEF IInv, BudgetsInv, TypeOK
  <2>2. /\ Balanced(globalFree', GlobalLimit, GlobalHolders')
        /\ Balanced(hostFree'[r][HostOf[t]], HostLimit, HostHolders(r, HostOf[t])')
    BY <1>5, <1>7 DEF IInv, BudgetsInv
  <2>3. \A q \in Runs \ {r} : runFree'[q] = runFree[q] /\ hostFree'[q] = hostFree[q]
    BY <1>2, <1>4, <1>7 DEF TypeOK
  <2>4. \A h \in Hosts \ {HostOf[t]} : hostFree'[r][h] = hostFree[r][h]
    BY <1>7
  <2>5. QED
    BY <1>1, <1>2, <2>1, <2>2, <2>3, <2>4, OtherBudgets
<1>9. TypeOK'
  <2>1. runQueue' \in [Runs -> Seq(Tests)]
    BY <1>2, WithoutType DEF TakeRunPermit, TypeOK
  <2>2. globalQueue' \in Seq(Runs \X Tests)
    BY <1>2 DEF TakeRunPermit, TypeOK
  <2>3. stage' \in [Runs -> [Tests -> Stages]]
    BY <1>1, <1>2, StageStep
  <2>4. QED
    BY <1>2, <1>4, <1>7, <2>1, <2>2, <2>3 DEF TypeOK
<1>10. QED
  BY <1>8, <1>9 DEF IInv

\* A test takes a permit of the budget that all runs share.
LEMMA TakeGlobalPermitInv ==
  ASSUME IInv, NEW r \in Runs, NEW t \in Tests, TakeGlobalPermit(r, t)
  PROVE  IInv'
<1> USE LimitsArePositive, TestPhaseAssumption
<1>1. stage[r][t] = "globalWait" /\ stage' = [stage EXCEPT ![r][t] = "hostWait"]
  BY DEF TakeGlobalPermit
<1>2. "hostWait" \in Stages /\ TypeOK
  BY DEF Stages, IInv
<1>3. globalFree # 0 /\ globalFree \in 0..GlobalLimit
  BY <1>2, GrantedIsFree DEF TakeGlobalPermit, TypeOK
<1>4. globalFree' = globalFree - 1 /\ globalFree' \in 0..GlobalLimit
  BY <1>2, <1>3 DEF TakeGlobalPermit, TypeOK
<1>5. /\ GlobalHolders' = GlobalHolders \union {<<r, t>>}
      /\ RunHolders(r)' = RunHolders(r)
      /\ HostHolders(r, HostOf[t])' = HostHolders(r, HostOf[t])
  <2>1. /\ GlobalHolders' = IF "hostWait" \in HoldsGlobal THEN GlobalHolders \union {<<r, t>>}
                            ELSE GlobalHolders \ {<<r, t>>}
        /\ RunHolders(r)' = IF "hostWait" \in HoldsRun THEN RunHolders(r) \union {t}
                            ELSE RunHolders(r) \ {t}
        /\ HostHolders(r, HostOf[t])' =
             IF "hostWait" \in HoldsHost THEN HostHolders(r, HostOf[t]) \union {t}
             ELSE HostHolders(r, HostOf[t]) \ {t}
    BY <1>1, <1>2, StageStep
  <2>2. "hostWait" \in (HoldsRun \intersect HoldsGlobal) \ HoldsHost
    BY DEF HoldsRun, HoldsGlobal, HoldsHost
  <2>3. t \in RunHolders(r) /\ t \notin HostHolders(r, HostOf[t])
    BY <1>1 DEF RunHolders, HostHolders, HoldsRun, HoldsHost
  <2>4. QED
    BY <2>1, <2>2, <2>3
<1>6. <<r, t>> \notin GlobalHolders
  BY <1>1 DEF GlobalHolders, HoldsGlobal
<1>7. UNCHANGED <<runFree, runQueue, hostFree, failing, shutdown>>
  BY DEF TakeGlobalPermit, runPermits
<1>8. BudgetsInv'
  <2>1. Balanced(globalFree', GlobalLimit, GlobalHolders')
    BY <1>3, <1>4, <1>5, <1>6, Taken DEF IInv, BudgetsInv
  <2>2. /\ Balanced(runFree'[r], RunLimit, RunHolders(r)')
        /\ Balanced(hostFree'[r][HostOf[t]], HostLimit, HostHolders(r, HostOf[t])')
    BY <1>5, <1>7 DEF IInv, BudgetsInv
  <2>3. QED
    BY <1>1, <1>2, <1>7, <2>1, <2>2, OtherBudgets
<1>9. TypeOK'
  <2>1. globalQueue' \in Seq(Runs \X Tests)
    BY <1>2, WithoutType DEF TakeGlobalPermit, TypeOK
  <2>2. hostQueue' \in [Runs -> [Hosts -> Seq(Tests)]]
    <3>1. Append(hostQueue[r][HostOf[t]], t) \in Seq(Tests)
      BY <1>2 DEF TypeOK
    <3>2. QED
      BY <1>2, <3>1 DEF TakeGlobalPermit, TypeOK
  <2>3. stage' \in [Runs -> [Tests -> Stages]]
    BY <1>1, <1>2, StageStep
  <2>4. QED
    BY <1>2, <1>4, <1>7, <2>1, <2>2, <2>3 DEF TypeOK
<1>10. QED
  BY <1>8, <1>9 DEF IInv

\* A test takes a permit of its host's budget within the phase.
LEMMA TakeHostPermitInv ==
  ASSUME IInv, NEW r \in Runs, NEW t \in Tests, TakeHostPermit(r, t)
  PROVE  IInv'
<1> USE LimitsArePositive, TestPhaseAssumption
<1>1. stage[r][t] = "hostWait" /\ stage' = [stage EXCEPT ![r][t] = "executing"]
  BY DEF TakeHostPermit
<1>2. "executing" \in Stages /\ TypeOK
  BY DEF Stages, IInv
<1>3. hostFree[r][HostOf[t]] # 0 /\ hostFree[r][HostOf[t]] \in 0..HostLimit
  <2>1. hostFree[r][HostOf[t]] \in 0..HostLimit /\ hostQueue[r][HostOf[t]] \in Seq(Tests)
    BY <1>2 DEF TypeOK
  <2>2. QED
    BY <2>1, GrantedIsFree DEF TakeHostPermit
<1>4. /\ hostFree' = [hostFree EXCEPT ![r][HostOf[t]] = hostFree[r][HostOf[t]] - 1]
      /\ hostFree' \in [Runs -> [Hosts -> 0..HostLimit]]
  <2>1. hostFree[r][HostOf[t]] - 1 \in 0..HostLimit
    BY <1>3
  <2>2. QED
    BY <1>2, <2>1 DEF TakeHostPermit, TypeOK
<1>5. /\ GlobalHolders' = GlobalHolders
      /\ RunHolders(r)' = RunHolders(r)
      /\ HostHolders(r, HostOf[t])' = HostHolders(r, HostOf[t]) \union {t}
  <2>1. /\ GlobalHolders' = IF "executing" \in HoldsGlobal THEN GlobalHolders \union {<<r, t>>}
                            ELSE GlobalHolders \ {<<r, t>>}
        /\ RunHolders(r)' = IF "executing" \in HoldsRun THEN RunHolders(r) \union {t}
                            ELSE RunHolders(r) \ {t}
        /\ HostHolders(r, HostOf[t])' =
             IF "executing" \in HoldsHost THEN HostHolders(r, HostOf[t]) \union {t}
             ELSE HostHolders(r, HostOf[t]) \ {t}
    BY <1>1, <1>2, StageStep
  <2>2. "executing" \in HoldsRun \intersect HoldsGlobal \intersect HoldsHost
    BY DEF HoldsRun, HoldsGlobal, HoldsHost
  <2>3. t \in RunHolders(r) /\ <<r, t>> \in GlobalHolders
    BY <1>1 DEF RunHolders, GlobalHolders, HoldsRun, HoldsGlobal
  <2>4. QED
    BY <2>1, <2>2, <2>3
<1>6. t \notin HostHolders(r, HostOf[t])
  BY <1>1 DEF HostHolders, HoldsHost
<1>7. UNCHANGED <<runFree, runQueue, globalFree, globalQueue, failing, shutdown>>
  BY DEF TakeHostPermit, runPermits, globalPermits
<1>8. BudgetsInv'
  <2>1. Balanced(hostFree'[r][HostOf[t]], HostLimit, HostHolders(r, HostOf[t])')
    <3>1. hostFree'[r][HostOf[t]] = hostFree[r][HostOf[t]] - 1
      BY <1>2, <1>4 DEF TypeOK
    <3>2. Balanced(hostFree[r][HostOf[t]], HostLimit, HostHolders(r, HostOf[t]))
      BY DEF IInv, BudgetsInv
    <3>3. QED
      BY <1>3, <1>5, <1>6, <3>1, <3>2, Taken
  <2>2. /\ Balanced(globalFree', GlobalLimit, GlobalHolders')
        /\ Balanced(runFree'[r], RunLimit, RunHolders(r)')
    BY <1>5, <1>7 DEF IInv, BudgetsInv
  <2>3. \A q \in Runs \ {r} : runFree'[q] = runFree[q] /\ hostFree'[q] = hostFree[q]
    BY <1>2, <1>4, <1>7 DEF TypeOK
  <2>4. \A h \in Hosts \ {HostOf[t]} : hostFree'[r][h] = hostFree[r][h]
    BY <1>2, <1>4 DEF TypeOK
  <2>5. QED
    BY <1>1, <1>2, <2>1, <2>2, <2>3, <2>4, OtherBudgets
<1>9. TypeOK'
  <2>1. hostQueue' \in [Runs -> [Hosts -> Seq(Tests)]]
    <3>1. Without(hostQueue[r][HostOf[t]], t) \in Seq(Tests)
      BY <1>2, WithoutType DEF TypeOK
    <3>2. QED
      BY <1>2, <3>1 DEF TakeHostPermit, TypeOK
  <2>2. stage' \in [Runs -> [Tests -> Stages]]
    BY <1>1, <1>2, StageStep
  <2>3. QED
    BY <1>2, <1>4, <1>7, <2>1, <2>2 DEF TypeOK
<1>10. QED
  BY <1>8, <1>9 DEF IInv

\* A test task that is gone leaves its queues and gives back what it holds.
LEMMA ReleaseInv ==
  ASSUME IInv, NEW r \in Runs, NEW t \in Tests, Release(r, t),
         stage' = [stage EXCEPT ![r][t] = "none"],
         failing' \in [Runs -> BOOLEAN], UNCHANGED shutdown
  PROVE  IInv'
<1> USE LimitsArePositive, TestPhaseAssumption
<1> DEFINE h == HostOf[t]
<1>1. "none" \in Stages /\ TypeOK /\ h \in Hosts
  BY DEF Stages, IInv
<1>2. /\ GlobalHolders' = GlobalHolders \ {<<r, t>>}
      /\ RunHolders(r)' = RunHolders(r) \ {t}
      /\ HostHolders(r, h)' = HostHolders(r, h) \ {t}
  <2>1. /\ GlobalHolders' = IF "none" \in HoldsGlobal THEN GlobalHolders \union {<<r, t>>}
                            ELSE GlobalHolders \ {<<r, t>>}
        /\ RunHolders(r)' = IF "none" \in HoldsRun THEN RunHolders(r) \union {t}
                            ELSE RunHolders(r) \ {t}
        /\ HostHolders(r, h)' = IF "none" \in HoldsHost THEN HostHolders(r, h) \union {t}
                                ELSE HostHolders(r, h) \ {t}
    BY <1>1, StageStep
  <2>2. "none" \notin HoldsRun \union HoldsGlobal \union HoldsHost
    BY DEF HoldsRun, HoldsGlobal, HoldsHost
  <2>3. QED
    BY <2>1, <2>2
<1>3. /\ runFree' = [runFree EXCEPT ![r] = runFree[r] + (IF t \in RunHolders(r) THEN 1 ELSE 0)]
      /\ globalFree' = globalFree + (IF <<r, t>> \in GlobalHolders THEN 1 ELSE 0)
      /\ hostFree' = [hostFree EXCEPT ![r][h] =
                        hostFree[r][h] + (IF t \in HostHolders(r, h) THEN 1 ELSE 0)]
  <2>1. /\ (t \in RunHolders(r)) <=> (stage[r][t] \in HoldsRun)
        /\ (<<r, t>> \in GlobalHolders) <=> (stage[r][t] \in HoldsGlobal)
        /\ (t \in HostHolders(r, h)) <=> (stage[r][t] \in HoldsHost)
    BY DEF RunHolders, GlobalHolders, HostHolders
  <2>2. QED
    BY <2>1 DEF Release
<1>4. /\ Balanced(globalFree', GlobalLimit, GlobalHolders')
      /\ Balanced(runFree'[r], RunLimit, RunHolders(r)')
      /\ Balanced(hostFree'[r][h], HostLimit, HostHolders(r, h)')
  <2>1. /\ Balanced(globalFree, GlobalLimit, GlobalHolders)
        /\ Balanced(runFree[r], RunLimit, RunHolders(r))
        /\ Balanced(hostFree[r][h], HostLimit, HostHolders(r, h))
    BY <1>1 DEF IInv, BudgetsInv
  <2>2. /\ runFree'[r] = runFree[r] + (IF t \in RunHolders(r) THEN 1 ELSE 0)
        /\ hostFree'[r][h] = hostFree[r][h] + (IF t \in HostHolders(r, h) THEN 1 ELSE 0)
    BY <1>1, <1>3 DEF TypeOK
  <2>3. Balanced(globalFree', GlobalLimit, GlobalHolders')
    BY <1>2, <1>3, <2>1, GivenBack
  <2>4. Balanced(runFree'[r], RunLimit, RunHolders(r)')
    <3>1. Balanced(runFree[r] + (IF t \in RunHolders(r) THEN 1 ELSE 0), RunLimit,
                   RunHolders(r) \ {t})
      BY <2>1, GivenBack
    <3>2. QED
      BY <1>2, <2>2, <3>1
  <2>5. Balanced(hostFree'[r][h], HostLimit, HostHolders(r, h)')
    <3>1. Balanced(hostFree[r][h] + (IF t \in HostHolders(r, h) THEN 1 ELSE 0), HostLimit,
                   HostHolders(r, h) \ {t})
      BY <2>1, GivenBack
    <3>2. QED
      BY <1>2, <2>2, <3>1
  <2>6. QED
    BY <2>3, <2>4, <2>5
<1>5. BudgetsInv'
  <2>1. \A q \in Runs \ {r} : runFree'[q] = runFree[q] /\ hostFree'[q] = hostFree[q]
    BY <1>1, <1>3 DEF TypeOK
  <2>2. \A g \in Hosts \ {h} : hostFree'[r][g] = hostFree[r][g]
    BY <1>1, <1>3 DEF TypeOK
  <2>3. QED
    BY <1>1, <1>4, <2>1, <2>2, OtherBudgets
<1>6. TypeOK'
  <2>1. /\ globalFree' \in 0..GlobalLimit /\ runFree'[r] \in 0..RunLimit
        /\ hostFree'[r][h] \in 0..HostLimit
    BY <1>4 DEF Balanced
  <2>2. /\ runFree' \in [Runs -> 0..RunLimit]
        /\ hostFree' \in [Runs -> [Hosts -> 0..HostLimit]]
    BY <1>1, <1>3, <2>1 DEF TypeOK
  <2>3. runQueue' \in [Runs -> Seq(Tests)] /\ globalQueue' \in Seq(Runs \X Tests)
    BY <1>1, WithoutType DEF Release, TypeOK
  <2>4. hostQueue' \in [Runs -> [Hosts -> Seq(Tests)]]
    <3>1. Without(hostQueue[r][h], t) \in Seq(Tests)
      BY <1>1, WithoutType DEF TypeOK
    <3>2. hostQueue' = [hostQueue EXCEPT ![r][h] = Without(hostQueue[r][h], t)]
      BY DEF Release
    <3>3. QED
      BY <1>1, <3>1, <3>2 DEF TypeOK
  <2>5. stage' \in [Runs -> [Tests -> Stages]]
    BY <1>1, StageStep
  <2>6. QED
    BY <1>1, <2>1, <2>2, <2>3, <2>4, <2>5 DEF TypeOK
<1>7. QED
  BY <1>5, <1>6 DEF IInv

LEMMA NextInv ==
  ASSUME IInv, [Next]_vars
  PROVE  IInv'
<1>1. CASE UNCHANGED vars
  BY <1>1 DEF vars, runPermits, globalPermits, hostPermits, IInv, TypeOK, BudgetsInv,
              GlobalHolders, RunHolders, HostHolders
<1>2. ASSUME NEW r \in Runs, StartPhase(r)
      PROVE  IInv'
  BY <1>2, StartPhaseInv
<1>3. ASSUME NEW r \in Runs, NEW t \in Tests, TestStep(r, t) \/ TestFails(r, t)
      PROVE  IInv'
  <2>1. CASE TakeRunPermit(r, t)
    BY <2>1, TakeRunPermitInv
  <2>2. CASE TakeGlobalPermit(r, t)
    BY <2>2, TakeGlobalPermitInv
  <2>3. CASE TakeHostPermit(r, t)
    BY <2>3, TakeHostPermitInv
  <2>4. CASE TestEnds(r, t) \/ DropTest(r, t) \/ TestFails(r, t)
    <3>1. failing' \in [Runs -> BOOLEAN]
      BY <2>4 DEF TestEnds, DropTest, TestFails, IInv, TypeOK
    <3>2. QED
      BY <2>4, <3>1, ReleaseInv DEF TestEnds, DropTest, TestFails
  <2>5. QED
    BY <1>3, <2>1, <2>2, <2>3, <2>4 DEF TestStep
<1>4. CASE Shutdown
  BY <1>4 DEF Shutdown, runPermits, globalPermits, hostPermits, IInv, TypeOK, BudgetsInv,
              GlobalHolders, RunHolders, HostHolders
<1>5. CASE Drained
  BY <1>1, <1>5 DEF Drained
<1>6. QED
  BY <1>1, <1>2, <1>3, <1>4, <1>5 DEF Next

-----------------------------------------------------------------------------
(* Theorems                                                                *)

\* In every state each of the three budgets is made up of its free permits and
\* its holders.
THEOREM InvariantHolds == Spec => []IInv
<1>1. IInv /\ [Next]_vars => IInv'
  BY NextInv
<1>2. QED
  BY InitInv, <1>1, PTL DEF Spec

\* The queues hold tests, and no count of permits leaves its range: a permit is
\* never taken that is not free, nor given back twice.
THEOREM TypeCorrect == Spec => []TypeOK
<1>1. IInv => TypeOK
  BY DEF IInv
<1>2. QED
  BY InvariantHolds, <1>1, PTL

\* No budget gains or loses a permit, whether tests end, fail or are aborted
\* at any of their stages, however many runs, tests and hosts there are.
THEOREM PermitsConserved == Spec => []PermitsAreConserved
<1>1. IInv => PermitsAreConserved
  BY BudgetsConserve
<1>2. QED
  BY InvariantHolds, <1>1, PTL

\* Tests at work are within max_concurrent_tests over all runs, max_workers
\* within a run, and per_host_concurrency on a host of a run.
THEOREM TestsBounded == Spec => []TestsAreBounded
<1>1. ASSUME IInv
      PROVE  TestsAreBounded
  <2> USE LimitsArePositive
  <2>1. Executing \in SUBSET GlobalHolders
    BY DEF Executing, GlobalHolders, HoldsGlobal
  <2>2. Cardinality(Executing) <= GlobalLimit
    BY <1>1, <2>1, HoldersBounded DEF IInv, BudgetsInv
  <2>3. ASSUME NEW r \in Runs
        PROVE  /\ Cardinality({t \in Tests : stage[r][t] = "executing"}) <= RunLimit
               /\ \A h \in Hosts : Cardinality(HostHolders(r, h)) <= HostLimit
    <3>1. {t \in Tests : stage[r][t] = "executing"} \in SUBSET RunHolders(r)
      BY DEF RunHolders, HoldsRun
    <3>2. Cardinality({t \in Tests : stage[r][t] = "executing"}) <= RunLimit
      BY <1>1, <3>1, HoldersBounded DEF IInv, BudgetsInv
    <3>3. ASSUME NEW h \in Hosts
          PROVE  Cardinality(HostHolders(r, h)) <= HostLimit
      BY <1>1, HoldersBounded DEF IInv, BudgetsInv
    <3>4. QED
      BY <3>2, <3>3
  <2>4. QED
    BY <2>2, <2>3 DEF TestsAreBounded
<1>2. IInv => TestsAreBounded
  BY <1>1
<1>3. QED
  BY InvariantHolds, <1>2, PTL
=============================================================================
