------------------------- MODULE PluginRunnerProofs -------------------------
(***************************************************************************)
(* Proofs about PluginRunner for inputs, pipes and outputs of every size:  *)
(* no child is left behind, and an interpreted result is whole.            *)
(***************************************************************************)
EXTENDS PluginRunner, TLAPS

-----------------------------------------------------------------------------
(* The inductive invariant                                                 *)

\* Nothing a stream was given is lost: it is captured or still in the pipe.
StreamsInv == \A s \in Streams : captured[s] + pipe[s] = written[s]

\* The readers are spawned when the input is written, and a reader at its end
\* has left nothing in a pipe that nobody can write to any more.
ReadersInv ==
  \A s \in Streams :
    /\ reader[s] # "none" => pc \notin {"spawn", "feed"}
    /\ reader[s] = "end" => pipe[s] = 0 /\ ~Writers

\* The child runs from its spawn until it exits or is killed, and from then on
\* only its helper may write.
ChildInv ==
  /\ pc = "spawn" => child = "none" /\ ~helper
  /\ pc \in {"collect"} \union Returned => child # "running"
  /\ success => child = "exited"

\* What Finish has seen when it interprets a result.
ResultInv ==
  /\ result # "none" => pc = "done"
  /\ result = "interpreted" => success /\ ~timedOut /\ Collected

IInv == TypeOK /\ StreamsInv /\ ReadersInv /\ ChildInv /\ ResultInv

-----------------------------------------------------------------------------
LEMMA InitInv == Init => IInv
<1> SUFFICES ASSUME Init PROVE IInv
  OBVIOUS
<1> USE PluginRunnerAssumption DEF Init
<1>1. TypeOK
  <2>1. /\ inputOpen \in BOOLEAN /\ success \in BOOLEAN
        /\ helper \in BOOLEAN /\ timedOut \in BOOLEAN
    BY Zenon
  <2>2. /\ unsent \in 0..Payload /\ input \in 0..PipeSize
        /\ pipe \in [Streams -> 0..PipeSize]
        /\ written \in [Streams -> 0..MaxOutput] /\ captured \in [Streams -> 0..MaxOutput]
        /\ reader \in [Streams -> {"none", "reading", "end"}]
    OBVIOUS
  <2>3. QED
    BY <2>1, <2>2 DEF TypeOK, Results, Returned
<1>2. StreamsInv /\ ReadersInv
  BY DEF StreamsInv, ReadersInv
<1>3. ChildInv /\ ResultInv
  BY DEF ChildInv, ResultInv, Returned
<1>4. QED
  BY <1>1, <1>2, <1>3 DEF IInv

\* The steps of the runner, its failures and the timeout.
LEMMA RunnerInv ==
  ASSUME IInv, RunnerStep \/ RunnerFailure \/ Timeout
  PROVE  IInv'
<1> USE PluginRunnerAssumption
         DEF plugin, toPlugin, processes, streams, Return, DropChild, Returned
<1>1. TypeOK'
  <2> USE DEF IInv, TypeOK, Results
  <2>1. CASE NotSpawned
    BY <2>1 DEF NotSpawned
  <2>2. CASE Spawn
    BY <2>2 DEF Spawn
  <2>3. CASE WriteInput
    BY <2>3 DEF WriteInput
  <2>4. CASE WriteInputFails
    BY <2>4 DEF WriteInputFails
  <2>5. CASE InputWritten
    BY <2>5 DEF InputWritten
  <2>6. CASE ChildEnds
    BY <2>6 DEF ChildEnds
  <2>11. CASE Timeout
    <3>1. timedOut' \in BOOLEAN
      BY <2>11, Zenon DEF Timeout
    <3>2. QED
      BY <2>11, <3>1 DEF Timeout
  <2>10. CASE Dropped
    BY <2>10 DEF Dropped
  <2>7. CASE KillChild \/ WaitFails
    BY <2>7 DEF KillChild, WaitFails
  <2>8. CASE Finish
    BY <2>8 DEF Finish
  <2>9. QED
    BY <2>1, <2>2, <2>3, <2>4, <2>5, <2>6, <2>7, <2>8, <2>10, <2>11 DEF RunnerStep, RunnerFailure
<1>2. StreamsInv'
  <2>1. UNCHANGED <<pipe, written, captured>>
    BY DEF RunnerStep, RunnerFailure, Timeout, NotSpawned, Spawn, WriteInput, WriteInputFails,
           InputWritten, ChildEnds, Dropped, KillChild, WaitFails, Finish
  <2>2. QED
    BY <2>1 DEF IInv, StreamsInv
<1>3. ReadersInv'
  <2> USE DEF IInv, ReadersInv, ChildInv, Writers
  <2>1. CASE NotSpawned \/ WriteInput \/ ChildEnds \/ Timeout \/ Finish
    BY <2>1 DEF NotSpawned, WriteInput, ChildEnds, Timeout, Finish
  <2>2. CASE Spawn
    BY <2>2 DEF Spawn, TypeOK
  <2>3. CASE WriteInputFails \/ Dropped
    BY <2>3 DEF WriteInputFails, Dropped
  <2>4. CASE InputWritten
    BY <2>4 DEF InputWritten
  <2>5. CASE KillChild \/ WaitFails
    BY <2>5 DEF KillChild, WaitFails
  <2>6. QED
    BY <2>1, <2>2, <2>3, <2>4, <2>5 DEF RunnerStep, RunnerFailure
<1>4. ChildInv'
  <2> USE DEF IInv, ChildInv
  <2>1. CASE NotSpawned \/ WriteInput \/ InputWritten \/ ChildEnds \/ Timeout \/ Finish
    BY <2>1 DEF NotSpawned, WriteInput, InputWritten, ChildEnds, Timeout, Finish
  <2>2. CASE Spawn
    BY <2>2 DEF Spawn
  <2>3. CASE WriteInputFails \/ Dropped \/ KillChild \/ WaitFails
    BY <2>3 DEF WriteInputFails, Dropped, KillChild, WaitFails
  <2>4. QED
    BY <2>1, <2>2, <2>3 DEF RunnerStep, RunnerFailure
<1>5. ResultInv'
  <2> USE DEF IInv, ResultInv, Collected
  <2>1. CASE Finish
    BY <2>1 DEF Finish
  <2>2. CASE NotSpawned \/ WriteInputFails \/ WaitFails
    BY <2>2 DEF NotSpawned, WriteInputFails, WaitFails
  <2>3. CASE Spawn \/ WriteInput \/ InputWritten \/ ChildEnds \/ Timeout \/ KillChild \/ Dropped
    BY <2>3 DEF Spawn, WriteInput, InputWritten, ChildEnds, Timeout, KillChild, Dropped
  <2>4. QED
    BY <2>1, <2>2, <2>3 DEF RunnerStep, RunnerFailure
<1>6. QED
  BY <1>1, <1>2, <1>3, <1>4, <1>5 DEF IInv

\* The steps of the tasks that read the output.
LEMMA ReaderInv ==
  ASSUME IInv, NEW s \in Streams, Read(s) \/ ReadEnd(s)
  PROVE  IInv'
<1> USE PluginRunnerAssumption DEF plugin, toPlugin, processes
<1>1. CASE Read(s)
  <2> USE <1>1 DEF Read
  <2>1. /\ pipe[s] \in 1..PipeSize /\ captured[s] \in 0..MaxOutput /\ written[s] \in 0..MaxOutput
        /\ captured[s] + pipe[s] = written[s]
    BY DEF IInv, TypeOK, StreamsInv
  <2>2. pipe[s] - 1 \in 0..PipeSize /\ captured[s] + 1 \in 0..MaxOutput
    BY <2>1
  <2>3. TypeOK'
    BY <2>2 DEF IInv, TypeOK
  <2>4. StreamsInv'
    BY <2>1 DEF IInv, TypeOK, StreamsInv
  <2>5. ReadersInv'
    BY DEF IInv, TypeOK, ReadersInv, Writers
  <2>6. ChildInv' /\ ResultInv'
    BY DEF IInv, ChildInv, ResultInv, Collected
  <2>7. QED
    BY <2>3, <2>4, <2>5, <2>6 DEF IInv
<1>2. CASE ReadEnd(s)
  <2> USE <1>2 DEF ReadEnd
  <2>1. TypeOK'
    BY DEF IInv, TypeOK
  <2>2. StreamsInv'
    BY DEF IInv, StreamsInv
  <2>3. ReadersInv'
    BY DEF IInv, TypeOK, ReadersInv, Writers
  <2>4. ChildInv' /\ ResultInv'
    BY DEF IInv, TypeOK, ChildInv, ResultInv, Collected
  <2>5. QED
    BY <2>1, <2>2, <2>3, <2>4 DEF IInv
<1>3. QED
  BY <1>1, <1>2

\* The steps of the plugin and its helper.
LEMMA PluginInv ==
  ASSUME IInv, PluginStep
  PROVE  IInv'
<1> USE PluginRunnerAssumption DEF plugin, toPlugin, processes, streams
<1>1. CASE ReadInput \/ CloseInput
  <2> USE <1>1 DEF ReadInput, CloseInput
  <2>1. TypeOK'
    <3>1. inputOpen' \in BOOLEAN
      BY Zenon DEF IInv, TypeOK
    <3>2. input' \in 0..PipeSize
      BY DEF IInv, TypeOK
    <3>3. QED
      BY <3>1, <3>2 DEF IInv, TypeOK
  <2>2. StreamsInv' /\ ReadersInv' /\ ChildInv' /\ ResultInv'
    BY DEF IInv, StreamsInv, ReadersInv, Writers, ChildInv, ResultInv, Collected
  <2>3. QED
    BY <2>1, <2>2 DEF IInv
<1>2. ASSUME NEW s \in Streams, WriteOutput(s)
      PROVE  IInv'
  <2> USE <1>2 DEF WriteOutput
  <2>1. TypeOK'
    BY DEF IInv, TypeOK
  <2>2. StreamsInv'
    BY DEF IInv, TypeOK, StreamsInv
  <2>3. ReadersInv'
    BY DEF IInv, TypeOK, ReadersInv, Writers, MayWork
  <2>4. ChildInv' /\ ResultInv'
    BY DEF IInv, ChildInv, ResultInv, Collected
  <2>5. QED
    BY <2>1, <2>2, <2>3, <2>4 DEF IInv
<1>3. CASE StartHelper \/ HelperEnds
  <2> USE <1>3 DEF StartHelper, HelperEnds, MayWork
  <2>1. TypeOK'
    BY DEF IInv, TypeOK
  <2>2. StreamsInv' /\ ReadersInv'
    BY DEF IInv, StreamsInv, ReadersInv, Writers
  <2>3. ChildInv' /\ ResultInv'
    BY DEF IInv, ChildInv, ResultInv, Collected
  <2>4. QED
    BY <2>1, <2>2, <2>3 DEF IInv
<1>4. CASE Exit
  <2> USE <1>4 DEF Exit
  <2>1. MayWork \in BOOLEAN
    BY DEF MayWork
  <2>2. TypeOK'
    BY <2>1 DEF IInv, TypeOK
  <2>3. StreamsInv' /\ ReadersInv'
    BY DEF IInv, StreamsInv, ReadersInv, Writers
  <2>4. ChildInv' /\ ResultInv'
    BY DEF IInv, ChildInv, ResultInv, Collected
  <2>5. QED
    BY <2>2, <2>3, <2>4 DEF IInv
<1>5. QED
  BY <1>1, <1>2, <1>3, <1>4 DEF PluginStep

LEMMA NextInv ==
  ASSUME IInv, [Next]_vars
  PROVE  IInv'
<1>1. CASE UNCHANGED vars
  BY <1>1 DEF vars, plugin, toPlugin, processes, streams, IInv, TypeOK, StreamsInv, ReadersInv,
              Writers, ChildInv, ResultInv, Collected
<1>2. QED
  BY <1>1, RunnerInv, ReaderInv, PluginInv DEF Next

-----------------------------------------------------------------------------
(* Theorems                                                                *)

\* In every state the streams' accounts balance, and the control point tells
\* what has become of the child and the readers.
THEOREM InvariantHolds == Spec => []IInv
<1>1. IInv /\ [Next]_vars => IInv'
  BY NextInv
<1>2. QED
  BY InitInv, <1>1, PTL DEF Spec

\* No pipe holds more than it can, and no reader captures more than was ever
\* written.
THEOREM TypeCorrect == Spec => []TypeOK
<1>1. IInv => TypeOK
  BY DEF IInv
<1>2. QED
  BY InvariantHolds, <1>1, PTL

\* Whichever way execute ends, or is dropped, the plugin's process is gone.
THEOREM NoChildLeft == Spec => []ChildrenAreNotLeft
<1>1. IInv => ChildrenAreNotLeft
  BY DEF IInv, ChildInv, ChildrenAreNotLeft
<1>2. QED
  BY InvariantHolds, <1>1, PTL

\* An interpreted result is that of a plugin that ended in time and with
\* success, and nothing that it or its helper wrote is missing.
THEOREM ResultsWhole == Spec => []InterpretedResultsAreWhole
<1>1. ASSUME IInv, result = "interpreted"
      PROVE  /\ child = "exited" /\ success /\ ~timedOut
             /\ \A s \in Streams : captured[s] = written[s]
  <2>1. child = "exited" /\ success /\ ~timedOut
    BY <1>1 DEF IInv, ResultInv, ChildInv
  <2>2. ASSUME NEW s \in Streams
        PROVE  captured[s] = written[s]
    <3>1. pipe[s] = 0 /\ captured[s] + pipe[s] = written[s] /\ captured[s] \in 0..MaxOutput
      BY <1>1 DEF IInv, ResultInv, Collected, ReadersInv, StreamsInv, TypeOK
    <3>2. QED
      BY <3>1, PluginRunnerAssumption
  <2>3. QED
    BY <2>1, <2>2
<1>2. IInv => InterpretedResultsAreWhole
  BY <1>1 DEF InterpretedResultsAreWhole
<1>3. QED
  BY InvariantHolds, <1>2, PTL
=============================================================================
