---------------------------- MODULE PluginRunner ----------------------------
(***************************************************************************)
(* The execution of one plugin (Runner::execute of runner.rs): the runner  *)
(* spawns a child process, writes the test's input to its standard input,  *)
(* waits for it within the timeout of its manifest, kills it when it is    *)
(* late, collects its two output streams and interprets the result.        *)
(*                                                                         *)
(* Pipes hold PipeSize units.  The plugin is an external process: it may   *)
(* read its input or not, write, exit, fail, or leave a helper process     *)
(* that has inherited its pipes.                                           *)
(***************************************************************************)
EXTENDS Integers

CONSTANTS
  Payload,    \* units of the serialized TestInput
  PipeSize,   \* units a pipe holds
  MaxOutput   \* bound: units written to each output stream

ASSUME PluginRunnerAssumption ==
  /\ Payload \in Nat
  /\ PipeSize \in Nat \ {0}
  /\ MaxOutput \in Nat

Streams == {"stdout", "stderr"}

VARIABLES
  readsFirst,  \* the plugin reads its whole input before it does anything else
  forks,       \* the plugin may start a helper process
  pc,          \* control point of execute
  unsent,      \* units of input not yet written
  input,       \* units in the pipe to the plugin
  inputOpen,   \* the plugin has not closed its standard input
  child,       \* the plugin's process
  success,     \* it exited with status 0
  helper,      \* a process that has inherited the plugin's pipes is alive
  pipe,        \* units in the pipe of each stream
  written,     \* units ever written to each stream
  reader,      \* the task that reads each stream to its end
  captured,    \* units each reader has read
  timedOut,    \* the timeout of the wait has elapsed
  result       \* what execute returned

plugin == <<readsFirst, forks>>
toPlugin == <<unsent, input, inputOpen>>
processes == <<child, success, helper>>
streams == <<pipe, written, reader, captured>>
vars == <<plugin, pc, toPlugin, processes, streams, timedOut, result>>

Returned == {"done", "dropped"}
Results == {"none", "notStarted", "spawnFailed", "inputFailed", "waitFailed",
            "timedOut", "exitFailed", "interpreted"}

Init ==
  /\ readsFirst \in BOOLEAN
  /\ forks \in BOOLEAN
  /\ pc = "spawn"
  /\ unsent = Payload
  /\ input = 0
  /\ inputOpen = TRUE
  /\ child = "none"
  /\ success = FALSE
  /\ helper = FALSE
  /\ pipe = [s \in Streams |-> 0]
  /\ written = [s \in Streams |-> 0]
  /\ reader = [s \in Streams |-> "none"]
  /\ captured = [s \in Streams |-> 0]
  /\ timedOut = FALSE
  /\ result = "none"

Writers == child = "running" \/ helper
InputReadable == inputOpen /\ Writers

-----------------------------------------------------------------------------
\* The runner.

Return(outcome) == pc' = "done" /\ result' = outcome

\* Mutant: a command without kill_on_drop.
LeaveChild == UNCHANGED child

\* kill_on_drop: a child that is dropped while it runs is killed.
DropChild == child' = IF child = "running" THEN "killed" ELSE child

\* No entrypoint or an unsupported runtime; or the spawn fails.
NotSpawned ==
  /\ pc = "spawn"
  /\ \E outcome \in {"notStarted", "spawnFailed"} : Return(outcome)
  /\ UNCHANGED <<plugin, toPlugin, processes, streams, timedOut>>

Spawn ==
  /\ pc = "spawn"
  /\ pc' = "feed"
  /\ child' = "running"
  /\ UNCHANGED <<plugin, toPlugin, success, helper, streams, timedOut, result>>

\* Mutant: an input that is written at once, whether the pipe has room or not.
WriteInputAtOnce ==
  /\ pc = "feed" /\ unsent > 0
  /\ InputReadable
  /\ input' = input + unsent
  /\ unsent' = 0
  /\ UNCHANGED <<plugin, pc, inputOpen, processes, streams, timedOut, result>>

\* write_all, a unit at a time.
WriteInput ==
  /\ pc = "feed" /\ unsent > 0
  /\ InputReadable /\ input < PipeSize
  /\ input' = input + 1
  /\ unsent' = unsent - 1
  /\ UNCHANGED <<plugin, pc, inputOpen, processes, streams, timedOut, result>>

\* Nobody can read the pipe any more: the write fails.
WriteInputFails ==
  /\ pc = "feed" /\ unsent > 0 /\ ~InputReadable
  /\ Return("inputFailed")
  /\ DropChild
  /\ UNCHANGED <<plugin, toPlugin, success, helper, streams, timedOut>>

\* The standard input is closed, and the readers are spawned.
InputWritten ==
  /\ pc = "feed" /\ unsent = 0
  /\ pc' = "wait"
  /\ reader' = [s \in Streams |-> "reading"]
  /\ UNCHANGED <<plugin, toPlugin, processes, pipe, written, captured, timedOut, result>>

ChildEnds ==
  /\ pc = "wait" /\ child = "exited"
  /\ pc' = "collect"
  /\ UNCHANGED <<plugin, toPlugin, processes, streams, timedOut, result>>

\* The timeout elapses; the child may have exited unnoticed.
Timeout ==
  /\ pc = "wait"
  /\ pc' = "kill"
  /\ timedOut' = TRUE
  /\ UNCHANGED <<plugin, toPlugin, processes, streams, result>>

\* Mutant: the late child is only waited for.
AwaitChild ==
  /\ pc = "kill" /\ child # "running"
  /\ pc' = "collect"
  /\ UNCHANGED <<plugin, toPlugin, processes, streams, timedOut, result>>

\* The late child is killed and reaped; its helpers are not.
KillChild ==
  /\ pc = "kill"
  /\ pc' = "collect"
  /\ child' = IF child = "running" THEN "killed" ELSE child
  /\ UNCHANGED <<plugin, toPlugin, success, helper, streams, timedOut, result>>

\* An error of the operating system while waiting or reaping.
WaitFails ==
  /\ pc \in {"wait", "kill"}
  /\ Return("waitFailed")
  /\ DropChild
  /\ UNCHANGED <<plugin, toPlugin, success, helper, streams, timedOut>>

\* The reader tasks; they go on when execute is dropped.
Read(s) ==
  /\ reader[s] = "reading" /\ pipe[s] > 0
  /\ pipe' = [pipe EXCEPT ![s] = pipe[s] - 1]
  /\ captured' = [captured EXCEPT ![s] = captured[s] + 1]
  /\ UNCHANGED <<plugin, pc, toPlugin, processes, written, reader, timedOut, result>>

ReadEnd(s) ==
  /\ reader[s] = "reading" /\ pipe[s] = 0 /\ ~Writers
  /\ reader' = [reader EXCEPT ![s] = "end"]
  /\ UNCHANGED <<plugin, pc, toPlugin, processes, pipe, written, captured, timedOut, result>>

\* Mutant: one stream is not waited for.
StdoutCollected == reader["stdout"] = "end"

Collected == \A s \in Streams : reader[s] = "end"

\* With both streams at their end the result is decided.
Finish ==
  /\ pc = "collect" /\ Collected
  /\ Return(IF timedOut THEN "timedOut" ELSE IF success THEN "interpreted" ELSE "exitFailed")
  /\ UNCHANGED <<plugin, toPlugin, processes, streams, timedOut>>

\* The test task is aborted, and execute is dropped at whatever it awaits.
Dropped ==
  /\ pc \notin {"spawn"} \union Returned
  /\ pc' = "dropped"
  /\ DropChild
  /\ UNCHANGED <<plugin, toPlugin, success, helper, streams, timedOut, result>>

-----------------------------------------------------------------------------
\* The plugin's process and its helper.

InputAtEnd == pc # "feed" /\ input = 0
MayWork == child = "running" /\ (readsFirst => InputAtEnd)

ReadInput ==
  /\ child = "running" /\ inputOpen /\ input > 0
  /\ input' = input - 1
  /\ UNCHANGED <<plugin, pc, unsent, inputOpen, processes, streams, timedOut, result>>

CloseInput ==
  /\ MayWork /\ inputOpen
  /\ inputOpen' = FALSE
  /\ UNCHANGED <<plugin, pc, unsent, input, processes, streams, timedOut, result>>

WriteOutput(s) ==
  /\ MayWork \/ helper
  /\ pipe[s] < PipeSize /\ written[s] < MaxOutput
  /\ pipe' = [pipe EXCEPT ![s] = pipe[s] + 1]
  /\ written' = [written EXCEPT ![s] = written[s] + 1]
  /\ UNCHANGED <<plugin, pc, toPlugin, processes, reader, captured, timedOut, result>>

StartHelper ==
  /\ MayWork /\ forks /\ ~helper
  /\ helper' = TRUE
  /\ UNCHANGED <<plugin, pc, toPlugin, child, success, streams, timedOut, result>>

HelperEnds ==
  /\ helper
  /\ helper' = FALSE
  /\ UNCHANGED <<plugin, pc, toPlugin, child, success, streams, timedOut, result>>

\* The plugin exits, or crashes at any moment.
Exit ==
  /\ child = "running"
  /\ child' = "exited"
  /\ success' \in {MayWork, FALSE}
  /\ UNCHANGED <<plugin, pc, toPlugin, helper, streams, timedOut, result>>

-----------------------------------------------------------------------------
RunnerStep ==
  \/ Spawn
  \/ WriteInput
  \/ WriteInputFails
  \/ InputWritten
  \/ ChildEnds
  \/ KillChild
  \/ Finish

RunnerFailure ==
  \/ NotSpawned
  \/ WaitFails
  \/ Dropped

PluginStep ==
  \/ ReadInput
  \/ CloseInput
  \/ \E s \in Streams : WriteOutput(s)
  \/ StartHelper
  \/ HelperEnds
  \/ Exit

Next ==
  \/ RunnerStep
  \/ RunnerFailure
  \/ Timeout
  \/ \E s \in Streams : Read(s) \/ ReadEnd(s)
  \/ PluginStep

Spec == Init /\ [][Next]_vars

\* The runtime polls the runner and the readers, and the timer elapses.  Of
\* plugins only those that read their input first are known to read it.
Fairness ==
  /\ WF_vars(RunnerStep)
  /\ WF_vars(Timeout)
  /\ \A s \in Streams : WF_vars(Read(s) \/ ReadEnd(s))
  /\ WF_vars(readsFirst /\ ReadInput)

FairSpec == Spec /\ Fairness

-----------------------------------------------------------------------------
\* The variables have their types.
TypeOK ==
  /\ readsFirst \in BOOLEAN /\ forks \in BOOLEAN
  /\ pc \in {"spawn", "feed", "wait", "kill", "collect"} \union Returned
  /\ unsent \in 0..Payload /\ input \in 0..PipeSize /\ inputOpen \in BOOLEAN
  /\ child \in {"none", "running", "exited", "killed"}
  /\ success \in BOOLEAN /\ helper \in BOOLEAN
  /\ pipe \in [Streams -> 0..PipeSize]
  /\ written \in [Streams -> 0..MaxOutput]
  /\ captured \in [Streams -> 0..MaxOutput]
  /\ reader \in [Streams -> {"none", "reading", "end"}]
  /\ timedOut \in BOOLEAN
  /\ result \in Results

\* When execute has returned, or was dropped wherever it waited, the plugin's
\* own process is gone.
ChildrenAreNotLeft == pc \in Returned => child # "running"

\* A result is interpreted only when the plugin ended by itself, with success,
\* and everything that was written to both of its streams has been captured,
\* by whichever process and however full the pipes were.
InterpretedResultsAreWhole ==
  result = "interpreted" =>
    /\ child = "exited" /\ success /\ ~timedOut
    /\ \A s \in Streams : captured[s] = written[s]

\* The execution of a plugin that reads its input first and starts no helper
\* ends, however long the plugin runs and however much it writes.
ExecutionsEnd == (pc = "feed" /\ readsFirst /\ ~forks) ~> (pc \in Returned)

\* "honoring per-test timeouts" (runner.rs:5): a spawned plugin's execution
\* ends whatever the plugin does.
TimeoutsAreHonored == (pc = "feed") ~> (pc \in Returned)
=============================================================================
