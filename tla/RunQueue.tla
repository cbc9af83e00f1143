------------------------------ MODULE RunQueue ------------------------------
(***************************************************************************)
(* What the backend promises of its runs, whatever happens inside: a run   *)
(* is queued once, is finished only by an owner that claimed it from the   *)
(* queue, has at most one owner at a time, and goes back to the queue only *)
(* when it has lost its owner without having been finished.  An owner that *)
(* does not learn that it completed its run may still fail it; without an  *)
(* owner a finished run stays as it is.                                    *)
(***************************************************************************)
CONSTANT Runs

VARIABLES
  status,   \* absent, queued, active, completed or failed
  owned     \* the runs some task of the worker is working on

vars == <<status, owned>>

TypeOK ==
  /\ status \in [Runs -> {"absent", "queued", "active", "completed", "failed"}]
  /\ owned \in SUBSET Runs

Init ==
  /\ status = [r \in Runs |-> "absent"]
  /\ owned = {}

Submit(r) ==
  /\ status[r] = "absent"
  /\ status' = [status EXCEPT ![r] = "queued"]
  /\ UNCHANGED owned

\* The claimer owns the run, or fails before it can.
Claim(r) ==
  /\ status[r] = "queued"
  /\ status' = [status EXCEPT ![r] = "active"]
  /\ owned' \in {owned \union {r}, owned}

\* The owner completes its run, and may not learn of it.
Complete(r) ==
  /\ r \in owned /\ status[r] = "active"
  /\ status' = [status EXCEPT ![r] = "completed"]
  /\ owned' \in {owned \ {r}, owned}

Fail(r) ==
  /\ r \in owned /\ status[r] \in {"active", "completed"}
  /\ status' = [status EXCEPT ![r] = "failed"]
  /\ owned' = owned \ {r}

\* Owners give their runs up, or die.
Lose ==
  /\ \E lost \in SUBSET owned : owned' = owned \ lost
  /\ UNCHANGED status

Requeue(r) ==
  /\ r \notin owned /\ status[r] = "active"
  /\ status' = [status EXCEPT ![r] = "queued"]
  /\ UNCHANGED owned

Next ==
  \/ \E r \in Runs : Submit(r) \/ Claim(r) \/ Complete(r) \/ Fail(r) \/ Requeue(r)
  \/ Lose

Spec == Init /\ [][Next]_vars
=============================================================================
