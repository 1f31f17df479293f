------------------------- MODULE ExecutionLifecycle -------------------------
(***************************************************************************)
(* What the execution service promises about one row of the `executions`   *)
(* table, without workers, leases, steps or transactions: the life of an   *)
(* execution as a user of the API sees it.  ExecutionQueue implements it.  *)
(***************************************************************************)
CONSTANTS Execution, None

VARIABLES
  status,          \* the status a reader of the row sees, "absent" before it
  cancelRequested, \* a user asked for cancellation
  replayOf         \* the failed execution this one replays, or None

vars == <<status, cancelRequested, replayOf>>

Idle == {"pending", "waiting_for_approval"}
Terminal == {"completed", "failed", "cancelled"}
Status == {"absent", "running"} \cup Idle \cup Terminal

Init ==
  /\ status = [e \in Execution |-> "absent"]
  /\ cancelRequested = [e \in Execution |-> FALSE]
  /\ replayOf = [e \in Execution |-> None]

Become(e, s) == status' = [status EXCEPT ![e] = s]

\* A trigger event was accepted.
Submit(e) ==
  /\ status[e] = "absent"
  /\ Become(e, "pending")
  /\ UNCHANGED <<cancelRequested, replayOf>>

Start(e) ==
  /\ status[e] = "pending"
  /\ Become(e, "running")
  /\ UNCHANGED <<cancelRequested, replayOf>>

\* A human is asked; nothing is handed over once cancellation is requested.
Suspend(e) ==
  /\ status[e] = "running" /\ ~cancelRequested[e]
  /\ Become(e, "waiting_for_approval")
  /\ UNCHANGED <<cancelRequested, replayOf>>

\* The human decided: the rest of the execution is queued again.
Resume(e) ==
  /\ status[e] = "waiting_for_approval"
  /\ Become(e, "pending")
  /\ UNCHANGED <<cancelRequested, replayOf>>

\* A cancellation request beats completion, and an execution that was never
\* asked to stop is never cancelled.
Finish(e) ==
  /\ status[e] = "running"
  /\ \E s \in IF cancelRequested[e] THEN {"cancelled", "failed"}
                                    ELSE {"completed", "failed"} : Become(e, s)
  /\ UNCHANGED <<cancelRequested, replayOf>>

RequestCancellation(e) ==
  /\ \/ status[e] = "running" /\ UNCHANGED status
     \/ status[e] \in Idle /\ Become(e, "cancelled")
  /\ cancelRequested' = [cancelRequested EXCEPT ![e] = TRUE]
  /\ UNCHANGED replayOf

\* A failed execution is replayed at most once, as a new pending execution.
Replay(e, r) ==
  /\ status[e] = "failed" /\ status[r] = "absent"
  /\ \A x \in Execution : replayOf[x] # e
  /\ Become(r, "pending")
  /\ replayOf' = [replayOf EXCEPT ![r] = e]
  /\ UNCHANGED cancelRequested

Next ==
  \E e \in Execution :
    \/ Submit(e) \/ Start(e) \/ Suspend(e) \/ Resume(e) \/ Finish(e)
    \/ RequestCancellation(e)
    \/ \E r \in Execution : Replay(e, r)

Spec == Init /\ [][Next]_vars
=============================================================================
