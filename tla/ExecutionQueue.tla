--------------------------- MODULE ExecutionQueue ---------------------------
(***************************************************************************)
(* The durable execution queue of execution-service: the rows of           *)
(* `executions`, `execution_steps`, `human_approvals` and                  *)
(* `dead_letter_events`, the workers that claim and run executions, the    *)
(* expiry of their leases, and the requests users make meanwhile.  Every   *)
(* action is one database transaction (PostgreSQL, READ COMMITTED: an      *)
(* UPDATE ... WHERE and a SELECT ... FOR UPDATE act on the latest row) or  *)
(* one call of an external service.                                        *)
(*                                                                         *)
(* A Worker is one call of execute_pending_execution, whose id is a fresh  *)
(* uuid, so a worker never claims twice.  The values nodes compute are     *)
(* abstracted to the set of nodes whose output a context holds.            *)
(***************************************************************************)
EXTENDS Integers, Sequences, FiniteSets

CONSTANTS
  Execution, Worker, Node,
  None,        \* SQL NULL: no owner, no node, no execution
  NoResume,    \* the context has no `_resume` key
  Trigger,     \* the node a fresh execution starts from
  Kind,        \* Kind[n]: what the engine does at node n
  Successor,   \* Successor[n][b]: the node the edge of n labelled b leads to
  Fault        \* the partial failures of a commit this instance allows

NodeKind == {"trigger", "condition", "ai", "safe_action", "unsafe_action",
             "approval"}
Branch == {"next", "true", "false", "approved", "rejected"}

(* "ack_lost": a commit took effect but the caller sees an exception;      *)
(* "mark_failed_lost", "save_context_lost": the commit of mark_step_failed *)
(* or of the failure context is rolled back.  Any other rolled back commit *)
(* is the action Raise, always possible.                                   *)
FaultKind == {"ack_lost", "mark_failed_lost", "save_context_lost"}

ASSUME QueueAssumption ==
  /\ None \notin Execution \cup Worker \cup Node
  /\ NoResume \notin Node \cup {None}
  /\ Trigger \in Node
  /\ Kind \in [Node -> NodeKind]
  /\ Successor \in [Node -> [Branch -> Node \cup {None}]]
  /\ Fault \subseteq FaultKind

VARIABLES
  \* executions
  status, claimedBy, lease, cancelRequested, interrupted,
  context, replayOf, replayStart,
  \* execution_steps with the human_approvals row of each, dead_letter_events
  steps, deadLetters,
  \* the workers: where each is, its execution, node and step, the outputs its
  \* in-memory context holds and the status it wants to finalize with
  pc, job, at, step, outputs, outcome,
  \* history: how often an unsafe provider call was made
  effects

rowVars == <<status, claimedBy, lease, cancelRequested, interrupted,
             context, replayOf, replayStart>>
localVars == <<job, at, step, outputs, outcome>>
vars == <<rowVars, steps, deadLetters, pc, localVars, effects>>

Status == {"absent", "pending", "running", "waiting_for_approval",
           "completed", "failed", "cancelled"}
StepStatus == {"pending", "running", "waiting_for_approval", "completed",
               "failed", "cancelled"}
ApprovalStatus == {"none", "pending", "approved", "rejected", "cancelled"}

Step == [node : Node, status : StepStatus, approval : ApprovalStatus]
Context == [saved : BOOLEAN, outputs : SUBSET Node,
            resume : Node \cup {None, NoResume}]
DeadLetter == [step : Nat, status : {"pending", "replayed", "resolved"}]

\* Inside the node loop of run_execution.
Looping == {"check", "create", "start", "invoke", "record", "handoff"}
\* In its except clause, then in finalize_execution.
Ending == {"mark_failed", "save_context", "finalize"}
ProgramCounter == {"idle", "load", "done"} \cup Looping \cup Ending

ExecutionsTypeOK ==
  /\ status \in [Execution -> Status]
  /\ claimedBy \in [Execution -> Worker \cup {None}]
  /\ lease \in [Execution -> {"none", "live", "expired"}]
  /\ cancelRequested \in [Execution -> BOOLEAN]
  /\ interrupted \in [Execution -> BOOLEAN]
  /\ context \in [Execution -> Context]
  /\ replayOf \in [Execution -> Execution \cup {None}]
  /\ replayStart \in [Execution -> Node \cup {None}]

RecordsTypeOK ==
  /\ steps \in [Execution -> Seq(Step)]
  /\ deadLetters \in [Execution -> Seq(DeadLetter)]
  /\ effects \in [Execution -> [Node -> Nat]]

WorkersTypeOK ==
  /\ pc \in [Worker -> ProgramCounter]
  /\ job \in [Worker -> Execution \cup {None}]
  /\ at \in [Worker -> Node \cup {None}]
  /\ step \in [Worker -> Nat]
  /\ outputs \in [Worker -> SUBSET Node]
  /\ outcome \in [Worker -> {"none", "completed", "failed", "cancelled",
                             "abandoned"}]

TypeOK == ExecutionsTypeOK /\ RecordsTypeOK /\ WorkersTypeOK

EmptyContext == [saved |-> FALSE, outputs |-> {}, resume |-> NoResume]

Init ==
  /\ status = [e \in Execution |-> "absent"]
  /\ claimedBy = [e \in Execution |-> None]
  /\ lease = [e \in Execution |-> "none"]
  /\ cancelRequested = [e \in Execution |-> FALSE]
  /\ interrupted = [e \in Execution |-> FALSE]
  /\ context = [e \in Execution |-> EmptyContext]
  /\ replayOf = [e \in Execution |-> None]
  /\ replayStart = [e \in Execution |-> None]
  /\ steps = [e \in Execution |-> <<>>]
  /\ deadLetters = [e \in Execution |-> <<>>]
  /\ pc = [w \in Worker |-> "idle"]
  /\ job = [w \in Worker |-> None]
  /\ at = [w \in Worker |-> None]
  /\ step = [w \in Worker |-> 0]
  /\ outputs = [w \in Worker |-> {}]
  /\ outcome = [w \in Worker |-> "none"]
  /\ effects = [e \in Execution |-> [n \in Node |-> 0]]
-----------------------------------------------------------------------------
(* The workflow graph.                                                     *)

Targets(n) == {Successor[n][b] : b \in Branch} \ {None}

\* The nodes a path from n leads to: the least set closed under the edges.
Downstream(n) ==
  {m \in Node : \A S \in SUBSET Node :
     (Targets(n) \subseteq S /\ \A k \in S : Targets(k) \subseteq S) => m \in S}

IsAction(n) == Kind[n] \in {"safe_action", "unsafe_action"}

\* Mutant: the operation itself is not examined, only the graph behind it.
SafeToReplayAnyNode(n) == Kind[n] # "approval"

\* The operations a replay may start with.
SafeToReplay(n) == Kind[n] \in {"ai", "condition", "safe_action"}
-----------------------------------------------------------------------------
(* Updates the transactions share.                                         *)

\* The row stops being claimed.
Release(e) ==
  /\ claimedBy' = [claimedBy EXCEPT ![e] = None]
  /\ lease' = [lease EXCEPT ![e] = "none"]

\* Mutant: running steps are forgotten.
CloseStepsNotRunning(e, open, s) ==
  [i \in DOMAIN steps[e] |->
     IF steps[e][i].status \in open \ {"running"}
       THEN [steps[e][i] EXCEPT !.status = s] ELSE steps[e][i]]

\* The steps of e whose status is in `open` get status s.
CloseSteps(e, open, s) ==
  [i \in DOMAIN steps[e] |->
     IF steps[e][i].status \in open
       THEN [steps[e][i] EXCEPT !.status = s] ELSE steps[e][i]]

\* Mutant: the approval is left pending.
CancelApprovalsForgotten(ss) == ss

\* Pending approvals of these steps become cancelled.
CancelApprovals(ss) ==
  [i \in DOMAIN ss |->
     IF ss[i].approval = "pending"
       THEN [ss[i] EXCEPT !.approval = "cancelled"] ELSE ss[i]]

GoTo(w, label) == pc' = [pc EXCEPT ![w] = label]

\* A commit that took effect: the worker goes on, or an exception takes it to
\* the except clause of run_execution.
Committed(w, label) ==
  \/ GoTo(w, label)
  \/ "ack_lost" \in Fault /\ GoTo(w, "mark_failed")
-----------------------------------------------------------------------------
(* Kafka ingestion and the dispatcher.                                     *)

CreatePending(e) ==
  /\ status[e] = "absent"
  /\ status' = [status EXCEPT ![e] = "pending"]
  /\ UNCHANGED <<claimedBy, lease, cancelRequested, interrupted, context,
                 replayOf, replayStart, steps, deadLetters, pc, localVars,
                 effects>>

\* Mutant: a worker takes over an expired lease.
ClaimableIfExpired(e) ==
  status[e] = "pending" \/ (status[e] = "running" /\ lease[e] = "expired")

\* Mutant: a failed execution is run again in place.
ClaimableIfFailed(e) == status[e] \in {"pending", "failed"}

Claimable(e) == status[e] = "pending"

ClaimPending(w, e) ==
  /\ pc[w] = "idle" /\ Claimable(e)
  /\ status' = [status EXCEPT ![e] = "running"]
  /\ claimedBy' = [claimedBy EXCEPT ![e] = w]
  /\ lease' = [lease EXCEPT ![e] = "live"]
  /\ job' = [job EXCEPT ![w] = e]
  /\ GoTo(w, "load")
  /\ UNCHANGED <<cancelRequested, interrupted, context, replayOf, replayStart,
                 steps, deadLetters, at, step, outputs, outcome, effects>>

\* No heartbeat reached the database for LEASE_SECONDS.  An expired lease
\* cannot be renewed, and a renewal of a live one changes nothing seen here.
LeaseExpires(e) ==
  /\ status[e] = "running" /\ lease[e] = "live"
  /\ lease' = [lease EXCEPT ![e] = "expired"]
  /\ UNCHANGED <<status, claimedBy, cancelRequested, interrupted, context,
                 replayOf, replayStart, steps, deadLetters, pc, localVars,
                 effects>>

\* Mutant: cleanup leaves executions alone whose cancellation was requested.
ExpiredNotCancelling(e) ==
  status[e] = "running" /\ lease[e] = "expired" /\ ~cancelRequested[e]

Expired(e) == status[e] = "running" /\ lease[e] = "expired"

CleanupExpired(e) ==
  /\ Expired(e)
  /\ status' = [status EXCEPT ![e] = "failed"]
  /\ interrupted' = [interrupted EXCEPT ![e] = TRUE]
  /\ Release(e)
  /\ steps' = [steps EXCEPT ![e] = CloseSteps(e, {"pending", "running"}, "failed")]
  /\ UNCHANGED <<cancelRequested, context, replayOf, replayStart, deadLetters,
                 pc, localVars, effects>>
-----------------------------------------------------------------------------
(* The worker.                                                             *)

Resuming(e) == context[e].resume # NoResume

\* Mutant: the absence of a checkpoint is not told from a checkpoint.
StartNodeUnchecked(e) ==
  IF replayStart[e] # None THEN replayStart[e] ELSE context[e].resume

\* Mutant: the resume checkpoint is not looked at.
StartNodeWithoutCheckpoint(e) ==
  IF replayStart[e] # None THEN replayStart[e] ELSE Trigger

\* Mutant: a replay starts from the trigger.
StartNodeWithoutReplay(e) ==
  IF Resuming(e) THEN context[e].resume ELSE Trigger

\* Where execute_pending_execution starts: after the approval, else at the
\* replayed node, else at the trigger.
StartNode(e) ==
  IF Resuming(e) THEN context[e].resume
  ELSE IF replayStart[e] # None THEN replayStart[e] ELSE Trigger

\* Mutant: a resumed execution starts from an empty context.
StartOutputsOfReplayOnly(e) ==
  IF replayStart[e] # None THEN context[e].outputs ELSE {}

\* The in-memory context it starts with.
StartOutputs(e) ==
  IF Resuming(e) \/ replayStart[e] # None THEN context[e].outputs ELSE {}

LoadExecution(w) ==
  LET e == job[w] IN
  /\ pc[w] = "load"
  /\ \/ /\ claimedBy[e] # w
        /\ GoTo(w, "done")
        /\ UNCHANGED localVars
     \/ /\ claimedBy[e] = w
        /\ outputs' = [outputs EXCEPT ![w] = StartOutputs(e)]
        /\ at' = [at EXCEPT ![w] = StartNode(e)]
        /\ \/ /\ StartNode(e) = None
              /\ outcome' = [outcome EXCEPT ![w] = "completed"]
              /\ GoTo(w, "finalize")
           \/ /\ StartNode(e) # None
              /\ GoTo(w, "check")
              /\ UNCHANGED outcome
           \/ \* the workflow definition cannot be fetched
              /\ StartNode(e) # None
              /\ outcome' = [outcome EXCEPT ![w] = "failed"]
              /\ GoTo(w, "finalize")
        /\ UNCHANGED <<job, step>>
  /\ UNCHANGED <<rowVars, steps, deadLetters, effects>>

CheckCancellation(w) ==
  LET e == job[w]
      stop == status[e] = "running" /\ cancelRequested[e] IN
  /\ pc[w] = "check"
  /\ outcome' = [outcome EXCEPT ![w] = IF stop THEN "cancelled" ELSE "none"]
  /\ GoTo(w, IF stop THEN "finalize" ELSE "create")
  /\ UNCHANGED <<rowVars, steps, deadLetters, job, at, step, outputs, effects>>

\* `sequence` counts on from max(sequence) + 1; no other worker appends steps
\* meanwhile (SingleRunner), so it is the position in steps[e].
CreateStep(w) ==
  LET e == job[w] IN
  /\ pc[w] = "create"
  /\ steps' = [steps EXCEPT ![e] =
       Append(@, [node |-> at[w], status |-> "pending", approval |-> "none"])]
  /\ step' = [step EXCEPT ![w] = Len(steps[e]) + 1]
  /\ Committed(w, "start")
  /\ UNCHANGED <<rowVars, deadLetters, job, at, outputs, outcome, effects>>

SetStep(w, s) ==
  steps' = [steps EXCEPT ![job[w]][step[w]].status = s]

StartStep(w) ==
  /\ pc[w] = "start"
  /\ SetStep(w, "running")
  /\ Committed(w, IF Kind[at[w]] = "approval" THEN "handoff" ELSE "invoke")
  /\ UNCHANGED <<rowVars, deadLetters, localVars, effects>>

\* What the node does outside the database; unsafe operations get one attempt.
CallProvider(w) ==
  effects' = IF Kind[at[w]] = "unsafe_action"
               THEN [effects EXCEPT ![job[w]][at[w]] = @ + 1] ELSE effects

InvokeNode(w) ==
  /\ pc[w] = "invoke"
  /\ CallProvider(w)
  /\ outputs' = [outputs EXCEPT ![w] =
       IF Kind[at[w]] = "trigger" THEN @ ELSE @ \cup {at[w]}]
  /\ GoTo(w, "record")
  /\ UNCHANGED <<rowVars, steps, deadLetters, job, at, step, outcome>>

\* The provider was called and answers with an error, or not in time.
InvokeFails(w) ==
  /\ pc[w] = "invoke"
  /\ CallProvider(w)
  /\ GoTo(w, "mark_failed")
  /\ UNCHANGED <<rowVars, steps, deadLetters, localVars>>

\* The step is completed whatever its status is by now.
RecordCompleted(w) ==
  /\ pc[w] = "record"
  /\ SetStep(w, "completed")
  /\ \E b \in IF Kind[at[w]] = "condition" THEN {"true", "false"} ELSE {"next"} :
       LET next == Successor[at[w]][b] IN
       \/ /\ next # None
          /\ at' = [at EXCEPT ![w] = next]
          /\ Committed(w, "check")
          /\ UNCHANGED outcome
       \/ /\ next = None /\ Kind[at[w]] # "condition"
          /\ outcome' = [outcome EXCEPT ![w] = "completed"]
          /\ Committed(w, "finalize")
          /\ UNCHANGED at
  /\ UNCHANGED <<rowVars, deadLetters, job, step, outputs, effects>>

\* The claim itself is not compared, only the status and the lease.
HandoffAllowed(e) == status[e] = "running" /\ lease[e] # "expired"

\* The execution waits, its step waits, and the approval exists: one commit.
ApprovalHandoff(w) ==
  LET e == job[w] IN
  /\ pc[w] = "handoff"
  /\ HandoffAllowed(e) /\ ~cancelRequested[e]
  /\ status' = [status EXCEPT ![e] = "waiting_for_approval"]
  /\ Release(e)
  /\ context' = [context EXCEPT ![e] =
       [saved |-> TRUE, outputs |-> outputs[w], resume |-> NoResume]]
  /\ steps' = [steps EXCEPT ![e][step[w]] =
       [@ EXCEPT !.status = "waiting_for_approval", !.approval = "pending"]]
  /\ Committed(w, "done")
  /\ UNCHANGED <<cancelRequested, interrupted, replayOf, replayStart,
                 deadLetters, localVars, effects>>

HandoffRefused(w) ==
  LET e == job[w]
      cancelled == cancelRequested[e] \/ status[e] = "cancelled" IN
  /\ pc[w] = "handoff"
  /\ cancelled \/ ~HandoffAllowed(e)
  /\ outcome' = [outcome EXCEPT ![w] = IF cancelled THEN "cancelled" ELSE @]
  /\ GoTo(w, IF cancelled THEN "finalize" ELSE "mark_failed")
  /\ UNCHANGED <<rowVars, steps, deadLetters, job, at, step, outputs, effects>>

\* A rolled back commit, an unresolvable expression, a bad configuration...
Raise(w) ==
  /\ pc[w] \in Looping
  /\ GoTo(w, "mark_failed")
  /\ UNCHANGED <<rowVars, steps, deadLetters, localVars, effects>>

\* `execution_step_id` is still None before the first step.
FailOpenStep(w) ==
  LET open == step[w] \in DOMAIN steps[job[w]]
              /\ steps[job[w]][step[w]].status \in {"pending", "running"} IN
  IF open THEN SetStep(w, "failed") ELSE UNCHANGED steps

MarkStepFailed(w) ==
  /\ pc[w] = "mark_failed"
  /\ \/ FailOpenStep(w)
     \/ "mark_failed_lost" \in Fault /\ UNCHANGED steps
  /\ outcome' = [outcome EXCEPT ![w] = "failed"]
  /\ GoTo(w, "save_context")
  /\ UNCHANGED <<rowVars, deadLetters, job, at, step, outputs, effects>>

\* Neither the owner nor the status of the row is compared.
SaveFailureContext(w) ==
  LET e == job[w] IN
  /\ pc[w] = "save_context"
  /\ \/ context' = [context EXCEPT ![e] =
          [saved |-> TRUE, outputs |-> outputs[w], resume |-> NoResume]]
     \/ "save_context_lost" \in Fault /\ UNCHANGED context
  /\ GoTo(w, IF outcome[w] = "abandoned" THEN "done" ELSE "finalize")
  /\ UNCHANGED <<status, claimedBy, lease, cancelRequested, interrupted,
                 replayOf, replayStart, steps, deadLetters, localVars, effects>>
-----------------------------------------------------------------------------
(* Finalization.                                                           *)

OwnsLiveLease(w, e) ==
  claimedBy[e] = w /\ status[e] = "running" /\ lease[e] = "live"

\* Mutant: the request is only honoured if the runner saw it.
FinalStatusAsSeen(w, e) == outcome[w]

\* A cancellation request wins over every outcome.
FinalStatus(w, e) == IF cancelRequested[e] THEN "cancelled" ELSE outcome[w]

\* k is the latest failed step, or 0 (NULL) if there is none.
IsLatestFailed(e, k) ==
  LET failed == {i \in DOMAIN steps[e] : steps[e][i].status = "failed"} IN
  \/ k = 0 /\ failed = {}
  \/ k \in failed /\ \A j \in failed : j <= k

Finalize(w) ==
  LET e == job[w]
      final == FinalStatus(w, e) IN
  /\ pc[w] = "finalize" /\ OwnsLiveLease(w, e)
  /\ status' = [status EXCEPT ![e] = final]
  /\ Release(e)
  /\ context' = IF outcome[w] = "completed"
       THEN [context EXCEPT ![e] =
              [saved |-> TRUE, outputs |-> outputs[w], resume |-> NoResume]]
       ELSE context
  /\ steps' = IF final = "cancelled"
       THEN [steps EXCEPT ![e] = CancelApprovals(CloseSteps(e,
              {"pending", "running", "waiting_for_approval"}, "cancelled"))]
       ELSE steps
  /\ IF final = "failed"
       THEN \E k \in 0..Len(steps[e]) :
              /\ IsLatestFailed(e, k)
              /\ deadLetters' = [deadLetters EXCEPT ![e] =
                   Append(@, [step |-> k, status |-> "pending"])]
       ELSE UNCHANGED deadLetters
  /\ GoTo(w, "done")
  /\ UNCHANGED <<cancelRequested, interrupted, replayOf, replayStart,
                 localVars, effects>>

OwnershipLost(w) ==
  /\ pc[w] = "finalize" /\ ~OwnsLiveLease(w, job[w])
  /\ GoTo(w, "done")
  /\ UNCHANGED <<rowVars, steps, deadLetters, localVars, effects>>

\* The process dies, or an exception escapes execute_pending_execution.
Crash(w) ==
  /\ pc[w] \in {"load"} \cup Looping \cup Ending
  /\ GoTo(w, "done")
  /\ UNCHANGED <<rowVars, steps, deadLetters, localVars, effects>>

\* The heartbeat could not renew the lease and cancels the owner.  Elsewhere
\* this stops the worker as Crash does, but the finally clause around
\* mark_step_failed still saves the context.
HeartbeatCancels(w) ==
  /\ pc[w] = "mark_failed"
  /\ FailOpenStep(w) \/ UNCHANGED steps
  /\ outcome' = [outcome EXCEPT ![w] = "abandoned"]
  /\ GoTo(w, "save_context")
  /\ UNCHANGED <<rowVars, deadLetters, job, at, step, outputs, effects>>
-----------------------------------------------------------------------------
(* Requests of users.                                                      *)

\* Mutant: a running execution is cancelled in place.
CancelledAtOnceEvenRunning(e) ==
  status[e] \in {"pending", "waiting_for_approval", "running"}

\* No worker is running it, so the request takes effect at once.
CancelledAtOnce(e) == status[e] \in {"pending", "waiting_for_approval"}

RequestCancellation(e) ==
  /\ \/ /\ status[e] = "running"
        /\ UNCHANGED <<status, claimedBy, lease, steps>>
     \/ /\ CancelledAtOnce(e)
        /\ status' = [status EXCEPT ![e] = "cancelled"]
        /\ Release(e)
        /\ steps' = IF status[e] = "pending" THEN steps
             ELSE [steps EXCEPT ![e] = CancelApprovals(
                     CloseSteps(e, {"waiting_for_approval"}, "cancelled"))]
  /\ cancelRequested' = [cancelRequested EXCEPT ![e] = TRUE]
  /\ UNCHANGED <<interrupted, context, replayOf, replayStart, deadLetters, pc,
                 localVars, effects>>

Decidable(e, i) ==
  /\ steps[e][i].approval = "pending"
  /\ status[e] = "waiting_for_approval" /\ ~cancelRequested[e]
  /\ steps[e][i].status = "waiting_for_approval"

\* An unconnected decision leaves nothing to resume: start_node_id is None.
DecideApproval(e, decision) ==
  \E i \in DOMAIN steps[e] :
    /\ Decidable(e, i)
    /\ steps' = [steps EXCEPT ![e][i] =
         [@ EXCEPT !.approval = decision, !.status = "completed"]]
    /\ context' = [context EXCEPT ![e].resume =
         Successor[steps[e][i].node][decision]]
    /\ status' = [status EXCEPT ![e] = "pending"]
    /\ UNCHANGED <<claimedBy, lease, cancelRequested, interrupted, replayOf,
                   replayStart, deadLetters, pc, localVars, effects>>

ResolveEvent(e) ==
  \E i \in DOMAIN deadLetters[e] :
    /\ deadLetters[e][i].status = "pending"
    /\ deadLetters' = [deadLetters EXCEPT ![e][i].status = "resolved"]
    /\ UNCHANGED <<rowVars, steps, pc, localVars, effects>>

\* Any record of a downstream action counts as an attempt.
DownstreamAttempted(e, n) ==
  \E i \in DOMAIN steps[e] :
    IsAction(steps[e][i].node) /\ steps[e][i].node \in Downstream(n)

\* Mutant: the event is locked but its status is not read again.
ReplayableAnyEvent(e, i) ==
  LET s == deadLetters[e][i].step IN
  /\ status[e] = "failed"
  /\ s \in DOMAIN steps[e] /\ steps[e][s].status = "failed"
  /\ context[e].saved
  /\ SafeToReplay(steps[e][s].node)
  /\ ~DownstreamAttempted(e, steps[e][s].node)

Replayable(e, i) ==
  LET s == deadLetters[e][i].step IN
  /\ deadLetters[e][i].status = "pending" /\ status[e] = "failed"
  /\ s \in DOMAIN steps[e] /\ steps[e][s].status = "failed"
  /\ context[e].saved
  /\ SafeToReplay(steps[e][s].node)
  /\ ~DownstreamAttempted(e, steps[e][s].node)

\* replay_event: every condition of its unlocked first phase is evaluated
\* again under the lock on the event.
ReplayEvent(e, r) ==
  \E i \in DOMAIN deadLetters[e] :
    /\ Replayable(e, i) /\ status[r] = "absent"
    /\ status' = [status EXCEPT ![r] = "pending"]
    /\ context' = [context EXCEPT ![r] = context[e]]
    /\ replayOf' = [replayOf EXCEPT ![r] = e]
    /\ replayStart' = [replayStart EXCEPT ![r] =
         steps[e][deadLetters[e][i].step].node]
    /\ deadLetters' = [deadLetters EXCEPT ![e][i].status = "replayed"]
    /\ UNCHANGED <<claimedBy, lease, cancelRequested, interrupted, steps, pc,
                   localVars, effects>>
-----------------------------------------------------------------------------
Run(w) ==
  \/ LoadExecution(w) \/ CheckCancellation(w) \/ CreateStep(w) \/ StartStep(w)
  \/ InvokeNode(w) \/ InvokeFails(w) \/ RecordCompleted(w)
  \/ ApprovalHandoff(w) \/ HandoffRefused(w) \/ Raise(w)
  \/ MarkStepFailed(w) \/ SaveFailureContext(w) \/ Finalize(w)
  \/ OwnershipLost(w)

Request(e) ==
  \/ CreatePending(e) \/ RequestCancellation(e) \/ ResolveEvent(e)
  \/ \E d \in {"approved", "rejected"} : DecideApproval(e, d)
  \/ \E r \in Execution : ReplayEvent(e, r)

Next ==
  \/ \E w \in Worker :
       Run(w) \/ Crash(w) \/ HeartbeatCancels(w)
       \/ \E e \in Execution : ClaimPending(w, e)
  \/ \E e \in Execution : Request(e) \/ LeaseExpires(e) \/ CleanupExpired(e)

Spec == Init /\ [][Next]_vars

\* The owner of e is gone, so nobody renews its lease.
OwnerGone(e) == \A w \in Worker : claimedBy[e] = w => pc[w] = "done"

\* Workers are asyncio tasks that make progress as long as the calls they
\* await return; the lease of a dead owner runs out; the dispatcher keeps
\* cleaning up.  Users, crashes and the loss of live leases owe nothing.
FairSpec ==
  /\ Spec
  /\ \A w \in Worker : WF_vars(Run(w))
  /\ \A e \in Execution : WF_vars(OwnerGone(e) /\ LeaseExpires(e))
  /\ \A e \in Execution : WF_vars(CleanupExpired(e))
-----------------------------------------------------------------------------
(* Properties.                                                             *)

\* At most one worker is inside run_execution for an execution, even while a
\* lease has expired, a handoff is acknowledged late or a decision requeues
\* the execution: claims, handoffs and finalization exclude each other
\* without the handoff ever comparing claimed_by (runner.py:531-549).
SingleRunner ==
  \A v, w \in Worker :
    v # w /\ pc[v] \in Looping /\ pc[w] \in Looping => job[v] # job[w]

\* A worker in the node loop owns the running row, or the lease was declared
\* lost and the execution failed: nothing else ends a run behind its back.
RunnerOwnsOrInterrupted ==
  \A w \in Worker : pc[w] \in Looping =>
    LET e == job[w] IN
    \/ status[e] = "running" /\ claimedBy[e] = w
    \/ status[e] = "failed" /\ interrupted[e]

\* Execution, step and approval agree: an execution waits iff exactly one of
\* its approvals is pending, and that approval belongs to its one waiting
\* step; so every pending approval can be decided (approval_service.py).
ApprovalCoupling ==
  \A e \in Execution :
    LET pending == {i \in DOMAIN steps[e] : steps[e][i].approval = "pending"}
        waiting == {i \in DOMAIN steps[e] :
                      steps[e][i].status = "waiting_for_approval"} IN
    /\ pending = waiting
    /\ IF status[e] = "waiting_for_approval" THEN \E i \in DOMAIN steps[e] : pending = {i}
                                             ELSE pending = {}

\* A terminal execution leaves no step open, except below a worker whose
\* lease was lost or when the commit that fails the step was itself lost.
OpenStepsAccounted ==
  \A e \in Execution : \A i \in DOMAIN steps[e] :
    steps[e][i].status \in {"pending", "running"} =>
      \/ status[e] = "running"
      \/ status[e] = "failed" /\ interrupted[e]
      \/ status[e] = "failed" /\ "mark_failed_lost" \in Fault

\* A completed execution has only completed steps, also when it was resumed,
\* replayed or restarted, and no approval of it is undecided.
CompletedMeansStepsCompleted ==
  \A e \in Execution : status[e] = "completed" =>
    \A i \in DOMAIN steps[e] :
      /\ steps[e][i].status = "completed"
      /\ steps[e][i].approval \in {"none", "approved", "rejected"}

\* Exactly the failures that were not interruptions are in the dead letter
\* queue, once each, and name a step that is and stays failed; an event is
\* replayed iff exactly one execution replays it (dead_letter.py:197-290).
DeadLetterCoverage ==
  \A e \in Execution :
    LET replays == {r \in Execution : replayOf[r] = e} IN
    /\ Len(deadLetters[e]) =
         IF status[e] = "failed" /\ ~interrupted[e] THEN 1 ELSE 0
    /\ \A i \in DOMAIN deadLetters[e] :
         LET d == deadLetters[e][i] IN
         /\ d.step # 0 => steps[e][d.step].status = "failed"
         /\ Cardinality(replays) = IF d.status = "replayed" THEN 1 ELSE 0

\* Resuming after an approval does not repeat a completed step (README.md:163
\* "resume the appropriate branch without repeating earlier completed steps").
CompletedStepsNotRepeated ==
  \A e \in Execution : \A i, j \in DOMAIN steps[e] :
    i < j /\ steps[e][i].status = "completed" => steps[e][i].node # steps[e][j].node

\* The executions e replays, directly or through other replays.
Ancestors(e) ==
  {a \in Execution : \A S \in SUBSET Execution :
     /\ replayOf[e] # None => replayOf[e] \in S
     /\ \A x \in S : replayOf[x] # None => replayOf[x] \in S
     => a \in S}

\* Over an execution and everything that replays it, an unsafe operation is
\* sent to its provider at most once: crashes, lost leases, resumption and
\* replays of replays never repeat it (README.md:161 "unsafe operations
\* remain restricted").
UnsafeAtMostOnce ==
  \A e \in Execution, n \in Node :
    effects[e][n] > 0 =>
      effects[e][n] = 1 /\ \A a \in Ancestors(e) : effects[a][n] = 0

\* A replay begins at the node that failed (models/execution.py:48 "Node where
\* the replay should begin"), whatever else its copied context contains.
ReplayStartsAtFailedNode ==
  \A e \in Execution :
    replayOf[e] # None /\ steps[e] # <<>> => steps[e][1].node = replayStart[e]

\* No execution stays running for ever: it is finalized, handed to a human, or
\* failed by the cleanup, even when its worker crashes or loses its lease.
RunsEnd == \A e \in Execution : status[e] = "running" ~> status[e] # "running"

\* A cancellation request is never overtaken by a completion or a handoff:
\* the execution ends cancelled, or failed if its worker fails to notice.
CancellationTakesEffect ==
  \A e \in Execution :
    cancelRequested[e] ~> [](status[e] \in {"cancelled", "failed"})

\* Seen from outside an execution follows its abstract life cycle.
Lifecycle == INSTANCE ExecutionLifecycle
ImplementsLifecycle == Lifecycle!Spec
=============================================================================
