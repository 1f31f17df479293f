----------------------------- MODULE Dispatcher -----------------------------
(***************************************************************************)
(* ExecutionDispatcher and the life of the process it runs in: the loop    *)
(* that cleans up and dispatches, the tasks it creates, the semaphore and  *)
(* the two sets that count them, shutdown, crash and restart.  What a task *)
(* and the API do to a row are steps of ExecutionLifecycle, which          *)
(* ExecutionQueue implements.                                              *)
(***************************************************************************)
EXTENDS Integers, Sequences, FiniteSets

CONSTANTS
  Execution,
  Task,           \* asyncio.Task objects; one is reused once it is forgotten
  None,
  MaxConcurrency, \* EXECUTION_MAX_CONCURRENCY
  Event,          \* which of Events may happen
  MaxRestarts,    \* bound on how often the process stops and starts again
  MaxHandoffs     \* bound on the approvals that are asked for

\* An uncaught exception in the consumer or in the dispatcher loop, a claim
\* that raises, a lease that is not renewed although its task runs, SIGTERM,
\* and the end of the process without notice.
Events == {"consumer_fails", "loop_fails", "claim_raises", "lease_lost",
           "shutdown", "crash"}

ASSUME DispatcherAssumption ==
  /\ None \notin Execution /\ IsFiniteSet(Task)
  /\ MaxConcurrency \in Nat \ {0} /\ MaxRestarts \in Nat /\ MaxHandoffs \in Nat
  /\ Event \subseteq Events

VARIABLES
  status, cancelRequested, \* the rows, see ExecutionLifecycle
  created,    \* executions in the order of created_at
  handoffs,   \* history: how often a row was handed to a human
  expired,    \* running rows whose lease has passed
  phase,      \* where lifespan() is
  consumer,   \* the consumer task
  restarts,   \* how often the process was started again
  loop,       \* where run() is
  due,        \* the expired rows cleanup still has to fail
  slots,      \* available_slots
  batch,      \* the pending ids dispatch_pending still has to go through
  stage,      \* where each task is; "none" if it is not in active_tasks
  runs,       \* the execution_id of each task
  activeIds,
  permits     \* the value of the semaphore

rowVars == <<status, cancelRequested, created, handoffs, expired>>
loopVars == <<loop, due, slots, batch>>
taskVars == <<stage, runs, activeIds, permits>>
lifeVars == <<phase, consumer, restarts>>
vars == <<rowVars, loopVars, taskVars, lifeVars>>

\* A replay is a new pending row; here it is a Submit like any other.
Row == INSTANCE ExecutionLifecycle WITH replayOf <- [e \in Execution |-> None]

Phase == {"up", "stop_consumer", "stop_dispatcher", "gather", "stopped",
          "raised", "down"}
Loop == {"top", "cleanup", "inspect", "dispatch", "wait", "failed",
         "cancelled", "down"}

\* A live task is inside _execute: it holds a permit and its id is active.
Live == {"created", "claimed", "closing"}
Stage == {"none", "finished"} \cup Live

LiveTask == {t \in Task : stage[t] \in Live}
ActiveTask == {t \in Task : stage[t] # "none"}

-----------------------------------------------------------------------------
Process(loopAt) ==
  /\ loop' = loopAt /\ due' = {} /\ slots' = 0 /\ batch' = {}
  /\ stage' = [t \in Task |-> "none"] /\ runs' = [t \in Task |-> None]
  /\ activeIds' = {} /\ permits' = MaxConcurrency

Init ==
  /\ status = [e \in Execution |-> "absent"]
  /\ cancelRequested = [e \in Execution |-> FALSE]
  /\ created = <<>> /\ handoffs = 0 /\ expired = {}
  /\ phase = "up" /\ consumer = "running" /\ restarts = 0
  /\ loop = "top" /\ due = {} /\ slots = 0 /\ batch = {}
  /\ stage = [t \in Task |-> "none"] /\ runs = [t \in Task |-> None]
  /\ activeIds = {} /\ permits = MaxConcurrency

-----------------------------------------------------------------------------
(* The outside world.                                                      *)

\* The consumer stores an event, or an operator replays a dead letter.  Ids are
\* interchangeable and given out in one order.
NewExecution == CHOOSE e \in Execution : status[e] = "absent"
Submit(e) ==
  /\ phase # "down" /\ Row!Submit(e) /\ e = NewExecution
  /\ created' = Append(created, e)
  /\ UNCHANGED <<handoffs, expired, loopVars, taskVars, lifeVars>>

\* A decision queues an execution again, or a user cancels one.
Decide(e) ==
  /\ phase # "down" /\ (Row!Resume(e) \/ Row!RequestCancellation(e))
  /\ UNCHANGED <<created, handoffs, expired, loopVars, taskVars, lifeVars>>

\* The lease of a row passes if nobody renews it.
LeaseExpires(e) ==
  /\ status[e] = "running" /\ e \notin expired
  /\ \/ "lease_lost" \in Event /\ restarts < MaxRestarts
     \/ \A t \in Task : ~(stage[t] = "claimed" /\ runs[t] = e)
  /\ expired' = expired \cup {e}
  /\ UNCHANGED <<status, cancelRequested, created, handoffs, loopVars, taskVars, lifeVars>>

ConsumerFails ==
  /\ "consumer_fails" \in Event /\ restarts < MaxRestarts
  /\ phase = "up" /\ consumer = "running"
  /\ consumer' = "failed"
  /\ UNCHANGED <<phase, restarts, rowVars, loopVars, taskVars>>

-----------------------------------------------------------------------------
(* A task: _execute around execute_pending_execution.                      *)

\* Mutants: a permit is not released, or the id is kept.
LeaveBodyKeepsPermit(t) ==
  /\ stage' = [stage EXCEPT ![t] = "finished"]
  /\ activeIds' = activeIds \ {runs[t]}
  /\ UNCHANGED <<permits, runs>>

LeaveBodyKeepsId(t) ==
  /\ stage' = [stage EXCEPT ![t] = "finished"] /\ permits' = permits + 1
  /\ UNCHANGED <<activeIds, runs>>

\* The finally clause of _execute.
LeaveBody(t) ==
  /\ stage' = [stage EXCEPT ![t] = "finished"]
  /\ activeIds' = activeIds \ {runs[t]}
  /\ permits' = permits + 1
  /\ UNCHANGED runs

TaskClaims(t) ==
  /\ stage[t] = "created" /\ Row!Start(runs[t])
  /\ stage' = [stage EXCEPT ![t] = "claimed"]
  /\ UNCHANGED <<created, handoffs, expired, runs, activeIds, permits, loopVars, lifeVars>>

\* The row was cancelled since it was listed, or the claim raises.
TaskDoesNotClaim(t) ==
  /\ stage[t] = "created"
  /\ status[runs[t]] # "pending" \/ "claim_raises" \in Event
  /\ LeaveBody(t)
  /\ UNCHANGED <<rowVars, loopVars, lifeVars>>

\* The workflow stops at an approval, or ends; both need the lease.
TaskLeavesRow(t) ==
  LET e == runs[t] IN
  /\ stage[t] = "claimed" /\ e \notin expired
  /\ \/ /\ handoffs < MaxHandoffs /\ Row!Suspend(e)
        /\ handoffs' = handoffs + 1
     \/ Row!Finish(e) /\ UNCHANGED handoffs
  /\ stage' = [stage EXCEPT ![t] = "closing"]
  /\ UNCHANGED <<created, expired, runs, activeIds, permits, loopVars, lifeVars>>

\* The heartbeat cancels the task, or finalization finds the lease gone.
TaskLosesRow(t) ==
  /\ stage[t] = "claimed"
  /\ runs[t] \in expired \/ status[runs[t]] # "running"
  /\ stage' = [stage EXCEPT ![t] = "closing"]
  /\ UNCHANGED <<runs, activeIds, permits, rowVars, loopVars, lifeVars>>

\* The heartbeat is stopped and the task returns or raises.
TaskEnds(t) ==
  /\ stage[t] = "closing"
  /\ LeaveBody(t)
  /\ UNCHANGED <<rowVars, loopVars, lifeVars>>

TaskDone(t) ==
  /\ stage[t] = "finished"
  /\ stage' = [stage EXCEPT ![t] = "none"]
  /\ runs' = [runs EXCEPT ![t] = None]
  /\ UNCHANGED <<activeIds, permits, rowVars, loopVars, lifeVars>>

TaskStep(t) ==
  TaskClaims(t) \/ TaskDoesNotClaim(t) \/ TaskLeavesRow(t) \/ TaskLosesRow(t)
    \/ TaskEnds(t) \/ TaskDone(t)

-----------------------------------------------------------------------------
(* The loop.                                                               *)

\* Mutant: only executions this process knows are cleaned up.
ListExpiredOfOwnTasks ==
  /\ loop = "top"
  /\ loop' = "cleanup" /\ due' = expired \cap activeIds
  /\ UNCHANGED <<slots, batch, rowVars, taskVars, lifeVars>>

ListExpired ==
  /\ loop = "top"
  /\ loop' = "cleanup" /\ due' = expired
  /\ UNCHANGED <<slots, batch, rowVars, taskVars, lifeVars>>

\* One iteration of cleanup_expired_executions, see ExecutionQueue.
CleanupNext(e) ==
  /\ loop = "cleanup" /\ e \in due
  /\ Row!Finish(e) /\ status'[e] = "failed"
  /\ expired' = expired \ {e} /\ due' = due \ {e}
  /\ UNCHANGED <<created, handoffs, loop, slots, batch, taskVars, lifeVars>>

FreeSlots == MaxConcurrency - Cardinality(ActiveTask)

CleanupDone ==
  /\ loop = "cleanup" /\ due = {}
  /\ loop' = IF FreeSlots <= 0 THEN "wait" ELSE "inspect"
  /\ slots' = IF FreeSlots <= 0 THEN 0 ELSE FreeSlots
  /\ UNCHANGED <<due, batch, rowVars, taskVars, lifeVars>>

\* The n oldest pending rows.
OldestPending(n) ==
  LET pending == {i \in DOMAIN created : status[created[i]] = "pending"}
      oldest  == {i \in pending : Cardinality({j \in pending : j < i}) < n}
  IN  {created[i] : i \in oldest}

Inspect ==
  /\ loop = "inspect"
  /\ loop' = "dispatch" /\ batch' = OldestPending(slots) /\ slots' = 0
  /\ UNCHANGED <<due, rowVars, taskVars, lifeVars>>

\* The listed ids are taken oldest first; since the free slots were counted from
\* the tasks there is a permit for each of them, and their order does not matter.
Take(e) == loop = "dispatch" /\ e \in batch /\ batch' = batch \ {e}

SkipActive(e) ==
  /\ Take(e) /\ e \in activeIds
  /\ UNCHANGED <<loop, due, slots, rowVars, taskVars, lifeVars>>

\* Tasks are interchangeable: a new one is the first that is free.
NewTask == CHOOSE t \in Task : stage[t] = "none"
CreateTask(e, t) ==
  /\ Take(e) /\ e \notin activeIds
  /\ permits > 0 /\ stage[t] = "none" /\ t = NewTask
  /\ permits' = permits - 1
  /\ activeIds' = activeIds \cup {e}
  /\ stage' = [stage EXCEPT ![t] = "created"]
  /\ runs' = [runs EXCEPT ![t] = e]
  /\ UNCHANGED <<loop, due, slots, rowVars, lifeVars>>

DispatchDone ==
  /\ loop = "dispatch" /\ batch = {}
  /\ loop' = "wait"
  /\ UNCHANGED <<due, slots, batch, rowVars, taskVars, lifeVars>>

\* wakeup_event, or two seconds.
WakeUp ==
  /\ loop = "wait"
  /\ loop' = "top"
  /\ UNCHANGED <<due, slots, batch, rowVars, taskVars, lifeVars>>

LoopFails ==
  /\ "loop_fails" \in Event /\ restarts < MaxRestarts
  /\ loop \in {"cleanup", "inspect"}
  /\ loop' = "failed"
  /\ UNCHANGED <<due, slots, batch, rowVars, taskVars, lifeVars>>

LoopStep ==
  \/ ListExpired \/ CleanupDone \/ Inspect \/ DispatchDone \/ WakeUp
  \/ \E e \in Execution :
       CleanupNext(e) \/ SkipActive(e) \/ \E t \in Task : CreateTask(e, t)

-----------------------------------------------------------------------------
(* The process: the finally clause of lifespan(), its end and its restart. *)

Shutdown ==
  /\ "shutdown" \in Event /\ phase = "up" /\ restarts < MaxRestarts
  /\ phase' = "stop_consumer"
  /\ UNCHANGED <<consumer, restarts, rowVars, loopVars, taskVars>>

\* consumer_task.cancel(), then `await consumer_task`, which raises what the
\* task raised.
StopConsumer ==
  /\ phase = "stop_consumer"
  /\ \/ /\ consumer = "running" /\ consumer' = "cancelled"
        /\ phase' = "stop_dispatcher"
     \/ /\ consumer = "failed" /\ UNCHANGED consumer
        /\ phase' = "raised"
  /\ UNCHANGED <<restarts, rowVars, loopVars, taskVars>>

StopDispatcher ==
  /\ phase = "stop_dispatcher"
  /\ \/ loop = "failed" /\ UNCHANGED loop /\ phase' = "raised"
     \/ loop # "failed" /\ loop' = "cancelled" /\ phase' = "gather"
  /\ UNCHANGED <<consumer, restarts, due, slots, batch, rowVars, taskVars>>

\* Mutant: only tasks that have claimed an execution are waited for.
GatheredClaimed == \A t \in Task : stage[t] # "claimed"

\* shutdown() gathers the active tasks.
Gathered == LiveTask = {}

GatherTasks ==
  /\ phase = "gather" /\ Gathered
  /\ phase' = "stopped"
  /\ UNCHANGED <<consumer, restarts, rowVars, loopVars, taskVars>>

\* Whatever still ran ends with the process.
EndProcess ==
  /\ phase' = "down" /\ consumer' = "cancelled"
  /\ Process("down")
  /\ UNCHANGED <<restarts, rowVars>>

ProcessEnds == phase \in {"stopped", "raised"} /\ EndProcess

Crash ==
  /\ "crash" \in Event /\ phase # "down" /\ restarts < MaxRestarts
  /\ EndProcess

Restart ==
  /\ phase = "down" /\ restarts < MaxRestarts
  /\ restarts' = restarts + 1
  /\ phase' = "up" /\ consumer' = "running"
  /\ Process("top")
  /\ UNCHANGED rowVars

StopStep == StopConsumer \/ StopDispatcher \/ GatherTasks \/ ProcessEnds \/ Restart

Next ==
  \/ \E e \in Execution : Submit(e) \/ Decide(e) \/ LeaseExpires(e)
  \/ \E t \in Task : TaskStep(t)
  \/ LoopStep \/ LoopFails \/ ConsumerFails
  \/ Shutdown \/ StopStep \/ Crash

Spec == Init /\ [][Next]_vars

\* The loop and the tasks run as long as the process does, awaited calls
\* return, leases nobody renews pass, a stopped process is started again, and
\* one whose loop failed is stopped: /health answers 503 until then.  A claim
\* that is tried again and again is not refused by the database every time.
FairSpec ==
  /\ Spec
  /\ WF_vars(LoopStep) /\ WF_vars(StopStep)
  /\ WF_vars(loop = "failed" /\ Shutdown)
  /\ \A t \in Task : WF_vars(TaskStep(t))
  /\ \A e \in Execution : SF_vars(\E t \in Task : runs[t] = e /\ TaskClaims(t))
  /\ \A e \in Execution : WF_vars(LeaseExpires(e))

-----------------------------------------------------------------------------
TypeOK ==
  /\ status \in [Execution -> Row!Status]
  /\ cancelRequested \in [Execution -> BOOLEAN]
  /\ created \in Seq(Execution) /\ handoffs \in Nat
  /\ expired \subseteq Execution
  /\ phase \in Phase /\ consumer \in {"running", "failed", "cancelled"}
  /\ restarts \in Nat
  /\ loop \in Loop /\ due \subseteq Execution /\ slots \in Nat
  /\ batch \subseteq Execution
  /\ stage \in [Task -> Stage] /\ runs \in [Task -> Execution \cup {None}]
  /\ activeIds \subseteq Execution /\ permits \in 0..MaxConcurrency

\* The semaphore, active_tasks and active_ids are updated in three different
\* places, and still agree on which executions are being worked on.
CountersAgree ==
  /\ permits + Cardinality(LiveTask) = MaxConcurrency
  /\ activeIds = {runs[t] : t \in LiveTask}

\* An execution queued again by a decision, while the task that handed it over
\* is still closing, does not get a second task.
OneTaskPerExecution ==
  \A t, u \in LiveTask : runs[t] = runs[u] => t = u

\* When lifespan() returns, no execution is still being worked on.
GracefulStop == phase = "stopped" => LiveTask = {}

\* A pending execution does not stay pending for ever, whatever was created
\* before and after it, across restarts.
PendingIsDispatched ==
  \A e \in Execution : (status[e] = "pending") ~> (status[e] # "pending")

\* Nor does a running one stay running, even if its process died.
RunningEnds ==
  \A e \in Execution : (status[e] = "running") ~> (status[e] # "running")
=============================================================================
