-------------------------- MODULE TriggerIngestion --------------------------
(***************************************************************************)
(* How trigger events become executions: producers append to the topic     *)
(* workflow.triggered, a consumer validates the workflow of an event,      *)
(* inserts the execution with its idempotency key, and then commits the    *)
(* offset.  Consumers die, are replaced while they still work, and events  *)
(* are sent twice.                                                         *)
(***************************************************************************)
EXTENDS Integers, Sequences

CONSTANTS
  Event,       \* event_id of a trigger event
  Consumer,    \* consumer tasks of execution-service processes
  None,
  Fault,       \* which of Faults may happen
  MaxFailures  \* bound on the number of failures

\* A workflow is deactivated and activated, a call or a commit fails, the
\* commit of the rows takes effect and raises, the process dies, the partition
\* moves to another consumer, the producer sends an event again.
Faults == {"deactivation", "call_fails", "ack_lost", "crash", "rebalance",
           "sent_twice"}

ASSUME IngestionAssumption ==
  /\ None \notin Consumer /\ Fault \subseteq Faults /\ MaxFailures \in Nat

VARIABLES
  live,      \* events whose version is published and whose workflow is active
  log,       \* the topic, one partition
  committed, \* the committed offset: how many messages are acknowledged
  owner,     \* the consumer the partition is assigned to
  position,  \* where each consumer reads
  pc,        \* where each consumer is
  rows,      \* how many executions there are for an event
  keys,      \* rows of idempotency_keys
  failures   \* history: failures so far

consumerVars == <<position, pc>>
tableVars == <<rows, keys>>
vars == <<live, log, committed, owner, consumerVars, tableVars, failures>>

Busy == {"validate", "insert", "commit"}
ConsumerState == {"down", "poll", "failed"} \cup Busy

Message(c) == log[position[c] + 1]

Init ==
  /\ live = Event /\ log = <<>> /\ committed = 0 /\ owner = None
  /\ position = [c \in Consumer |-> 0] /\ pc = [c \in Consumer |-> "down"]
  /\ rows = [e \in Event |-> 0] /\ keys = {} /\ failures = 0

Failure(f) ==
  /\ f \in Fault /\ failures < MaxFailures /\ failures' = failures + 1

GoTo(c, label) == pc' = [pc EXCEPT ![c] = label]

-----------------------------------------------------------------------------
(* Producers and workflow owners.                                          *)

Occurrences(e) == {i \in DOMAIN log : log[i] = e}

Publish(e) ==
  /\ \/ Occurrences(e) = {} /\ UNCHANGED failures
     \/ Occurrences(e) # {} /\ Failure("sent_twice")
  /\ log' = Append(log, e)
  /\ UNCHANGED <<live, committed, owner, consumerVars, tableVars>>

Deactivate(e) ==
  /\ e \in live /\ Failure("deactivation")
  /\ live' = live \ {e}
  /\ UNCHANGED <<log, committed, owner, consumerVars, tableVars>>

Activate(e) ==
  /\ e \notin live
  /\ live' = live \cup {e}
  /\ UNCHANGED <<log, committed, owner, consumerVars, tableVars, failures>>

-----------------------------------------------------------------------------
(* A consumer.                                                             *)

\* Mutant: auto_offset_reset is "latest" and nothing was committed.
StartPositionLatest == IF committed = 0 THEN Len(log) ELSE committed

StartPosition == committed

\* The consumer joins the group and reads from the committed offset.
Join(c) ==
  /\ owner' = c
  /\ position' = [position EXCEPT ![c] = StartPosition]
  /\ GoTo(c, "poll")
  /\ UNCHANGED <<live, log, committed, tableVars>>

StartConsumer(c) ==
  /\ pc[c] \in {"down", "poll"} /\ owner = None
  /\ Join(c) /\ UNCHANGED failures

\* The broker takes the partition from a consumer that may still be working.
Rebalance(c) ==
  /\ pc[c] \in {"down", "poll"} /\ owner \notin {None, c}
  /\ Join(c) /\ Failure("rebalance")

Poll(c) ==
  /\ pc[c] = "poll" /\ owner = c /\ position[c] < Len(log)
  /\ GoTo(c, "validate")
  /\ UNCHANGED <<live, log, committed, owner, position, tableVars, failures>>

\* Mutant: an event of a workflow that is not live is acknowledged.
ValidateSkipsInvalid(c) ==
  /\ pc[c] = "validate"
  /\ GoTo(c, IF Message(c) \in live THEN "insert" ELSE "commit")
  /\ UNCHANGED <<live, log, committed, owner, position, tableVars, failures>>

\* A version that is not live raises ValueError, which ends the task.
Validate(c) ==
  /\ pc[c] = "validate"
  /\ GoTo(c, IF Message(c) \in live THEN "insert" ELSE "failed")
  /\ UNCHANGED <<live, log, committed, owner, position, tableVars, failures>>

\* Mutant: the key is not unique.
InsertedAlways(e) == rows' = [rows EXCEPT ![e] = @ + 1] /\ keys' = keys \cup {e}

\* Execution and key are inserted together, or the key exists and the insert is
\* rolled back.
Inserted(e) ==
  \/ e \notin keys /\ rows' = [rows EXCEPT ![e] = @ + 1] /\ keys' = keys \cup {e}
  \/ e \in keys /\ UNCHANGED tableVars

Insert(c) ==
  /\ pc[c] = "insert"
  /\ Inserted(Message(c))
  /\ \/ GoTo(c, "commit") /\ UNCHANGED failures
     \/ GoTo(c, "failed") /\ Failure("ack_lost")
  /\ UNCHANGED <<live, log, committed, owner, position>>

CommitOffset(c) == position[c] + 1

\* A consumer that lost the partition is refused, which raises.
Commit(c) ==
  /\ pc[c] = "commit"
  /\ \/ /\ owner = c
        /\ committed' = CommitOffset(c)
        /\ position' = [position EXCEPT ![c] = CommitOffset(c)]
        /\ GoTo(c, "poll")
     \/ owner # c /\ GoTo(c, "failed") /\ UNCHANGED <<committed, position>>
  /\ UNCHANGED <<live, log, owner, tableVars, failures>>

\* The workflow service, the database or the broker cannot be reached.
CallFails(c) ==
  /\ pc[c] \in Busy /\ Failure("call_fails")
  /\ GoTo(c, "failed")
  /\ UNCHANGED <<live, log, committed, owner, position, tableVars>>

EndProcess(c) ==
  /\ owner' = IF owner = c THEN None ELSE owner
  /\ GoTo(c, "down")
  /\ UNCHANGED <<live, log, committed, position, tableVars>>

\* A failed consumer stays in its process until somebody restarts that.
StopFailed(c) == pc[c] = "failed" /\ EndProcess(c) /\ UNCHANGED failures

Crash(c) == pc[c] \in {"poll"} \cup Busy /\ EndProcess(c) /\ Failure("crash")

ConsumerStep(c) ==
  StartConsumer(c) \/ Poll(c) \/ Validate(c) \/ Insert(c) \/ Commit(c) \/ StopFailed(c)

Next ==
  \/ \E e \in Event : Publish(e) \/ Deactivate(e) \/ Activate(e)
  \/ \E c \in Consumer :
       ConsumerStep(c) \/ CallFails(c) \/ Rebalance(c) \/ Crash(c)

Spec == Init /\ [][Next]_vars

\* Consumers run, awaited calls return, somebody restarts a failed consumer,
\* and a deactivated workflow with events in the topic is activated again.
FairSpec ==
  /\ Spec
  /\ \A c \in Consumer : WF_vars(ConsumerStep(c))
  /\ \A e \in Event : WF_vars(Activate(e))

-----------------------------------------------------------------------------
TypeOK ==
  /\ live \subseteq Event /\ log \in Seq(Event) /\ committed \in 0..Len(log)
  /\ owner \in Consumer \cup {None}
  /\ position \in [Consumer -> Nat] /\ pc \in [Consumer -> ConsumerState]
  /\ rows \in [Event -> Nat] /\ keys \subseteq Event /\ failures \in Nat

\* Redelivery, a second send and two consumers at once never create a second
\* execution: "redelivery does not create an additional execution for the same
\* event" (README.md:122).
OncePerEvent == \A e \in Event : rows[e] <= 1

\* "The Kafka consumer commits its offset only after execution persistence
\* succeeds" (README.md:122): what is acknowledged is never lost.
AcknowledgedIsPersisted ==
  \A i \in 1..committed : rows[log[i]] >= 1

\* Every published event is stored in the end, behind whatever was in front of
\* it, if workflows are activated again and failed consumers restarted.
EventsStored ==
  \A e \in Event : (Occurrences(e) # {}) ~> (rows[e] = 1)
=============================================================================
