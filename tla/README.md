# Relay: a formal model of its workflow core and of its browser console

Relay lets users draw workflows, publishes them as immutable versions, accepts
trigger events (webhooks, manual runs, schedules) through Kafka and runs each
accepted event as a durable *execution*. Users work with it in a browser: they edit
and publish workflows, follow executions, decide approvals and keep connections,
webhooks, schedules and documents. This directory holds TLA+ models of the parts
whose correctness depends on the order in which transactions, calls, answers,
crashes and users meet, TLC configurations that check them on small instances, and
TLAPS proofs that hold for every instance. Paths below are relative to `src/`; `es/`
stands for `service/execution-service/app/`, `fe/` for `frontend/src/`.

## 1. Inventory

All services are asyncio Python programs over PostgreSQL at READ COMMITTED,
each deployed with one replica and a `Recreate` strategy (`deploy/kubernetes`).
An `UPDATE ... WHERE` or a `SELECT ... FOR UPDATE` therefore acts on the latest
committed row, and everything between two commits of a coroutine can be
interleaved with everything else.

| Component | State | Operations | What is hard | What makes it correct |
|---|---|---|---|---|
| Execution queue (`es/services/execution_queue.py`, `es/repositories/execution_queue.py`) | rows of `executions`: status, claimed_by, lease, cancel_requested_at, context, replay links | create, claim, renew, finalize, clean up | lease expiry against finalization; claim against a still living earlier worker | one runner per execution; a terminal status is written once; every run ends |
| Runner (`es/engine/runner.py`) | rows of `execution_steps`; in memory: current node, step, context | node loop, approval handoff, failure clause | each statement is its own transaction; partial failure of the failure handling itself | a completed execution has only completed steps; open steps are accounted for |
| Approvals (`es/services/approval_service.py`) | rows of `human_approvals`, resume checkpoint in the context | request, decide | three rows change together; decision against cancellation and against the runner that asked | execution, step and approval agree; a resumption repeats nothing |
| Cancellation (`es/repositories/execution.py`) | cancel_requested_at | request, cooperative check | request between the last check and finalization | the request wins |
| Dead letters and replay (`es/services/dead_letter.py`) | rows of `dead_letter_events` | resolve, replay | validated before, executed after a remote call | one replay per failure; unsafe operations never repeat |
| Dispatcher (`es/services/execution_dispatcher.py`) | semaphore, active tasks and ids of a process | poll, start task, task done, shutdown | three counters of the same slots; an exception ends the task | limit respected; nothing pending is starved |
| Trigger ingestion (`es/kafka/consumer.py`, `create_pending_execution`) | consumer offset, `idempotency_keys` | consume, persist, commit offset | crash between two commits; two deliveries at once; events that are refused | an event creates one execution; the offset never passes an unpersisted event |
| Retry (`es/engine/retry.py`) | attempt counter | retry with backoff | which failures of which operations are repeated | bounded; never for unsafe methods |
| Schedules (`service/integration-service/app/tasks`, `workflow_schedule_service.py`) | `workflow_schedules` rows | find due, advance, publish, update, synchronise | optimistic update after a second reading; advance before publish | what is due is claimed, and only of published versions of active workflows |
| Webhooks, manual triggers (`service/integration-service/app/services`) | `webhooks` rows; test sessions in memory | create, rotate, suspend, receive, test | a session that is replaced while a request is answered | a version of the right workflow; a result of the session that is shown |
| Workflow versions (`service/workflow-service/app/services/workflow_service.py`) | workflows, versions, nodes, edges | draft, edit, publish, (de)activate, delete | validation before the statement that publishes; remote synchronisation after it | what is published was validated; schedules follow the published version |
| Workflow validation (`workflow_validation.py`) | none | Kahn's algorithm, reachability, branching | pure algorithms | agree with acyclicity and reachability |
| Document ingestion (`service/rag-service/app`) | document status, chunks, queued tasks | upload, claim, embed, publish, retry, delete | worker loss, redelivery, deletion during ingestion | one worker at a time; a ready document has its chunks |
| Token sessions (`service/auth-service/app/services/token_sessions.py`) | refresh sessions and their current token | create, rotate, revoke | lost answers, concurrent refresh | a used token is never accepted |
| Accounts and mail (`service/auth-service/app/services`) | users, one-time links and codes | register, verify, sign in, reset | links used twice, older links | a link works once |
| Browser: session (`fe/lib/api.js`, `AuthContext`) | shared cookies; per tab the signed-in state and one refresh promise | request with one retry, refresh, sign in and out | several requests of several tabs are refused at once | no token is presented twice, nobody waits for ever, nobody is signed out without a reason |
| Browser: workflow editor (`fe/components/workflow/WorkflowBuilder.jsx`) | canvas, undo history, known rows, save state | edit, undo, save call by call, validate, publish, leave | edits during calls, saves that end half way, temporary ids | "Saved" is stored; a verdict and a publication are about what is shown |
| Browser: toolbar, versions (`WorkflowToolbar.jsx`, `app/workflows/[id]`) | dialogs, loads of the page | rename, switch, delete a version or the workflow | loads overtaken by calls | a workflow keeps a version |
| Browser: schedule panel (`ScheduleConfig.jsx`, `scheduleTrigger.js`) | a draft that outlives the panel, the live schedule | activate, save, synchronise, pause, publish | sequences of calls while others publish | what was typed is kept until it is stored; a paused schedule stays paused |
| Browser: runs (`WorkflowExecutionPanel.jsx`, `manualTrigger.js`) | followed run, poll timer, dialog | discover, follow, paint, run by hand | timers that every effect stops | the selected run is painted and goes on being polled |
| Browser: executions, dead letters (`app/dashboard`, `components/dashboard`) | execution, poll, drawer | poll, cancel, replay, resolve | posts without an answer, polls overtaken by a cancellation | nothing is posted blindly; a cancellation stays shown |
| Browser: approvals, connections, AI providers, webhooks, workflows, knowledge bases, documents (`fe/app`, `fe/components`) | a list, a drawer or dialog, calls under way | list, open, create, change, test, delete | answers in any order, about rows and dialogs that are gone | an answer enters only what it was asked for; what is deleted stays away |
| Browser: accounts (`fe/app/(auth)`) | form, link of the address, promise caches | sign up, verify, sign in, reset | effects that run twice, pages left before the answer | a link is presented once, and its outcome is reported truly |
| Action service, AI providers, gateway, MCP server | connection records, OAuth records | request forwarding | | seen by the core as calls that succeed, fail or do not answer |

How they interact: a trigger (integration-service) publishes `workflow.triggered`
to Kafka; the consumer of execution-service validates the event against
workflow-service (gRPC) and inserts a pending execution; the dispatcher claims
and runs it; the runner fetches the version's definition, calls action-service,
rag-service and AI providers; users decide approvals, cancel, resolve and replay
through the gateway; workflow-service synchronises schedules and webhooks after
a publication. Every page of the browser calls these services through `apiRequest`,
which refreshes the session when a request is refused.

## 2. Modules

| Module | What it is |
|---|---|
| `ExecutionLifecycle` | what a user of the API is promised about one execution: an abstract specification over `status`, `cancelRequested`, `replayOf` |
| `ExecutionQueue` | the detailed model of the execution core (queue, runner, approvals, cancellation, dead letters) |
| `MCExecutionQueue` | a workflow and the symmetry sets for TLC |
| `ExecutionQueue_proofs` | types, ownership, the refinement of the life cycle, steps and approvals; dead letters and replays, and that nothing is done twice |
| `Dispatcher`, `Dispatcher_proofs` | the dispatcher's loop and tasks in the life of their process; what tasks and users do to a row are actions of `ExecutionLifecycle` |
| `TriggerIngestion`, `MCTriggerIngestion`, `TriggerIngestion_proofs` | topic, consumers, executions and idempotency keys, from publication to the committed offset |
| `WorkflowVersions` | one workflow, its versions and the requests that edit, publish, activate, deactivate and delete them |
| `WorkflowSchedules`, `MCWorkflowSchedules`, `WorkflowSchedules_proofs` | extends it with the workflow's schedule: what the calls of workflow-service do to it, the requests about it, and the Celery tasks that find it due |
| `DocumentIngestion` | the documents of the rag service: requests, queued tasks, workers |
| `KnowledgeDocuments` | extends it with the documents page: its serialized list, its polling, the operations, the upload |
| `BrowserSession`, `MCBrowserSession`, `BrowserSession_proofs` | tabs, requests, refresh, and the sessions and tokens of the auth service |
| `WorkflowEditor`, `MCWorkflowEditor`, `WorkflowEditor_proofs` | the builder and the rows of the version it edits |
| `LatestList` | how every page of the console keeps a list of which the latest request decides |
| `ApprovalInbox`, `ConnectionsPage`, `AiConnections`, `WebhooksPage`, `KnowledgeBases`, `WorkflowsPage`, `DeadLetterDesk` | one page each that lists what users have, with the service behind it; they extend `LatestList` |
| `AccountForms`, `WebhookTest`, `WorkflowToolbar`, `ManualRun`, `RunPanel`, `ExecutionDetail`, `SchedulePanel` | one form or panel of the browser each, with the service behind it |
| `MCLists`, `Lists_proofs` | those seven pages and `KnowledgeDocuments` as the screens of one instance, and proofs about all of them |
| `MCConsole`, `Console_proofs` | the seven forms and panels as the screens of another, and proofs about all of them |

`ExecutionLifecycle` is the joint: `ExecutionQueue` implements it
(`ImplementsLifecycle`, proved), and `Dispatcher` and `ExecutionDetail` use it in place of
the queue, once from below and once from above. `TriggerIngestion` ends where the life
cycle's `Submit` begins, and `WorkflowSchedules` where `TriggerIngestion`'s `Publish` does;
`Deactivate` there is the status column here. `KnowledgeDocuments` composes the page with
the workers of `DocumentIngestion`. The other pages see of their service the rows they
list and change.

### ExecutionQueue and the code

One action is one database transaction or one external call; local statements
between two of them are merged into the action before them. `Worker` is one call
of `execute_pending_execution`. Its id is a new uuid, so a worker claims once and
`pc` only moves from `idle` to `done`; a crash of the whole process is the
`Crash` of each of its workers.

| State | Code |
|---|---|
| `status`, `claimedBy`, `lease`, `cancelRequested` | columns of `executions`; `lease` is `live` while `lease_expires_at > now()` |
| `interrupted` | `error.error_code = "WORKER_INTERRUPTED"` |
| `context` | the JSON column: whether one was ever saved, the nodes with an output, and `_resume.start_node_id` |
| `replayOf`, `replayStart` | `replay_of_execution_id`, `replay_start_node_id` |
| `steps` | rows of `execution_steps` in order of `sequence`, each with the status of its `human_approvals` row |
| `deadLetters` | rows of `dead_letter_events`; `step = 0` is NULL |
| `pc`, `job`, `at`, `step`, `outputs`, `outcome` | where a worker is, and the locals of `execute_pending_execution` and `run_execution` |
| `effects` | history only: how often an unsafe provider call was sent |

The path of a worker is `ClaimPending`, `LoadExecution`, then per node
`CheckCancellation`, `CreateStep`, `StartStep`, and either `InvokeNode` and
`RecordCompleted` or, at an approval node, `ApprovalHandoff` or `HandoffRefused`;
a failure leads through `MarkStepFailed` and `SaveFailureContext` to `Finalize`
or `OwnershipLost`. `LeaseExpires` may happen at any time, which covers late
heartbeats, pauses and partitions; what the heartbeat does when it finds the
lease lost (cancel the task) is `Crash`, or `HeartbeatCancels` where the
`finally` clause of the failure handling still runs. `CleanupExpired` is one
iteration of the cleanup loop.

Faults. A commit that is rolled back raises in the caller: that is `Raise`,
always possible. Three more are switched by the constant `Fault`, since some
properties hold only without them: `ack_lost` (a commit took effect and the
caller sees an exception), `mark_failed_lost` and `save_context_lost` (the commit
of `mark_step_failed`, or of the failure context, is rolled back while the worker
goes on).

Abstractions worth knowing:

* Node outputs, messages and errors are reduced to the set of nodes that have an
  output. A failing expression or a bad configuration is `Raise`.
* `SafeToReplay` folds the set of safe node types and the safe HTTP methods into
  the node's kind; `Downstream` is the least closed set, where the code walks the
  edges (publishing guarantees a DAG, so its cycle branch is not reachable).
* The attempts of a retried safe operation are one call. Unsafe operations get
  exactly one attempt in the code, and `effects` counts those.
* A step's `sequence` is its position; the code computes `max(sequence) + 1` once
  per run, which is the same as long as one worker runs an execution: that is
  `SingleRunner`.
* `replay_event` evaluates its conditions twice; the first evaluation has no
  effect, so only the one under the lock is modelled.
* The branch for a malformed `_resume` checkpoint is not modelled: only
  `decide_approval` writes that key.
* A `done` worker keeps its dead locals. Nothing reads them.

### Dispatcher and the code

`run()` is a cycle of `ListExpired`, one `CleanupNext` per expired row, `CleanupDone`
(which counts the free slots), `Inspect` (the listing of the oldest pending rows), one
`CreateTask` or `SkipActive` per listed id, and the wait. A step is what the loop
does between two awaits. A task is `created`, `claimed` once it owns its row,
`closing` when the row is no longer its own while the heartbeat and the session are
still being closed, `finished` when `_execute` has left its `finally` clause, and
forgotten when the done callback has run. The gap between `closing` and `finished`
is where the interesting cases are: a decision may queue the row again before the
task that handed it over is gone, so the id is pending and active at once.

| State | Code |
|---|---|
| `created` | the order by `created_at` in which pending rows are listed |
| `expired` | running rows with `lease_expires_at <= now()` |
| `loop`, `due`, `slots`, `batch` | where `run()` is, and its lists |
| `stage`, `runs` | `active_tasks` with the progress of each task, and the id it was created for |
| `activeIds`, `permits` | `active_ids` and the semaphore |
| `phase`, `consumer` | where `lifespan()` is, and the consumer task it awaits |

Abstractions: the order within a batch is left open, since the free slots were counted
from the tasks and every listed id has a permit waiting; new tasks and new rows are the
first that are free, as they are interchangeable; `wakeup_event` only shortens the wait; a
replay is a `Submit` like any other. `LoopFails` stands for an exception of one of
the loop's transactions, which `run()` does not catch and which ends its task.
Bounds: `MaxRestarts` stops of the process,
`MaxHandoffs` approvals; nothing fails any more once the last restart is used up.

### TriggerIngestion and the code

The topic is one partition. A consumer polls, validates the version of the event
(a remote call), inserts the execution with its key in one transaction, and commits
the offset. `live` is what `ValidateWorkflowVersion` answers: version published and
workflow active. Any exception, a refused event included, ends
the consumer task (`failed`); it stays so until somebody restarts the process.
`Rebalance` gives the partition to another consumer while the first still works,
whose offset commit is then refused. `MaxFailures` bounds the failures of
a behaviour, of the kinds in `Fault`. Message decoding is part of `call_fails`.

### WorkflowVersions, WorkflowSchedules and the code

A request is one HTTP request. Its step `...Read` is every select up to the first
commit or remote call, `...Commit` a transaction that writes; nothing is locked in
between. Calls of workflow-service to integration-service, and back, are steps of the
request that makes them: `SyncRead`, `SyncWrite`, `Suspend` and `DeleteWithWorkflow`
are the handlers of the first, `UpdatePublished`, `CreateCheck` and `UpdateCheck` the
second. A handler whose caller gave up is cancelled by gRPC, so that a call has no
effect after `Abort`; a call that had its effect and whose answer is lost is the
effect and then `Abort`.

| State | Code |
|---|---|
| `status`, `published` | columns of the row of `workflows`; `deleted` once it is gone |
| `versions`, `nodes` | `status` of each row of `workflow_versions`, and its nodes and edges as one value |
| `schedule` | the row of `workflow_schedules`: version, `enabled`, `next_run_at` |
| `pc`, `seen` | where a request is, and the columns, arguments and ORM objects it holds |
| `task` | where `check_due_schedules` is: the item found, then `due_at` |
| `now` | the clock, in units of the distance between two occurrences |
| `deaths`, `lagging` | history: tasks that died, and whether a publication was committed whose synchronisation did not return |

`Written` is SQLAlchemy's unit of work: an `UPDATE` names only the columns whose value
differs from the one loaded, so a stale request leaves the others as they are.
`DeleteVersionCommit` and `DeleteWorkflowCommit` judge the object their route loaded
before it called other services, since a second select in a session returns the
loaded object unrefreshed; the foreign key of `published_version_id` refuses the rest.
A change of a schedule's configuration is `edit`; what the configuration is decides
only when the next run is, which is always later than `now` (`NextRun`).

Bounds: `MaxVersion` versions are ever created, `MaxTime` ends the clock, `MaxDeaths`
tasks die, and a schedule that was deleted is not created again.

### DocumentIngestion, KnowledgeDocuments and the code

A document is `none`, one of the statuses of the row (`chunking`, which lasts from one
commit to the next, counts as `embedding`), or `deleted`. `tasks` counts the messages of
`rag.ingest_document`: `task_acks_late` keeps one until its task returns, so that
`WorkerLost` puts it back. `Claim` is the guarded update of `pending`, `Transition` and
`Complete` the guarded ones that follow, and `Fail` whatever `fail_ingestion` does with a
document whose status has changed meanwhile, failing itself included.

On the page, `request` and `waiting` are the promise chain `queue` of the list with its
`sequence`: a ticket that is not the latest is still answered, and shown to nobody.
`Poll` is the timer, armed while a document is shown as processing. `op` is the row that
is busy with a deletion or a retry; `upload` the file of a batch that is sent.

### BrowserSession and the code

| State | Code |
|---|---|
| `sessions` | rows of `refresh_sessions`: current token and revoked; the auth service |
| `cookie`, `stale` | both cookies, set and cleared together; tokens whose access part has expired |
| `auth` | `AuthContext` of each tab: `starting`, `in`, `out`, or `closed` |
| `call` | the requests of a tab: sent, waiting for the refresh, or sent again |
| `refresh` | `refreshPromise` of a tab: queued at `navigator.locks`, sent, or answered |

A request that is refused for the first time joins the refresh of its tab; after it
every request that waited is sent again (`Resent`) or fails (`Failed`), and the second
refusal signs the tab out. A refresh reads the cookie when it is sent, and sets it when it
is answered, unless the answer is lost (`lost`). `excused` notes why a session may end: a
logout, a service that is not available, or an answer that is not for the cookies the
browser has by then. `HasLocks` is false in browsers without `navigator.locks`.

### WorkflowEditor and the code

| State | Code |
|---|---|
| `stored` | the rows of the version in workflow-service, as its node and edge routes keep them |
| `canvas`, `known` | React Flow's nodes and edges; `serverNodesRef` and `serverEdgesRef` |
| `undo`, `redo`, `frame` | the two stacks, and the snapshot that waits 250 ms to be recorded |
| `saveState`, `save` | the word in the toolbar, which is "saving" while `savingRef` is set (`SavingRef`), and how far `handleSave` is in its six stages |
| `orphan` | a save whose builder was unmounted and goes on without it |
| `publishing` | `handlePublish`, with preflight, save, publication and the second look |
| `status` | `currentVersionStatus`, on which `readOnly` depends (`isCanvasReadOnly`); "retired" is a published version of a workflow that has no live version any more, the one that may be published again (`WorkflowBuilder.jsx:1522`, `restoring_deleted_publication` in workflow-service) |
| `check`, `verdict` | `handleValidate`, and what its dialog is about |
| `fresh` | history: this builder has not saved yet |

A node is a name and what it says, one content (`ref`) for its label, position and
configuration: the name of the node it refers to, 0 for nothing in particular, or one of two contents
that the builder converts. `Example` is an example value or an old field name, which the canvas
is loaded without (`Cleaned`, `clearExampleNodeConfig`) while the rows known keep it; `Raw` is a
configuration of a RAG or decision node not in the form of a save, which a save and a
validation bring it into (`Normalized`, `normalizeRAGConfiguration` and
`normalizeDecisionConfiguration`) while the canvas keeps it. A converted content becomes 0.
What a canvas says (`Definition`) is what a save of it would store, as in
`workflowSaveSnapshot`. Laying out nodes that share one position when a page is loaded
(`buildInitialState`) is left out. Ids are negative until a save has replaced them by those of
rows; a stored connection whose node is not there keeps the name of that node for an id
(`LogicalId`), as `transformBackendEdge` does, which is below every row and above every
temporary id. What a canvas and the rows say is compared without ids, by the names of the nodes and
the number of times each connection occurs (`Definition`, `workflowSaveSnapshot` in the
code). A save makes one call at a time, in the order of the code: new nodes, changed
nodes, changed connections and so on (`Stage`); each may fail, and its answer may be lost,
which sets `unsure`, the state in which the builder cannot know what is stored. The service's
copy of a version (`EditWorkflow`) also resets the webhook of its trigger, which is left out.

"Saved" means that the rows are what is shown (`StoredIsShown`), with two exceptions, which the code has
and the property names. Rows that a save of this builder deleted while the canvas shows them, or shows them
again, are forgotten (`ForgottenNodes`, `ForgottenEdges`). And until the builder saves for the first time
(`fresh`), the rows are what the canvas shows up to the conversion of the load
(`LoadedDefinition`); nothing writes a content that only its load changed, neither the toolbar, which
says "Saved", nor a publication, which then saves nothing (`WorkflowBuilder.jsx:1579`).

### The pages and the code

Every page is modelled as its component keeps it: one variable for each piece of React
state that decides something, one action per handler, per answer and per effect, with
the guards of the buttons, and the service behind it as the table it lists. A call is
sent, handled by the service, and answered; in between anything else may happen. An
answer that never comes, and what others do to the same rows, are actions of their own
with a bound.

* `LatestList` is the effect that loads a list. Its cleanup makes the page ignore an
  answer that was overtaken; `Overtaken` keeps the last of those, so that it can come
  late.
* Effects run when their inputs change, which is part of the action that changes them;
  a component that is mounted anew begins from its initial state, while calls of the
  instance before go on and are answered to nobody.
* A form is what decides the fate of a save (the method of a credential, the workflow of
  a webhook, whether a text can be parsed); its other fields are left out.
* `unsure`, `missed`, `lapses` and `blind` are histories. They note that a call had no
  answer, or that somebody else changed a row: what a page shows cannot be right by
  then, and the properties that compare it with the service are about the other
  behaviours. The properties about what a page may *do* have no such exception.

`SchedulePanel` is the largest: the draft of the payload lives in a ref, in a map of the
module and in the storage of the tab; the panel, the one before it and the builder each
have a sequence of calls that may be under way (`ops`), and every sequence decides by what it
has read two or three calls before. A configuration is the version it comes from.
`ExecutionDetail` polls an execution that follows `ExecutionLifecycle`.

`MCLists` opens one of the pages that list something, `MCConsole` one of the forms and
panels. Pages of the browser share nothing but the session, and leaving one unmounts it,
so the behaviours of each module are those of its screens, one at a time. As React keeps
the state of a component in slots, the variables of the page that is open are kept in
`slot1`, ..., `slot17` (`slot15`). Each module states what its pages have in common as
properties that are conjunctions of what they mean on each screen.

## 3. Runs

The instance of the queue is one workflow that has everything the engine treats
differently: trigger, approval (rejection unconnected, so it ends the execution), an unsafe
action, a condition with a single branch (publishable, and raising for the other
value) and a safe AI node. `queue_replay` uses a second workflow, with a safe
request before the approval, so that a resumed run needs an output from before it;
`queue_reclaims` stops the first one at its unsafe action, so that three workers can be
checked without symmetry, which the temporal properties need.

| Run | Instance | Question |
|---|---|---|
| `queue_all_faults` | 3 executions, 2 workers, all faults | Do rows of the four tables stay consistent (`TypeOK`, `ApprovalCoupling`), does a failed execution have its dead letters and at most one replay (`DeadLetterCoverage`), and does every execution follow `ExecutionLifecycle` (`ImplementsLifecycle`)? |
| `queue_reclaims` | a workflow that ends with its action, 1 execution, 3 workers, lost acknowledgements, fair | Is an execution that is queued again run by one worker only (`SingleRunner`, `RunnerOwnsOrInterrupted`), are its steps accounted for at the end (`OpenStepsAccounted`), does every run end, and does a requested cancellation take effect (`RunsEnd`, `CancellationTakesEffect`)? |
| `queue_replay` | second workflow, 2 executions, 3 workers, `mark_failed_lost` | Do resumption and replay start at the right node, repeating neither completed steps nor unsafe calls (`CompletedStepsNotRepeated`, `UnsafeAtMostOnce`, `ReplayStartsAtFailedNode`)? |
| `dispatcher` | 2 executions, 2 slots, every failure, one restart, fair | Do semaphore, tasks and active ids agree (`CountersAgree`), is every pending execution dispatched and does every running one end (`PendingIsDispatched`, `RunningEnds`), and has a `lifespan()` that returns waited for all tasks (`GracefulStop`)? |
| `ingestion` | 3 events, 2 consumers, 3 failures of any kind, fair | Has an event at most one execution (`OncePerEvent`), is an acknowledged event stored (`AcknowledgedIsPersisted`), is every event stored in the end (`EventsStored`)? |
| `schedules_in_sequence` | 1 request at a time, 2 versions, 2 tasks of which 1 may die, fair | Has a workflow that is not active no scheduled run (`InactiveIsSuspended`), is the published version the scheduled one unless a failed synchronisation was reported (`FollowsPublication`), is no draft ever scheduled (`NeverDraft`), and is what is due claimed (`DueIsAdvanced`)? |
| `schedule_outlives_deactivation` | 2 requests at once, 1 version | Expected violation, see findings |
| `workflow_editor` | 2 edits or undos with redos, 2 saves, 1 event, from a draft and from a retired version of two nodes; without events from a draft of three | Up to forgotten rows and the conversions of a load, is "Saved" what is stored (`SavedUpToForgotten`), has no stored connection lost its node (`StoredEdgesAttached`), is a verdict about the canvas that is shown (`VerdictIsCurrent`) and a publication about the canvas that was looked at (`PublishedIsShown`)? |
| `browser_session` | 2 tabs with 2 requests, 1 login, 1 expiry, 2 troubles | Is a session never revoked for a token that the browser itself used twice (`NoSelfRevocation`), has whoever waits for a refresh one to wait for (`WaitersAreServed`), and is nobody signed out without a reason (`SignedOutMeansEnded`)? |
| `lists` | eight screens with two rows each (one document, 2 workers, 2 faults), fair | See below |
| `console` | seven screens | See below |
| `draft_dropped` | `SchedulePanel` with a version without a trigger | Expected violation, see findings |

The properties of `lists`:

| Property | Screens | Says |
|---|---|---|
| `DeletedStaysAway` | approvals, connections, AI, webhooks, knowledge bases, documents, workflows | what a page was told is decided or deleted does not come back, whichever list is answered when |
| `ListIsCurrent` | webhooks, knowledge bases, workflows, dead letters | once every call was answered the list is what the service has |
| `FormsFit` | AI, connections, webhooks | an answer enters only the dialog it was asked for; credentials fit their method, versions their workflow |
| `HandledOnce` | dead letters, documents | an event is handled again only after it was read again; a document is ingested by one worker at a time and has its chunks exactly while it is ready |
| `OutcomeIsShown` | documents | the outcome of an ingestion is shown in the end, whatever fails on the page |

The properties of `console`:

| Property | Screens | Says |
|---|---|---|
| `AnswersFit` | webhook test, manual run, toolbar, run panel | an answer enters only the session or run it was asked for; only a manual version is run by hand; a workflow keeps a version |
| `ActsOnce` | accounts, manual run, schedule | what must happen once is asked for once, and after a post without an answer only when its subject was read again |
| `OutcomesAreTrue` | accounts, execution | what a page reports has happened, and an older answer does not take it back |
| `KeepsFollowing` | run panel, execution | an execution that is shown unfinished goes on being asked for, or the page says why not |
| `ScheduleIsAsLeft` | schedule | a typed payload is kept until it is stored, as long as every published version has a trigger, and a paused schedule is resumed by the user only |

Every definition with the comment "Mutant" is a plausible bug in the definition below it. One per
property is listed in `PROJECT.json`; the others break the other conjuncts of the same
property and were run the same way.

Bounds. An execution passes one approval, so two claims complete it and a third
worker is there for the claim that should not happen; a replay adds the second
execution (two replays of one failure need the third of `queue_all_faults`), and three workers are enough to run an original up to its approval,
from its approval to its failure, and the replay. Nothing else is bounded: steps
grow only as far as the acyclic workflow lets them. Deadlock checking is off everywhere
because a finished system, or a page whose bounds are used up, stops. Workers, and executions where no property under
check distinguishes them, are symmetric; liveness is checked without symmetry.

In `Dispatcher`, two slots let one execution be dispatched while the other's task is
closing, and its id be listed while it is still active; with both slots in use, or the
last one taken by an active id, the other execution waits. One approval brings about
such a closing task. One restart covers a row left running by a process that is gone; a
second one would meet no state the first does not. In `TriggerIngestion`, a third event
lets one be stored, one block the consumer and one wait behind it; three failures are
enough for a deactivation, a lost acknowledgement and a change of consumer in one behaviour.

`schedules_in_sequence` takes requests one after the other, each of which may be cut off
after any of its steps, while tasks run beside them. Two versions let a schedule lag
behind a publication, go through a version without a scheduled trigger and come back
by a restoration; one unit of time lets a schedule become due once while its next run
lies ahead. `InactiveIsSuspended` and `FollowsPublication` hold
only so: with two requests at once the first is the finding below, and the second fails
when two synchronisations arrive in the other order. That published versions never
change (`README.md:33`) holds of no more either: an operation on nodes may check the status of a version
before its publication and write after it. `PublishedExists` and `NeverDraft`
hold for any number of requests at once, which is proved.

In `workflow_editor`, two edits make an edit during a save and its undo, or a node and a
connection to it; three names are two nodes and one that is added. `Starts` are three versions:
a draft of two nodes; a retired version of an example value and an unnormalized configuration, which
can be published again and be copied to a draft that is edited; and a draft of three nodes with both, which
has a third node for its connection to be moved to when the first or second is deleted, so that a
save deletes the connection, is refused its change, and a second one calls the rest "Saved". The
third has no events (`spent`), which keeps the run short: what a lost answer or a reload adds is seen
from the other two. An edit writes a reference, nothing, or an example value (`Contents`). The second save is the
one that meets what the first left, and the event (a lost answer, a failed call, a reload, a leave, a publication)
meets each of them. `HistoryLimit` is 2 instead of 50, so that the oldest snapshot
is dropped. In `browser_session`, two requests are refused together in each of two tabs; the
two troubles are for example a lost answer and a closed tab. A document is uploaded, or was
there before; two faults are a lost worker and a failing retry, and two operations a retry
and a deletion.

On the console everything a page lists exists twice, so that an answer can be about the
other row. Two posts, one call without an answer and one change by others meet on every
page; the bounds of each screen are in `Lists.cfg` and `Console.cfg`. The run panel has two runs of two versions,
the toolbar three versions, of which one is deleted while another is shown. In `SchedulePanel` three events
suffice for the longest of its stories: a payload is typed, one operation begins, and
somebody else publishes or an answer is lost.

Fairness. Each worker of the queue is weakly fair: an asyncio task whose awaited
call has returned is eventually scheduled. This assumes that awaited calls return;
the clients of the action and workflow services set no deadline, and a call that
never returns would be kept alive by its own heartbeat for ever. The lease of a worker that is gone expires, by the clock. `CleanupExpired`
is weakly fair because the dispatcher runs it every two seconds; that the
dispatcher itself comes back after it failed is a matter of `Dispatcher`.
Users, crashes and the loss of live leases are not fair.

In `Dispatcher` the loop, the tasks and the steps of `lifespan()` are weakly fair,
leases nobody renews pass, a stopped process is started again, and one whose loop
has failed is stopped: `/health` then answers 503, and execution's Kubernetes liveness
probe asks `/health` for this reason (`deploy/kubernetes/README.md:323-325`). Docker
Compose does not do that (`deploy/docker/README.md:171-173`); there an operator must,
and until then nothing is dispatched or cleaned up. In `TriggerIngestion` the same
restart is assumed for a failed consumer, and that a deactivated workflow with events
in the topic is activated again; without it one such event blocks every event behind
it for ever, which is why the fairness is needed and worth knowing. Failures,
deactivations and second sends are not fair. A claim may raise at any time, but one that is tried again and
again is not refused by the database every time (strong fairness of `TaskClaims` for each execution);
otherwise an execution would stay pending, as it does in the code. In `WorkflowSchedules` each task is weakly
fair: Beat starts `check_due_schedules` every minute (`celery_app.py:30`), and a worker
that dies is restarted. Nothing is assumed of requests. In `MCLists` the
answers, the promises that wait and the timer of the documents page are weakly fair, which is the event loop
of the browser; nothing is assumed of the service, the workers and the user: `OutcomeIsShown`
is about documents whose ingestion has ended.

### Findings

* `schedule_outlives_deactivation`: `deactivate_workflow` suspends the schedule and commits
  the status afterwards, in another database (`workflow_service.py:1035-1045`). While it is
  in between, the workflow answers as active, so a schedule can be created or resumed; the
  other way round, `create_schedule` and `update_schedule` write what they asked for two
  calls earlier. The inactive workflow keeps a scheduled run, contrary to "Stop future
  scheduled runs for an inactive workflow" (`workflow_schedule_service.py:383`), and its
  next event stops the consumer of executions.
* `draft_dropped`: `mutate()` takes any schedule it reads afterwards as proof that the
  payload was saved (`ScheduleConfig.jsx:368`). When somebody has published a version without a Scheduled
  Trigger, `reconcilePublishedSchedule` sends nothing, the old row is found, and the
  typed payload is dropped from the panel and from the storage of the tab, contrary to "Keep unsaved payloads ... until the schedule API
  confirms a save" (`scheduleTrigger.js:222`).

Seen while modelling, and kept out of the properties by the bounds and exceptions above
rather than given runs of their own:

* The except clause of `run_execution` (`es/engine/runner.py:766-775`) writes the
  execution's context without comparing owner or status. When the commit of a handoff
  takes effect but the runner sees an exception, and a decision is recorded before the
  clause runs, the `_resume` checkpoint is erased; the next claim starts at the trigger and
  repeats completed steps. `queue_replay` therefore runs without `ack_lost`.
* A consumed checkpoint stays in the row until another context is saved. If the failure
  context of a resumed execution cannot be saved, a replay copies the checkpoint and starts
  after the approval rather than at the failed node. `queue_replay` runs without
  `save_context_lost`.
* `lifespan()` awaits the cancelled consumer task and suppresses only `CancelledError`
  (`es/main.py:96-101`). If the consumer had already ended with an exception, that is raised in
  the `finally` clause, and executions are not waited for: the phase `raised`, which
  `GracefulStop` is not about.
* `create_pending_execution` validates the version before it looks for a duplicate
  (`es/services/execution_queue.py:70-114`), so a redelivered event of a workflow deactivated
  since stops the consumer; `EventsStored` assumes that the workflow is activated again.
* A save forgets rows that a save before it deleted and the canvas still shows
  (`WorkflowBuilder.jsx:1182`, `:1204`): they are neither new nor changed, and the toolbar says
  "Saved". Undo and redo bring such rows back. Without any undo it takes a saved connection that is
  moved from one node to another, the first of which is then deleted: the save deletes the row of the
  connection with those of the node (`:1217-1235`), its change, the last stage, is refused, and the next
  save passes over it. `SavedUpToForgotten` excepts these rows and no other.
* The canvas of a page that was just loaded shows configurations that `clearExampleNodeConfig` has
  converted (`WorkflowBuilder.jsx:308`): `charge_id` of a refund is renamed, values that equal an example are
  blank. The toolbar says "Saved", and a publication without an edit saves nothing (`:1579`) and publishes
  the old contents, which nobody was shown; the preflight judges the converted ones. `SavedUpToForgotten`
  and `PublishedIsShown` say what holds then, and that the first save of the builder ends it.
* After a saved connection whose answer was lost, the dialog has an old copy and may leave
  a method without its credential (`unsure` in `ConnectionsPage`).
* The status of a workflow that was switched is overwritten by a list asked for earlier;
  `ListIsCurrent` compares which workflows are listed, not their status.
* "Follow latest" forgets the run that is shown, although it may be the latest.

## 4. Proofs

The proofs about `ExecutionQueue` assume only `QueueAssumption`: `None` and `NoResume` are not
executions, workers or nodes, and `Kind`, `Successor` and `Trigger` have the right
types. Executions, workers, nodes, the workflow graph and the faults are arbitrary;
no finiteness is assumed.

* `TypeCorrect == Spec => []TypeOK`. The inductive invariant `Typed` adds that a
  worker past `idle` has a job. Lemmas say what the sequence updates shared by the
  transactions return (`CloseStepsFacts`, `CancelApprovalsFacts`, `StepUpdateFacts`,
  `AppendStepFacts`, `DeadLetterUpdate`), then one lemma per group of actions.
* `OneRunner == Spec => []SingleRunner` and
  `RunnerKeepsRow == Spec => []RunnerOwnsOrInterrupted`. `SingleRunner` is not
  inductive: it says nothing about a worker whose row was queued again. The
  invariant `Owned` adds that only a running row has an owner, and that a worker in
  the loop owns its row or the row was interrupted. A worker enters the loop only as
  the owner, and whoever else were in the loop for that row would be its owner too,
  or the row would have failed and could not have been claimed.
* `ApprovalsAgree == Spec => []ApprovalCoupling`. The invariant `Coupled` adds
  to `Owned` that a worker between `start` and `handoff` has a step (`AtOwnStep`). By `Owned` its
  execution is running or was interrupted, so no step of it waits, and what the worker does to
  its step disturbs no approval; a decision or a cancellation finds the one waiting step.
* `StepsAccountedFor == Spec => []OpenStepsAccounted` and `CompletionIsComplete == Spec =>
  []CompletedMeansStepsCompleted`. The invariant `Settled` says of an owner that all steps of its
  execution but its own are done, and its own is closed when it wants to finalize
  (`OwnerSettled`); of a worker about to fail a step of an execution that is not its own any
  more that the step is closed or the execution failed (`StaleSettled`): after a handoff
  whose acknowledgement was lost, `mark_step_failed` may run while the next owner is at work,
  and must not find that owner's step. `RowSettled` says what the steps of a row without an
  owner look like.
* `Refinement == Spec => ImplementsLifecycle`. What the life cycle knows about
  cancellations and replays is spread in the queue over outcomes of workers and dead
  letters. The invariant `Linked` ties them together: nothing is or is about to be
  cancelled without a request, and an execution that was replayed is failed and has
  used up its one dead letter. Then every action maps to one action of the life cycle
  (`Finalize` and `CleanupExpired` to `Finish`, for example) or leaves its variables
  alone.

Four theorems are about what outlives a run. The first needs nothing else; the
others exclude, as hypotheses that the theorem states, what the run `queue_replay`
excludes by its faults, for the reasons given under "Seen while modelling":
`ContextsSaved` (the context saved at a failure is not lost), `CommitsAcknowledged` (no
commit takes effect while its worker sees an exception). `Acyclic` (no node is downstream of itself)
is what a publication checks (`validate_cycles`, `workflow_validation.py:151-180`). All other faults,
crashes, expiries, decisions and cancellations at any moment remain.

* `FailuresAreFiled == Spec => []DeadLetterCoverage`. The invariant `Filed` counts: an
  execution has one dead letter exactly if it failed for good, and the replays of it are none
  before the letter says `replayed` and one afterwards. That a replay finds a new row, so that the
  count goes up by one, needs that an execution without a row has no origin either (`Begun`).
* `ReplayFromFailedNode`, under `ContextsSaved`: `Spec => []ReplayStartsAtFailedNode`. The
  invariant `Fresh` says when an execution may still hold a checkpoint. A replay copies the
  context of what it replays, and the loader prefers a checkpoint to the node the
  replay names; so the failure context, which has no checkpoint, must have been saved by
  every final failure that can be replayed, whoever recorded it.
* `NothingRepeated`, under `CommitsAcknowledged` and `Acyclic`: `Spec =>
  []CompletedStepsNotRepeated`. The invariant `Straight` says that the steps of an
  execution go downstream (`InOrder`), and that whoever goes on, a
  worker, a checkpoint or a restart, goes on beyond the last of them (`OnPath`, `StartsBeyond`).
  Two workers could break the order between them, which `Exclusive` excludes.
* `UnsafeCalledOnce`, under all three: `Spec => []UnsafeAtMostOnce`. Within one
  execution, `CalledOnce` says that an operation was sent at most once, and only at a node
  that has a step; along a chain of replays, of any length, `Cleared` says that a replay
  starts at a node that is safe to repeat, and that no execution it descends from tried anything
  unsafe behind that node. All a replay does is done there (`ReplayStaysBehindStart`).

The other components have a module of proofs each:

* `Dispatcher_proofs`, from `DispatcherAssumption` (finitely many tasks, a positive
  limit): `TypeCorrect`, `Agreement == Spec => []CountersAgree` and
  `OneTask == Spec => []OneTaskPerExecution`. The three are inductive only together,
  as `Counted`: that a task leaving its body removes exactly its own id from
  `activeIds` needs that no other live task has it, and that none gets it needs
  `activeIds` to be the ids of all live tasks. `ShutdownWaits == Spec => []GracefulStop`
  adds `Stopping`: once `lifespan()` gathers the tasks, the loop is cancelled, so that no
  task can be created behind its back.
* `TriggerIngestion_proofs`, from `IngestionAssumption`: `TypeCorrect`,
  `AtMostOnce == Spec => []OncePerEvent` and `NothingLost == Spec =>
  []AcknowledgedIsPersisted`. The invariant `Stored` says that rows follow keys, that no
  consumer reads behind what it may acknowledge (`ReadersBehind`, `OwnerAtOffset`: the owner
  reads exactly at the committed offset), and that acknowledged messages have a key.
* `WorkflowSchedules_proofs`, from `VersionsAssumption` and `SchedulesAssumption`:
  `TypeCorrect`, `PublishedVersionExists == Spec => []PublishedExists` and `NeverADraft ==
  Spec => []NeverDraft`, for any number of requests at once. The invariant `Consistent`
  adds what each request has read by the time it is at a label (`Good`): a request about
  to synchronise or to create holds a version that was published, and stays so (`Kept`),
  although the workflow may point elsewhere by then. `InactiveSchedulesAreSuspended` and
  `ScheduleFollowsPublication` state `InactiveIsSuspended` and `FollowsPublication` under `InSequence`, that
  requests about the workflow follow each other: with two of them the first
  is false (run `schedule_outlives_deactivation`). The run `schedules_in_sequence` shows
  both on small instances; the theorems hold for any versions, tasks and times. The invariant
  `InOrder` says that what a request has read is still so at each of its labels
  (`UpToDate`), whatever the tasks of Celery did to the schedule in between, and wherever an earlier request was cut off.
* `BrowserSession_proofs`, from `SessionAssumption`, for any number of tabs, requests,
  sessions and tokens: `TypeCorrect`, `NobodyHangs == Spec => []WaitersAreServed` and
  `NoTokenIsPresentedTwice == Spec => []NoSelfRevocation`. The first two need `Served`: every token
  belongs to a session of the service, and a tab that is closed has nothing under way, since a
  refresh that outlived its tab would have nobody who waits. For the third, the invariant
  `Fresh` says of a browser that has locks and lost no answer: at most one refresh of all
  tabs is past the lock (`OneUnderWay`), what it has sent is current (`SentCurrent`), what
  it was answered is current (`AnswerCurrent`), and the cookie is current or its
  successor is the answer that is on its way (`CookieRenewed`). A tab that enters the
  lock finds no answer on its way, hence a current cookie; rotation makes the cookie old and
  the answer current in one step. `NobodySignedOutEarly`, under `HasLocks`: `Spec =>
  SignedOutMeansEnded`, an action property; without `navigator.locks` two tabs that refresh
  at once revoke the session. Its invariant `Steady` says that, as long as nothing was lost or
  excused, no session is revoked, nobody is signed in without a cookie, a refresh that had a
  cookie to send is granted a token newer than every other (`NoneAhead`), and what is sent
  again carries a token the service accepts; a wrong password is checked alone in its tab (`WrongAlone`).
* `WorkflowEditor_proofs`, from the assumptions of `WorkflowEditor`: `ConnectionsAttached ==
  Spec => []StoredEdgesAttached`, for any length of the history and any number of edits, saves and
  answers that are lost. The service deletes a node without its connections, and the
  builder sends the deletions of a save in order, so the invariant `Sound` says that the
  builder knows every stored connection and its ends (`ConnectionsKnown`, unless an answer was
  lost, when the page takes nothing for granted until it is read again), and that while a node waits to
  be deleted every stored connection of it waits too (`DeletionPrepared`). Editing a published version
  copies it under new ids: `NewRowsDiffer` shows that the renumbering is injective.
  `VerdictStaysCurrent == Spec => []VerdictIsCurrent`, `SavedIsStored == Spec =>
  []SavedUpToForgotten` and `PublishedAsShown == Spec => []PublishedIsShown` compare what is
  shown, stored, judged and saved, although ids are given out, replaced by those of rows,
  and brought back by undo, with the two exceptions named in section 2. They rest on `Named`: there is a naming of the ids (the name of a
  node, 0 for a connection) and a set of sheets, the canvases shown, recorded or being saved,
  such that every sheet, row, note and call agrees with the naming, and a row that a save has
  made is on no sheet yet. An edit extends the naming by its temporary id, a
  call by its row, a copied version by all its rows. Hence a save's replacement of ids is
  injective on every sheet (`RealIds`), and a canvas means the same before and after
  (`RemapDefinition`, over `SameNodes` and `SameTally`), which gives `Checked`: a request that is
  current judges what is on the canvas. `Mirror` says that the builder knows what every row
  says, `Progress` what a save has brought about so far (`Brought`): each new id without a call
  to come has a row that says the same, each row with no change to come says what the canvas does,
  and each other row is to be deleted. Each call moves one id from what is to come to what is brought
  (`SaveCallFollowed`). When nothing is to come, and nobody edited meanwhile (`Unedited`: the snapshot is the
  canvas, normalized), the rows are what is shown (`SaveShown`). A builder that has only loaded them shows
  them converted (`LoadShown`, by `WithoutFacts`, which says what a conversion leaves). `PublishSaved` has that a
  publication past its preflight is of a canvas that is saved and that stays so, and that the builder
  is not `fresh` once it began a save. `TypeCorrect == Spec => []TypeOK` follows from these and
  `Plain`.
* `Lists_proofs`, from `ListsAssumption` (`None` is no row that a page lists, there is a webhook),
  for any rows and any bounds on what happens on a page: `DeletedNeverReturns == Spec =>
  []DeletedStaysAway`, `ListsStayCurrent == Spec => []ListIsCurrent`, `FormsStayFit == Spec =>
  []FormsFit` and `HandledOnlyOnce == Spec => []HandledOnce`. A screen works alone, so a property
  of several screens is proved from an invariant of each. The pages share `ListInv`: of all
  requests for a list only the last counts (`LatestOnly`), and lemmas (`ListAsked`,
  `ListAnswered` and their like) say once what asking, handling, answering and failing leave
  of the requests that count. On that each page adds why its rows stay away. A decision or
  deletion that was taken is final in the service (`DeletedIsFinal`, `DecidedIsFinal`), and what counts
  among the answers under way, with what is shown, has no row that is gone
  (`AnswersAreClean`): the page filters it, or asks again in the same step that tells it. For
  `ListIsCurrent` an answer that counts is what the service has now (`AnswersAreCurrent`), except while
  something that changed rows was handled and not yet answered: `Taken` in the library, `Unheard` among the
  webhooks, `changed` in the drawer of a dead letter. Each of these exceptions ends with a reload
  or a patch, which is what the proof is about; the pages where the user leaves the list
  while it loads need that loading ends (`LoadingIsShown`, `LoadingEnds`).
  For `FormsFit`, the dialog of an AI connection waits for the request with the latest
  number, and no other request has that number (`InspectsDialog`); the
  versions that may enter a webhook's form are those of its workflow (`FormFits`); a method that needs
  a credential asks for it (`MethodNeedsCredential`), so that an update never parts the two
  (`UpdateFits`). For `HandledOnce`, a drawer whose last post has no answer shows that it has to be
  read again (`BlindIsShown`); a document is being worked on only while its status says so
  (`ProgressShown`) and only a ready one has chunks (`ChunksOfReady`), and a claim needs
  `pending`, which therefore means that nobody is at work (`Ingested`). The
  documents page has a list of its own kind: a deleted document stays deleted
  (`DeletedDocumentIsFinal`), and a list on its way has no document that is gone, or will be
  thrown away (`ListingFits`, `DocumentsAway`).
* `Console_proofs`, from `ConsoleAssumption` (`None` is no number and no status, there is an
  address) and `ScheduleAssumption` (`None` is no row, truth value or text), for any bounds on what happens on a page, screen by screen as above. `UnfinishedIsFollowed == Spec =>
  []KeepsFollowing`: on the page of an execution (`DetailInv`) a cancellation is shown as what the
  service was last heard to say (`CancellationKnown`); in the panel of runs (`PanelInv`) the run that
  is selected, and no other, has a subscription that is alive, however many subscriptions of earlier
  selections still get answers (`SelectedIsFollowed`). `OutcomesStayTrue == Spec =>
  []OutcomesAreTrue`: the service only adds links and accounts and never takes back that a link
  was used (`Grown`), so an answer that was true when it was given (`AnswersTold`, `LinksTold`) is
  true when it arrives; that it is then shown about the right account is `PostFits`: what is under
  way was sent by the form that is shown, with the address it still holds, because the fields
  are disabled meanwhile. `AccountsInv` also has that a link is presented once, for which a
  link that was presented must have a promise (`PresentedPromised`). `ActsOnlyOnce == Spec =>
  []ActsOnce` adds the pages that write: a manual run counts what its only post can still be
  told of (`PostsCounted`), so that it is offered again only when every run was reported; and a
  schedule whose last call failed shows that it has to be read again (`BlindIsSeen`), and offers no
  write meanwhile. `AnswersStayFit == Spec => []AnswersFit`: of all test sessions that are still
  watched only the one the dialog shows may enter it, and what it brings is the session's result
  (`LatestIsOfDialog`, `RunsHaveSessions`); a lookup of a manual trigger brings what was so of
  the version it was for, and stays so, since versions do not change (`LookupsTrue`); the versions
  a toolbar shows, but for the one it just deleted, exist, and it keeps one besides the one its
  dialog is about (`ShowsVersions`), which carries to the service because only one call of a
  dialog is under way (`CallsOfDialog`) and none outlives a load that was answered (`LoadsAlone`);
  the canvas paints the run whose subscription is alive (`SelectedIsFollowed`). `ScheduleStaysAsLeft == Spec =>
  []ScheduleIsAsLeft` is about two promises of the schedule. A schedule is known by a number that
  no later one gets (`NumbersFit`), and no call but the switch and the live edits carries a change
  that resumes it (`OnlyAskedResumes`), so a paused one stays paused through publications,
  retries and deletions. The draft that is shown is the one that is kept (`DraftIsKept`), and a
  sequence that ends with dropping it carries it, until the service has confirmed it
  (`CarriesDraft`); this needs that every published version has a trigger, since without one the
  sequence of a publication deletes the schedule and drops the draft (`payload_draft`).

`OneTaskPerExecution`, `PublishedExists` and `CompletedMeansStepsCompleted` are proved, and are in
no run's list. Out of the prover's reach, and left to TLC: the liveness properties (`RunsEnd`, `CancellationTakesEffect`, `PendingIsDispatched`, `RunningEnds`,
`EventsStored`, `DueIsAdvanced`, `OutcomeIsShown`). Every invariant of a
passing run is a theorem.

## 5. Not modelled

* The forms of the inspector (`NodeInspector.jsx`, `VariablePicker`): one form per kind of node over
  one configuration object, with no calls of their own but those of the schedule, which is
  `SchedulePanel`. `WorkflowEditor` has a configuration as the reference it contains.
* Presentation: landing, legal and help pages, layout, icons, the overview of the
  dashboard and the list of executions, which only read.
* Pure functions of one call: workflow validation, retry policy, expressions and payloads.
  They are total functions of their input; the actions that call them succeed or fail.
* AI and action providers as HTTP clients, lifecycle events, the gateway and the MCP
  server, which forward requests and keep no state the core depends on.
* The webhook calls of workflow-service and the public endpoint of a webhook; what
  the page of webhooks meets is modelled.
* Deployment, beyond the one replica per service that the models assume.

What would come next, the most important first: two
requests at once in `WorkflowVersions` with the properties that survive them; the
validation of workflows against reference definitions over all small graphs.
