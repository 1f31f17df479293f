------------------------- MODULE WorkflowSchedules -------------------------
(***************************************************************************)
(* The schedule of one workflow: users create, edit, pause and resume it,  *)
(* workflow-service synchronises and suspends it, and Celery tasks advance *)
(* it when it is due and publish an event for the version it names.        *)
(***************************************************************************)
EXTENDS WorkflowVersions

CONSTANTS
  Worker,    \* Celery tasks that can run check_due_schedules at once
  MaxTime,   \* bound on the clock
  MaxDeaths  \* bound on tasks that die

ASSUME SchedulesAssumption ==
  MaxTime \in Nat /\ MaxDeaths \in Nat

VARIABLES
  schedule, \* the row of workflow_schedules; a deleted one is not created again
  now,
  task,     \* where each Celery task is, what it found and what it read
  deaths,   \* history: tasks that died
  lagging   \* history: a committed publication whose call has not returned

scheduleVars == <<schedule, now, task, deaths, lagging>>
vars == <<versionVars, scheduleVars>>

Row == [version : Version, enabled : BOOLEAN, next : Nat \cup {None}]
NoSchedule == {"absent", "deleted"}
Schedule == [state : {"present"}, row : Row] \cup [state : NoSchedule, row : {None}]

Present == schedule.state = "present"
NoRow(state) == [state |-> state, row |-> None]
Store(row) == schedule' = [state |-> "present", row |-> row]

Suspended == Present => schedule.row.next = None

\* calculate_next_run: strictly later, whatever the kind of schedule.
NextRun == now + 1

Idle == [at |-> "idle", version |-> None, due |-> None]

SchedulesInit ==
  /\ Init
  /\ schedule = NoRow("absent") /\ now = 0
  /\ task = [w \in Worker |-> Idle] /\ deaths = 0 /\ lagging = FALSE

-----------------------------------------------------------------------------
(* Calls from workflow-service.                                            *)

\* A call without a schedule to synchronise affects nothing.
SyncRead(r) ==
  /\ pc[r] = "sync"
  /\ \/ /\ Present
        /\ Goto(r, "sync_write", [seen[r] EXCEPT !.row = schedule.row])
        /\ UNCHANGED <<rowVars, lagging>>
     \/ ~Present /\ CallReturns(r) /\ lagging' = FALSE
  /\ UNCHANGED <<schedule, now, task, deaths>>

\* Mutant: the version of the schedule is left as it is.
SynchronizedKeepsVersion(row, read) ==
  [row EXCEPT !.next = Written(@, read.row.next,
                         IF read.scheduled /\ read.row.enabled THEN NextRun ELSE None)]

\* What sync_workflow_schedule writes into the row, having loaded read.row.
Synchronized(row, read) ==
  IF read.scheduled
  THEN [row EXCEPT !.version = Written(@, read.row.version, read.version),
                   !.next = Written(@, read.row.next,
                              IF read.row.enabled THEN NextRun ELSE None)]
  ELSE [row EXCEPT !.next = Written(@, read.row.next, None)]

SyncWrite(r) ==
  /\ pc[r] = "sync_write" /\ Present
  /\ Store(Synchronized(schedule.row, seen[r]))
  /\ CallReturns(r) /\ lagging' = FALSE
  /\ UNCHANGED <<now, task, deaths>>

Suspend(r) ==
  /\ pc[r] = "suspend" /\ CallReturns(r)
  /\ \/ Present /\ Store([schedule.row EXCEPT !.next = None])
     \/ ~Present /\ UNCHANGED schedule
  /\ UNCHANGED <<now, task, deaths, lagging>>

DeleteWithWorkflow(r) ==
  /\ pc[r] = "delete_schedule" /\ CallReturns(r)
  /\ \/ Present /\ schedule' = NoRow("deleted")
     \/ ~Present /\ UNCHANGED schedule
  /\ UNCHANGED <<now, task, deaths, lagging>>

-----------------------------------------------------------------------------
(* Requests about the schedule.                                            *)

\* GetWorkflowDefinition answers, and the version has one scheduled trigger.
Executable(v) ==
  /\ v # None /\ status = "active"
  /\ versions[v] = "published" /\ nodes[v] \in Scheduled

\* GetPublishedVersion.
CreateRead(r) ==
  /\ pc[r] = "idle" /\ schedule.state = "absent" /\ published # None
  /\ \E change \in {"pause", "resume"} :
       Goto(r, "create_check", [NothingSeen EXCEPT !.version = published, !.change = change])
  /\ UNCHANGED <<rowVars, scheduleVars>>

CreateCheck(r) ==
  /\ pc[r] = "create_check" /\ Executable(seen[r].version)
  /\ Goto(r, "create", seen[r])
  /\ UNCHANGED <<rowVars, scheduleVars>>

CreateCommit(r) ==
  LET enabled == seen[r].change = "resume" IN
  /\ pc[r] = "create" /\ schedule.state = "absent"
  /\ Store([version |-> seen[r].version, enabled |-> enabled,
            next |-> IF enabled THEN NextRun ELSE None])
  /\ Done(r)
  /\ UNCHANGED <<rowVars, now, task, deaths, lagging>>

\* A change sets enabled, or only the configuration.
UpdateRead(r) ==
  /\ pc[r] = "idle" /\ Present
  /\ \E change \in {"pause", "resume", "edit"} :
       Goto(r, "update_published",
            [NothingSeen EXCEPT !.row = schedule.row, !.change = change])
  /\ UNCHANGED <<rowVars, scheduleVars>>

UpdatePublished(r) ==
  /\ pc[r] = "update_published"
  /\ Goto(r, "update_check", [seen[r] EXCEPT !.version = published])
  /\ UNCHANGED <<rowVars, scheduleVars>>

\* The field scheduled now says whether the versions are compatible.
UpdateCheck(r) ==
  LET compatible == Executable(seen[r].version) /\ seen[r].row.version = seen[r].version
  IN
  /\ pc[r] = "update_check"
  /\ seen[r].change = "resume" => compatible
  /\ Goto(r, "update", [seen[r] EXCEPT !.scheduled = compatible])
  /\ UNCHANGED <<rowVars, scheduleVars>>

MaySchedule(read) ==
  /\ read.scheduled
  /\ \/ read.change = "resume"
     \/ read.change = "edit" /\ read.row.enabled /\ read.row.next # None

UpdateCommit(r) ==
  LET read == seen[r]
      enabled == CASE read.change = "resume" -> TRUE [] read.change = "pause" -> FALSE
                   [] OTHER -> read.row.enabled
  IN
  /\ pc[r] = "update" /\ Present
  /\ Store([schedule.row EXCEPT
       !.enabled = Written(@, read.row.enabled, enabled),
       !.next = Written(@, read.row.next, IF MaySchedule(read) THEN NextRun ELSE None)])
  /\ Done(r)
  /\ UNCHANGED <<rowVars, now, task, deaths, lagging>>

DeleteSchedule ==
  /\ Present
  /\ schedule' = NoRow("deleted")
  /\ UNCHANGED <<versionVars, now, task, deaths, lagging>>

-----------------------------------------------------------------------------
(* check_due_schedules.                                                    *)

Move(w, at, version, due) ==
  task' = [task EXCEPT ![w] = [at |-> at, version |-> version, due |-> due]]

Due == Present /\ schedule.row.enabled /\ schedule.row.next # None

Find(w) ==
  /\ task[w].at = "idle" /\ Due /\ schedule.row.next <= now
  /\ Move(w, "found", schedule.row.version, None)
  /\ UNCHANGED <<versionVars, schedule, now, deaths, lagging>>

\* The row is read again; it need not be due any more.
ReadAgain(w) ==
  /\ task[w].at = "found"
  /\ \/ Due /\ Move(w, "read", task[w].version, schedule.row.next)
     \/ ~Due /\ Move(w, "idle", None, None)
  /\ UNCHANGED <<versionVars, schedule, now, deaths, lagging>>

\* Mutant: the next run is computed from the last one, not from the clock.
AdvancedByOne(row) == [row EXCEPT !.next = @]

Advanced(row) == [row EXCEPT !.next = NextRun]

Advance(w) ==
  /\ task[w].at = "read"
  /\ \/ /\ Due /\ schedule.row.next = task[w].due
        /\ Store(Advanced(schedule.row))
        /\ Move(w, "publish", task[w].version, task[w].due)
     \/ ~(Due /\ schedule.row.next = task[w].due)
        /\ Move(w, "idle", None, None) /\ UNCHANGED schedule
  /\ UNCHANGED <<versionVars, now, deaths, lagging>>

\* The event goes to Kafka; TriggerIngestion takes it from there.
PublishEvent(w) ==
  /\ task[w].at = "publish"
  /\ Move(w, "idle", None, None)
  /\ UNCHANGED <<versionVars, schedule, now, deaths, lagging>>

Die(w) ==
  /\ task[w].at # "idle" /\ deaths < MaxDeaths
  /\ deaths' = deaths + 1
  /\ Move(w, "idle", None, None)
  /\ UNCHANGED <<versionVars, schedule, now, lagging>>

TaskStep(w) == Find(w) \/ ReadAgain(w) \/ Advance(w) \/ PublishEvent(w)

Tick ==
  /\ now < MaxTime
  /\ now' = now + 1
  /\ UNCHANGED <<versionVars, schedule, task, deaths, lagging>>

-----------------------------------------------------------------------------
\* A publication lags from its commit until a synchronisation returns.
VersionsNext ==
  /\ VersionsStep
  /\ lagging' = (lagging \/ \E r \in Request : PublishCommit(r))
  /\ UNCHANGED <<schedule, now, task, deaths>>

RequestAborts(r) == Abort(r) /\ UNCHANGED scheduleVars

Next ==
  \/ VersionsNext \/ Tick \/ DeleteSchedule
  \/ \E r \in Request :
       \/ SyncRead(r) \/ SyncWrite(r) \/ Suspend(r) \/ DeleteWithWorkflow(r)
       \/ CreateRead(r) \/ CreateCheck(r) \/ CreateCommit(r)
       \/ UpdateRead(r) \/ UpdatePublished(r) \/ UpdateCheck(r) \/ UpdateCommit(r)
       \/ RequestAborts(r)
  \/ \E w \in Worker : TaskStep(w) \/ Die(w)

Spec == SchedulesInit /\ [][Next]_vars

\* Beat starts check_due_schedules every minute, and it runs.
FairSpec == Spec /\ \A w \in Worker : WF_vars(TaskStep(w))

-----------------------------------------------------------------------------
Label == {"idle", "edit", "publish", "sync", "sync_write", "activate", "suspend",
          "deactivate", "delete_version", "delete_workflow", "delete_schedule",
          "create_check", "create", "update_published", "update_check", "update"}

Seen == [version : Version \cup {None}, status : WorkflowStatus,
         published : Version \cup {None}, scheduled : BOOLEAN, row : Row \cup {None},
         change : {"pause", "resume", "edit"}]

Task == [at : {"idle", "found", "read", "publish"}, version : Version \cup {None},
         due : Nat \cup {None}]

TypeOK ==
  /\ status \in WorkflowStatus /\ published \in Version \cup {None}
  /\ versions \in [Version -> VersionState] /\ nodes \in [Version -> Definition]
  /\ pc \in [Request -> Label] /\ seen \in [Request -> Seen]
  /\ schedule \in Schedule /\ now \in 0..MaxTime
  /\ task \in [Worker -> Task] /\ deaths \in Nat /\ lagging \in BOOLEAN

\* "Suspend first so a failed gRPC request cannot leave an active schedule
\* after the workflow is marked inactive" (workflow_service.py:1035): such a
\* schedule would send events that the consumer of executions stops at.
InactiveIsSuspended == status # "active" => Suspended

\* What is scheduled is the published version, unless workflow-service could
\* not confirm the synchronisation and said so.
FollowsPublication ==
  Present /\ schedule.row.next # None /\ ~lagging =>
    /\ schedule.row.version = published
    /\ nodes[published] \in Scheduled

\* A schedule names, and a task publishes, only versions that were published
\* once: never a draft, in whatever order publication and synchronisation,
\* creation and deletion meet.
NeverDraft ==
  /\ Present => WasPublished(schedule.row.version)
  /\ \A w \in Worker : task[w].at # "idle" => WasPublished(task[w].version)

\* A due occurrence is claimed or withdrawn, also when tasks die.
DueIsAdvanced ==
  (Due /\ schedule.row.next <= now) ~> ~(Due /\ schedule.row.next <= now)
=============================================================================
