---------------------- MODULE WorkflowSchedules_proofs ----------------------
(***************************************************************************)
(* TLAPS proofs that, for any number of requests and tasks in any order,   *)
(* the published version exists and neither a schedule nor a task ever     *)
(* names a draft; and that, where requests follow each other, a schedule   *)
(* follows what is published and rests while the workflow is inactive.     *)
(***************************************************************************)
EXTENDS WorkflowSchedules, TLAPS

\* What a request has read by the time it is at a label, if vs are the versions.
Good(label, read, vs) ==
  /\ label \in {"edit", "publish", "sync", "sync_write", "delete_version",
                "create_check", "create"} => read.version \in Version
  /\ label \in {"sync", "sync_write", "create_check", "create"} =>
       vs[read.version] \in {"published", "deleted"}
  /\ label \in {"sync_write", "update_published", "update_check", "update"} =>
       read.row \in Row

Requests == \A r \in Request : Good(pc[r], seen[r], versions)

Tables ==
  /\ status \in WorkflowStatus /\ published \in Version \cup {None}
  /\ versions \in [Version -> VersionState] /\ nodes \in [Version -> Definition]

Progress == pc \in [Request -> Label] /\ seen \in [Request -> Seen] /\ Requests

ScheduleNeverDraft ==
  schedule \in Schedule /\ (Present => WasPublished(schedule.row.version))

TasksNeverDraft ==
  /\ task \in [Worker -> Task]
  /\ \A w \in Worker : task[w].at # "idle" =>
                        task[w].version \in Version /\ WasPublished(task[w].version)

Rest == now \in 0..MaxTime /\ deaths \in Nat /\ lagging \in BOOLEAN

Consistent ==
  Tables /\ PublishedExists /\ Progress /\ ScheduleNeverDraft /\ TasksNeverDraft /\ Rest

\* A version that was published stays one that was.
Kept == \A v \in Version : WasPublished(v) => WasPublished(v)'

-----------------------------------------------------------------------------
LEMMA NoneIsNoVersion == None \notin Version /\ Version \subseteq Nat
BY VersionsAssumption DEF Version

LEMMA UnchangedKeeps == versions' = versions => Kept
BY DEF Kept, WasPublished

LEMMA NothingSeenTyped == NothingSeen \in Seen
BY DEF NothingSeen, Seen, WorkflowStatus

LEMMA LoadedTyped == Tables => Loaded \in Seen
BY DEF Loaded, NothingSeen, Seen, Tables

LEMMA ForSyncTyped ==
  ASSUME NEW v \in Version, NEW b \in BOOLEAN
  PROVE  ForSync(v, b) \in Seen /\ ForSync(v, b).version = v
BY DEF ForSync, NothingSeen, Seen, WorkflowStatus

\* A request moves on with what it has read, the others stay where they are.
LEMMA RequestMoves ==
  ASSUME Progress, Kept, NEW r \in Request, NEW label \in Label, NEW read \in Seen,
         Goto(r, label, read), Good(label, read, versions')
  PROVE  Progress'
<1>1. /\ pc' \in [Request -> Label] /\ pc'[r] = label
      /\ seen' \in [Request -> Seen] /\ seen'[r] = read
  BY DEF Progress, Goto
<1>2. ASSUME NEW s \in Request, s # r PROVE Good(pc[s], seen[s], versions)'
  <2>1. pc'[s] = pc[s] /\ seen'[s] = seen[s]
    BY <1>2 DEF Progress, Goto
  <2>2. Good(pc[s], seen[s], versions)
    BY DEF Progress, Requests
  <2> QED
    BY <2>1, <2>2 DEF Good, Kept, WasPublished
<1>3. Good(pc[r], seen[r], versions)'
  BY <1>1 DEF Good, WasPublished
<1> QED
  BY <1>1, <1>2, <1>3 DEF Progress, Requests

LEMMA RequestEnds ==
  ASSUME Progress, Kept, NEW r \in Request, Done(r)
  PROVE  Progress'
<1>1. "idle" \in Label /\ Good("idle", NothingSeen, versions')
  BY DEF Label, Good
<1> QED
  BY <1>1, NothingSeenTyped, RequestMoves DEF Done

LEMMA RequestsWait ==
  ASSUME Progress, Kept, UNCHANGED requestVars
  PROVE  Progress'
BY DEF Progress, Requests, Kept, Good, WasPublished, requestVars

LEMMA ScheduleWaits ==
  ASSUME ScheduleNeverDraft, Kept, UNCHANGED schedule
  PROVE  ScheduleNeverDraft'
BY DEF ScheduleNeverDraft, Kept, WasPublished, Present, Schedule, Row, NoSchedule

LEMMA TasksWait ==
  ASSUME TasksNeverDraft, Kept, UNCHANGED task
  PROVE  TasksNeverDraft'
BY DEF TasksNeverDraft, Kept, WasPublished

-----------------------------------------------------------------------------
LEMMA InitConsistent == SchedulesInit => Consistent
<1> SUFFICES ASSUME SchedulesInit PROVE Consistent
  OBVIOUS
<1>1. Tables /\ PublishedExists
  BY VersionsAssumption
  DEF SchedulesInit, Init, Tables, PublishedExists, WorkflowStatus, VersionState, Version
<1>2. Progress
  BY NothingSeenTyped DEF SchedulesInit, Init, Progress, Requests, Good, Label
<1>3. ScheduleNeverDraft
  BY DEF SchedulesInit, NoRow, ScheduleNeverDraft, Schedule, NoSchedule, Present
<1>4. TasksNeverDraft
  BY DEF SchedulesInit, Idle, TasksNeverDraft, Task
<1>5. now \in 0..MaxTime /\ deaths \in Nat
  BY SchedulesAssumption DEF SchedulesInit
<1>6. Rest
  BY <1>5 DEF SchedulesInit, Rest
<1> QED
  BY <1>1, <1>2, <1>3, <1>4, <1>6 DEF Consistent

\* The rows of the workflow after each of the steps of workflow-service, and
\* what is known of the request that takes it.
LEMMA CreateDraftTables ==
  ASSUME Tables, PublishedExists, NEW v \in Version, CreateDraft(v)
  PROVE  Tables' /\ PublishedExists' /\ Kept
<1>1. versions' \in [Version -> VersionState]
  BY DEF CreateDraft, Tables, VersionState
<1>2. nodes' \in [Version -> Definition]
  BY DEF CreateDraft, Tables
<1>3. \A u \in Version : versions[u] # "absent" => versions'[u] = versions[u]
  BY DEF CreateDraft, Tables
<1> QED
  BY <1>1, <1>2, <1>3 DEF CreateDraft, Tables, PublishedExists, Kept, WasPublished

LEMMA EditCommitTables ==
  ASSUME Tables, PublishedExists, NEW r \in Request, EditCommit(r)
  PROVE  Tables' /\ PublishedExists' /\ Kept
BY DEF EditCommit, Tables, PublishedExists, Kept, WasPublished

LEMMA PublishCommitTables ==
  ASSUME Tables, PublishedExists, Progress, NEW r \in Request, PublishCommit(r)
  PROVE  /\ Tables' /\ PublishedExists' /\ Kept
         /\ seen[r].version \in Version /\ versions'[seen[r].version] = "published"
         /\ seen[r].scheduled \in BOOLEAN
<1>1. seen[r].version \in Version /\ seen[r] \in Seen
  BY DEF PublishCommit, Progress, Requests, Good
<1>2. versions' \in [Version -> VersionState] /\ versions'[seen[r].version] = "published"
  BY <1>1 DEF PublishCommit, Tables, VersionState
<1>3. \A u \in Version : u # seen[r].version => versions'[u] = versions[u]
  BY <1>1 DEF PublishCommit, Tables
<1>4. Tables'
  BY <1>1, <1>2 DEF PublishCommit, Tables, WorkflowStatus, Written
<1>5. PublishedExists' /\ Kept
  BY <1>2, <1>3 DEF PublishCommit, PublishedExists, Kept, WasPublished
<1> QED
  BY <1>1, <1>2, <1>4, <1>5 DEF Seen

LEMMA ActivateCommitTables ==
  ASSUME Tables, PublishedExists, NEW r \in Request, ActivateCommit(r)
  PROVE  Tables' /\ PublishedExists' /\ Kept
BY DEF ActivateCommit, Tables, PublishedExists, Kept, WasPublished, WorkflowStatus

LEMMA DeactivateCommitTables ==
  ASSUME Tables, PublishedExists, NEW r \in Request, DeactivateCommit(r)
  PROVE  Tables' /\ PublishedExists' /\ Kept
BY DEF DeactivateCommit, Tables, PublishedExists, Kept, WasPublished, WorkflowStatus

LEMMA DeleteVersionTables ==
  ASSUME Tables, PublishedExists, Progress, NEW r \in Request, DeleteVersionCommit(r)
  PROVE  Tables' /\ PublishedExists' /\ Kept
<1>1. seen[r].version \in Version
  BY DEF DeleteVersionCommit, Progress, Requests, Good
<1> QED
  BY <1>1, NoneIsNoVersion DEF DeleteVersionCommit, Tables, PublishedExists, Kept,
     WasPublished, VersionState

LEMMA DeleteWorkflowTables ==
  ASSUME Tables, PublishedExists, NEW r \in Request, DeleteWorkflowCommit(r)
  PROVE  Tables' /\ PublishedExists' /\ Kept
BY NoneIsNoVersion DEF DeleteWorkflowCommit, Tables, PublishedExists, Kept,
   WasPublished, VersionState, WorkflowStatus, Exists

LEMMA TablesWait ==
  ASSUME Tables, PublishedExists, UNCHANGED rowVars
  PROVE  Tables' /\ PublishedExists' /\ Kept
BY DEF rowVars, Tables, PublishedExists, Kept, WasPublished

-----------------------------------------------------------------------------
LEMMA VersionsStepConsistent ==
  ASSUME Tables, PublishedExists, Progress, VersionsStep
  PROVE  Tables' /\ PublishedExists' /\ Progress' /\ Kept
<1> DEFINE Goal == Tables' /\ PublishedExists' /\ Progress' /\ Kept
<1>0. SUFFICES Goal
  OBVIOUS
<1>1. ASSUME NEW v \in Version, CreateDraft(v) PROVE Goal
  BY <1>1, CreateDraftTables, RequestsWait DEF CreateDraft
<1>2. ASSUME NEW r \in Request, NEW v \in Version, EditRead(r, v) PROVE Goal
  <2>1. Tables' /\ PublishedExists' /\ Kept
    BY <1>2, TablesWait DEF EditRead
  <2> DEFINE read == [NothingSeen EXCEPT !.version = v]
  <2>2. read \in Seen /\ read.version = v /\ "edit" \in Label
    BY DEF NothingSeen, Seen, WorkflowStatus, Label
  <2>3. Goto(r, "edit", read) /\ Good("edit", read, versions')
    BY <1>2, <2>2 DEF EditRead, Good
  <2> HIDE DEF read
  <2> QED
    BY <2>1, <2>2, <2>3, RequestMoves
<1>3. ASSUME NEW r \in Request, NEW v \in Version, PublishRead(r, v) PROVE Goal
  <2>1. Tables' /\ PublishedExists' /\ Kept
    BY <1>3, TablesWait DEF PublishRead
  <2> DEFINE scheduled == nodes[v] \in Scheduled
             loaded == [Loaded EXCEPT !.version = v, !.scheduled = scheduled]
  <2>2. scheduled \in BOOLEAN /\ "sync" \in Label /\ "publish" \in Label
    BY DEF Label
  <2>3. CASE AlreadyPublished(v) /\ Goto(r, "sync", ForSync(v, scheduled))
    <3>1. ForSync(v, scheduled) \in Seen /\ ForSync(v, scheduled).version = v
      BY <2>2, ForSyncTyped
    <3>2. Good("sync", ForSync(v, scheduled), versions')
      BY <2>1, <2>3, <3>1 DEF Good, AlreadyPublished, Kept, WasPublished
    <3> QED
      BY <2>1, <2>2, <2>3, <3>1, <3>2, RequestMoves
  <2>4. CASE Goto(r, "publish", loaded)
    <3>1. ASSUME NEW b \in BOOLEAN
          PROVE  /\ [Loaded EXCEPT !.version = v, !.scheduled = b] \in Seen
                 /\ [Loaded EXCEPT !.version = v, !.scheduled = b].version = v
      BY LoadedTyped DEF Seen
    <3>. loaded \in Seen /\ loaded.version = v
      BY <2>2, <3>1
    <3>2. Good("publish", loaded, versions')
      BY <3>1 DEF Good
    <3> HIDE DEF loaded
    <3> QED
      BY <2>1, <2>2, <2>4, <3>1, <3>2, RequestMoves
  <2> QED
    BY <1>3, <2>3, <2>4 DEF PublishRead
<1>4. ASSUME NEW r \in Request, NEW v \in Version, DeleteVersionRead(r, v) PROVE Goal
  <2>1. Tables' /\ PublishedExists' /\ Kept
    BY <1>4, TablesWait DEF DeleteVersionRead
  <2> DEFINE read == [Loaded EXCEPT !.version = v]
  <2>2. read \in Seen /\ read.version = v /\ "delete_version" \in Label
    BY DEF Loaded, NothingSeen, Seen, Tables, Label
  <2>3. Goto(r, "delete_version", read) /\ Good("delete_version", read, versions')
    BY <1>4, <2>2 DEF DeleteVersionRead, Good
  <2> HIDE DEF read
  <2> QED
    BY <2>1, <2>2, <2>3, RequestMoves
<1>5. ASSUME NEW r \in Request, ActivateRead(r) PROVE Goal
  <2>1. Tables' /\ PublishedExists' /\ Kept
    BY <1>5, TablesWait DEF ActivateRead
  <2> DEFINE scheduled == nodes[published] \in Scheduled
             read == [NothingSeen EXCEPT !.scheduled = scheduled]
  <2>a. ASSUME NEW b \in BOOLEAN PROVE [NothingSeen EXCEPT !.scheduled = b] \in Seen
    BY NothingSeenTyped DEF Seen
  <2>b. scheduled \in BOOLEAN
    OBVIOUS
  <2>2. read \in Seen /\ "activate" \in Label
    BY <2>a, <2>b DEF Label
  <2>3. Goto(r, "activate", read) /\ Good("activate", read, versions')
    BY <1>5 DEF ActivateRead, Good
  <2> HIDE DEF read
  <2> QED
    BY <2>1, <2>2, <2>3, RequestMoves
<1>6. ASSUME NEW r \in Request, DeactivateRead(r) PROVE Goal
  <2>1. Tables' /\ PublishedExists' /\ Kept
    BY <1>6, TablesWait DEF DeactivateRead
  <2>2. "suspend" \in Label /\ Good("suspend", NothingSeen, versions')
    BY DEF Label, Good
  <2> QED
    BY <1>6, <2>1, <2>2, NothingSeenTyped, RequestMoves DEF DeactivateRead
<1>7. ASSUME NEW r \in Request, DeleteWorkflowRead(r) PROVE Goal
  <2>1. Tables' /\ PublishedExists' /\ Kept
    BY <1>7, TablesWait DEF DeleteWorkflowRead
  <2>2. "delete_workflow" \in Label /\ Good("delete_workflow", Loaded, versions')
    BY DEF Label, Good
  <2> QED
    BY <1>7, <2>1, <2>2, LoadedTyped, RequestMoves DEF DeleteWorkflowRead
<1>8. ASSUME NEW r \in Request, EditCommit(r) PROVE Goal
  BY <1>8, EditCommitTables, RequestEnds DEF EditCommit
<1>9. ASSUME NEW r \in Request, PublishCommit(r) PROVE Goal
  <2> DEFINE v == seen[r].version
             read == ForSync(v, seen[r].scheduled)
  <2>1. /\ Tables' /\ PublishedExists' /\ Kept
        /\ v \in Version /\ versions'[v] = "published" /\ seen[r].scheduled \in BOOLEAN
    BY <1>9, PublishCommitTables
  <2>2. read \in Seen /\ read.version = v /\ "sync" \in Label
    BY <2>1, ForSyncTyped DEF Label
  <2>3. Goto(r, "sync", read)
    BY <1>9 DEF PublishCommit
  <2>4. Good("sync", read, versions')
    BY <2>1, <2>2 DEF Good
  <2> HIDE DEF read
  <2> QED
    BY <2>1, <2>2, <2>3, <2>4, RequestMoves
<1>10. ASSUME NEW r \in Request, ActivateCommit(r) PROVE Goal
  <2>1. Tables' /\ PublishedExists' /\ Kept
    BY <1>10, ActivateCommitTables
  <2>2. CASE published = None
    BY <1>10, <2>1, <2>2, RequestEnds DEF ActivateCommit
  <2>3. CASE published # None
    <3> DEFINE read == ForSync(published, seen[r].scheduled)
    <3>1. published \in Version /\ versions'[published] = "published"
      BY <1>10, <2>3 DEF ActivateCommit, Tables, PublishedExists
    <3>2. seen[r].scheduled \in BOOLEAN
      BY DEF Progress, Seen
    <3>3. read \in Seen /\ read.version = published /\ "sync" \in Label
      BY <3>1, <3>2, ForSyncTyped DEF Label
    <3>4. Goto(r, "sync", read) /\ Good("sync", read, versions')
      BY <1>10, <2>3, <3>1, <3>3 DEF ActivateCommit, Good
    <3> HIDE DEF read
    <3> QED
      BY <2>1, <3>3, <3>4, RequestMoves
  <2> QED
    BY <2>2, <2>3
<1>11. ASSUME NEW r \in Request, DeactivateCommit(r) PROVE Goal
  BY <1>11, DeactivateCommitTables, RequestEnds DEF DeactivateCommit
<1>12. ASSUME NEW r \in Request, DeleteVersionCommit(r) PROVE Goal
  BY <1>12, DeleteVersionTables, RequestEnds DEF DeleteVersionCommit
<1>13. ASSUME NEW r \in Request, DeleteWorkflowCommit(r) PROVE Goal
  <2>1. "delete_schedule" \in Label /\ Good("delete_schedule", NothingSeen, versions')
    BY DEF Label, Good
  <2> QED
    BY <1>13, <2>1, DeleteWorkflowTables, NothingSeenTyped, RequestMoves
    DEF DeleteWorkflowCommit
<1> QED
  BY <1>1, <1>2, <1>3, <1>4, <1>5, <1>6, <1>7, <1>8, <1>9, <1>10, <1>11, <1>12, <1>13
  DEF VersionsStep

-----------------------------------------------------------------------------
LEMMA Parts ==
  Consistent => /\ Tables /\ PublishedExists /\ Progress
                /\ ScheduleNeverDraft /\ TasksNeverDraft /\ Rest
BY DEF Consistent

\* What a step that leaves the workflow alone has to show.
LEMMA RestOfStep ==
  ASSUME Consistent, UNCHANGED rowVars, Progress', ScheduleNeverDraft',
         TasksNeverDraft', Rest'
  PROVE  Consistent'
BY TablesWait DEF Consistent

LEMMA CallEnds ==
  ASSUME Tables, PublishedExists, Progress, NEW r \in Request, CallReturns(r)
  PROVE  Progress' /\ UNCHANGED rowVars
<1>1. Kept /\ UNCHANGED rowVars
  BY TablesWait DEF CallReturns
<1>2. CASE Done(r)
  BY <1>1, <1>2, RequestEnds
<1>3. CASE Goto(r, "deactivate", seen[r])
  <2>1. seen[r] \in Seen /\ "deactivate" \in Label /\ Good("deactivate", seen[r], versions')
    BY DEF Progress, Label, Good
  <2> QED
    BY <1>1, <1>3, <2>1, RequestMoves
<1> QED
  BY <1>1, <1>2, <1>3 DEF CallReturns

\* A row that is stored keeps the schedule typed, and a published version in it.
LEMMA Stored ==
  ASSUME NEW row \in Row, versions'[row.version] \in {"published", "deleted"},
         Store(row)
  PROVE  ScheduleNeverDraft'
BY DEF Store, ScheduleNeverDraft, Schedule, Present, WasPublished

LEMMA Removed ==
  ASSUME schedule' = NoRow("deleted")
  PROVE  ScheduleNeverDraft'
BY DEF NoRow, ScheduleNeverDraft, Schedule, Present, NoSchedule

LEMMA RowOfPresent ==
  ASSUME ScheduleNeverDraft, Present
  PROVE  schedule.row \in Row /\ WasPublished(schedule.row.version)
BY DEF ScheduleNeverDraft, Schedule, Present, NoSchedule

LEMMA SynchronizedTyped ==
  ASSUME NEW row \in Row, NEW read, read.version \in Version, Rest
  PROVE  /\ Synchronized(row, read) \in Row
         /\ Synchronized(row, read).version \in {row.version, read.version}
<1>1. NextRun \in Nat
  BY DEF Rest, NextRun
<1> QED
  BY <1>1 DEF Synchronized, Written, Row

LEMMA SyncReadConsistent ==
  ASSUME Consistent, NEW r \in Request, SyncRead(r)
  PROVE  Consistent'
<1>1. Tables /\ PublishedExists /\ Progress /\ ScheduleNeverDraft /\ TasksNeverDraft /\ Rest
  BY Parts
<1>2. UNCHANGED rowVars /\ UNCHANGED <<schedule, now, task, deaths>>
  BY DEF SyncRead, CallReturns
<1>3. Kept
  BY <1>1, <1>2, TablesWait
<1>4. Progress'
  <2>1. CASE Present /\ Goto(r, "sync_write", [seen[r] EXCEPT !.row = schedule.row])
    <3> DEFINE read == [seen[r] EXCEPT !.row = schedule.row]
    <3>1. /\ schedule.row \in Row
          /\ seen[r] \in Seen /\ Good("sync", seen[r], versions)
      BY <1>1, <2>1, RowOfPresent DEF SyncRead, Progress, Requests
    <3>2. /\ read \in Seen /\ read.version = seen[r].version /\ read.row = schedule.row
          /\ "sync_write" \in Label
      BY <3>1 DEF Seen, Label
    <3>3. Goto(r, "sync_write", read)
      BY <2>1
    <3> HIDE DEF read
    <3>4. Good("sync_write", read, versions')
      BY <1>3, <3>1, <3>2 DEF Good, Kept, WasPublished
    <3> QED
      BY <1>1, <1>3, <3>2, <3>3, <3>4, RequestMoves
  <2>2. CASE CallReturns(r)
    BY <1>1, <2>2, CallEnds
  <2> QED
    BY <2>1, <2>2 DEF SyncRead
<1>5. ScheduleNeverDraft' /\ TasksNeverDraft'
  BY <1>1, <1>2, <1>3, ScheduleWaits, TasksWait
<1>6. Rest'
  BY <1>1, <1>2 DEF SyncRead, Rest
<1> QED
  BY <1>2, <1>4, <1>5, <1>6, RestOfStep

\* A step that only moves requests, and one that may also change the schedule.
LEMMA RequestStep ==
  ASSUME Consistent, UNCHANGED <<rowVars, scheduleVars>>, Progress'
  PROVE  Consistent'
<1>1. UNCHANGED <<schedule, now, task, deaths, lagging>> /\ UNCHANGED rowVars /\ Kept
  BY Parts, TablesWait DEF scheduleVars
<1>2. ScheduleNeverDraft' /\ TasksNeverDraft'
  BY <1>1, Parts, ScheduleWaits, TasksWait
<1>3. Rest'
  BY <1>1, Parts DEF Rest
<1> QED
  BY <1>1, <1>2, <1>3, RestOfStep

LEMMA ScheduleStep ==
  ASSUME Consistent, UNCHANGED rowVars, UNCHANGED <<now, task, deaths>>,
         lagging' \in BOOLEAN, Progress', ScheduleNeverDraft'
  PROVE  Consistent'
<1>1. Kept
  BY Parts, TablesWait
<1>2. TasksNeverDraft' /\ Rest'
  BY <1>1, Parts, TasksWait DEF Rest
<1> QED
  BY <1>2, RestOfStep

LEMMA SyncWriteConsistent ==
  ASSUME Consistent, NEW r \in Request, SyncWrite(r)
  PROVE  Consistent'
<1>1. Progress' /\ UNCHANGED rowVars
  BY Parts, CallEnds DEF SyncWrite
<1>2. Good("sync_write", seen[r], versions)
  BY Parts DEF SyncWrite, Progress, Requests
<1>3. schedule.row \in Row /\ WasPublished(schedule.row.version) /\ Rest
  BY Parts, RowOfPresent DEF SyncWrite
<1> DEFINE row == Synchronized(schedule.row, seen[r])
<1>4. row \in Row /\ row.version \in {schedule.row.version, seen[r].version}
  BY <1>2, <1>3, SynchronizedTyped DEF Good
<1>5. Store(row)
  BY DEF SyncWrite
<1> HIDE DEF row
<1>6. versions'[row.version] \in {"published", "deleted"}
  BY <1>1, <1>2, <1>3, <1>4 DEF Good, WasPublished, rowVars
<1>7. ScheduleNeverDraft'
  BY <1>4, <1>5, <1>6, Stored
<1> QED
  BY <1>1, <1>7, ScheduleStep DEF SyncWrite

LEMMA SuspendConsistent ==
  ASSUME Consistent, NEW r \in Request, Suspend(r)
  PROVE  Consistent'
<1>1. Progress' /\ UNCHANGED rowVars /\ Kept
  BY Parts, CallEnds, TablesWait DEF Suspend
<1>2. CASE Present /\ Store([schedule.row EXCEPT !.next = None])
  <2> DEFINE row == [schedule.row EXCEPT !.next = None]
  <2>1. schedule.row \in Row /\ WasPublished(schedule.row.version)
    BY <1>2, Parts, RowOfPresent
  <2>2. row \in Row /\ row.version = schedule.row.version
    BY <2>1 DEF Row
  <2>3. Store(row)
    BY <1>2
  <2> HIDE DEF row
  <2>4. versions'[row.version] \in {"published", "deleted"}
    BY <1>1, <2>1, <2>2 DEF WasPublished, rowVars
  <2> QED
    BY <1>1, <2>2, <2>3, <2>4, Stored, ScheduleStep, Parts DEF Suspend, Rest
<1>3. CASE UNCHANGED schedule
  BY <1>1, <1>3, Parts, ScheduleWaits, ScheduleStep DEF Suspend, Rest
<1> QED
  BY <1>2, <1>3 DEF Suspend

LEMMA DeleteWithWorkflowConsistent ==
  ASSUME Consistent, NEW r \in Request, DeleteWithWorkflow(r)
  PROVE  Consistent'
<1>1. Progress' /\ UNCHANGED rowVars /\ Kept
  BY Parts, CallEnds, TablesWait DEF DeleteWithWorkflow
<1>2. ScheduleNeverDraft'
  BY <1>1, Parts, Removed, ScheduleWaits DEF DeleteWithWorkflow
<1> QED
  BY <1>1, <1>2, Parts, ScheduleStep DEF DeleteWithWorkflow, Rest

LEMMA CreateReadConsistent ==
  ASSUME Consistent, NEW r \in Request, CreateRead(r)
  PROVE  Consistent'
<1>1. PICK change \in {"pause", "resume"} :
        Goto(r, "create_check", [NothingSeen EXCEPT !.version = published, !.change = change])
  BY DEF CreateRead
<1> DEFINE read == [NothingSeen EXCEPT !.version = published, !.change = change]
<1>2. published \in Version /\ versions[published] = "published"
  BY Parts DEF CreateRead, Tables, PublishedExists
<1>3. read \in Seen /\ read.version = published /\ "create_check" \in Label
  BY <1>2 DEF NothingSeen, Seen, WorkflowStatus, Label
<1>4. UNCHANGED <<rowVars, scheduleVars>> /\ Kept
  BY Parts, TablesWait DEF CreateRead
<1>5. Goto(r, "create_check", read)
  BY <1>1
<1> HIDE DEF read
<1>6. Good("create_check", read, versions')
  BY <1>2, <1>3, <1>4 DEF Good, rowVars
<1> QED
  BY <1>3, <1>4, <1>5, <1>6, Parts, RequestMoves, RequestStep

LEMMA CreateCheckConsistent ==
  ASSUME Consistent, NEW r \in Request, CreateCheck(r)
  PROVE  Consistent'
<1>1. UNCHANGED <<rowVars, scheduleVars>> /\ Kept
  BY Parts, TablesWait DEF CreateCheck
<1>2. Good("create_check", seen[r], versions) /\ seen[r] \in Seen
  BY Parts DEF CreateCheck, Progress, Requests
<1>3. Good("create", seen[r], versions') /\ "create" \in Label
  BY <1>1, <1>2 DEF Good, rowVars, Label
<1> QED
  BY <1>1, <1>2, <1>3, Parts, RequestMoves, RequestStep DEF CreateCheck

LEMMA CreateCommitConsistent ==
  ASSUME Consistent, NEW r \in Request, CreateCommit(r)
  PROVE  Consistent'
<1> DEFINE enabled == seen[r].change = "resume"
           row == [version |-> seen[r].version, enabled |-> enabled,
                   next |-> IF enabled THEN NextRun ELSE None]
<1>1. Good("create", seen[r], versions)
  BY Parts DEF CreateCommit, Progress, Requests
<1>2. NextRun \in Nat
  BY Parts DEF Rest, NextRun
<1>3. enabled \in BOOLEAN
  OBVIOUS
<1>4. Store(row)
  BY DEF CreateCommit
<1> HIDE DEF enabled
<1>5. row \in Row /\ row.version = seen[r].version
  BY <1>1, <1>2, <1>3 DEF Good, Row
<1> HIDE DEF row
<1>6. UNCHANGED rowVars /\ Kept
  BY Parts, TablesWait DEF CreateCommit
<1>7. versions'[row.version] \in {"published", "deleted"}
  BY <1>1, <1>5, <1>6 DEF Good, rowVars
<1>8. Progress'
  BY <1>6, Parts, RequestEnds DEF CreateCommit
<1> QED
  BY <1>4, <1>5, <1>6, <1>7, <1>8, Stored, ScheduleStep, Parts DEF CreateCommit, Rest

LEMMA UpdateReadConsistent ==
  ASSUME Consistent, NEW r \in Request, UpdateRead(r)
  PROVE  Consistent'
<1>1. PICK change \in {"pause", "resume", "edit"} :
        Goto(r, "update_published",
             [NothingSeen EXCEPT !.row = schedule.row, !.change = change])
  BY DEF UpdateRead
<1> DEFINE read == [NothingSeen EXCEPT !.row = schedule.row, !.change = change]
<1>2. schedule.row \in Row
  BY Parts, RowOfPresent DEF UpdateRead
<1>3. read \in Seen /\ read.row = schedule.row /\ "update_published" \in Label
  BY <1>2 DEF NothingSeen, Seen, WorkflowStatus, Label
<1>4. Goto(r, "update_published", read)
  BY <1>1
<1> HIDE DEF read
<1>5. Good("update_published", read, versions')
  BY <1>2, <1>3 DEF Good
<1>6. UNCHANGED <<rowVars, scheduleVars>> /\ Kept
  BY Parts, TablesWait DEF UpdateRead
<1> QED
  BY <1>3, <1>4, <1>5, <1>6, Parts, RequestMoves, RequestStep

LEMMA UpdatePublishedConsistent ==
  ASSUME Consistent, NEW r \in Request, UpdatePublished(r)
  PROVE  Consistent'
<1> DEFINE read == [seen[r] EXCEPT !.version = published]
<1>1. Good("update_published", seen[r], versions) /\ seen[r] \in Seen
  BY Parts DEF UpdatePublished, Progress, Requests
<1>2. read \in Seen /\ read.row = seen[r].row /\ "update_check" \in Label
  BY <1>1, Parts DEF Seen, Tables, Label
<1>3. Goto(r, "update_check", read)
  BY DEF UpdatePublished
<1> HIDE DEF read
<1>4. Good("update_check", read, versions')
  BY <1>1, <1>2 DEF Good
<1>5. UNCHANGED <<rowVars, scheduleVars>> /\ Kept
  BY Parts, TablesWait DEF UpdatePublished
<1> QED
  BY <1>2, <1>3, <1>4, <1>5, Parts, RequestMoves, RequestStep

LEMMA UpdateCheckConsistent ==
  ASSUME Consistent, NEW r \in Request, UpdateCheck(r)
  PROVE  Consistent'
<1> DEFINE compatible == /\ Executable(seen[r].version)
                         /\ seen[r].row.version = seen[r].version
           read == [seen[r] EXCEPT !.scheduled = compatible]
<1>1. Good("update_check", seen[r], versions) /\ seen[r] \in Seen
  BY Parts DEF UpdateCheck, Progress, Requests
<1>2. compatible \in BOOLEAN
  OBVIOUS
<1>3. Goto(r, "update", read)
  BY DEF UpdateCheck
<1> HIDE DEF compatible
<1>4. read \in Seen /\ read.row = seen[r].row /\ "update" \in Label
  BY <1>1, <1>2 DEF Seen, Label
<1> HIDE DEF read
<1>5. Good("update", read, versions')
  BY <1>1, <1>4 DEF Good
<1>6. UNCHANGED <<rowVars, scheduleVars>> /\ Kept
  BY Parts, TablesWait DEF UpdateCheck
<1> QED
  BY <1>3, <1>4, <1>5, <1>6, Parts, RequestMoves, RequestStep

LEMMA UpdateCommitConsistent ==
  ASSUME Consistent, NEW r \in Request, UpdateCommit(r)
  PROVE  Consistent'
<1> DEFINE read == seen[r]
           enabled == CASE read.change = "resume" -> TRUE [] read.change = "pause" -> FALSE
                        [] OTHER -> read.row.enabled
           next == IF MaySchedule(read) THEN NextRun ELSE None
           row == [schedule.row EXCEPT !.enabled = Written(@, read.row.enabled, enabled),
                                       !.next = Written(@, read.row.next, next)]
<1>1. schedule.row \in Row /\ WasPublished(schedule.row.version)
  BY Parts, RowOfPresent DEF UpdateCommit
<1>2. read.row \in Row
  BY Parts DEF UpdateCommit, Progress, Requests, Good
<1>3. enabled \in BOOLEAN
  BY <1>2 DEF Row
<1>4. next \in Nat \cup {None}
  BY Parts DEF Rest, NextRun
<1>5. Store(row)
  BY DEF UpdateCommit
<1> HIDE DEF enabled, next
<1>6. /\ Written(schedule.row.enabled, read.row.enabled, enabled) \in BOOLEAN
      /\ Written(schedule.row.next, read.row.next, next) \in Nat \cup {None}
  BY <1>1, <1>3, <1>4 DEF Written, Row
<1>7. ASSUME NEW b \in BOOLEAN, NEW n \in Nat \cup {None}
      PROVE  /\ [schedule.row EXCEPT !.enabled = b, !.next = n] \in Row
             /\ [schedule.row EXCEPT !.enabled = b, !.next = n].version = schedule.row.version
  BY <1>1 DEF Row
<1>8. row \in Row /\ row.version = schedule.row.version
  BY <1>6, <1>7
<1> HIDE DEF row
<1>9. UNCHANGED rowVars /\ Kept
  BY Parts, TablesWait DEF UpdateCommit
<1>10. versions'[row.version] \in {"published", "deleted"}
  BY <1>1, <1>8, <1>9 DEF WasPublished, rowVars
<1>11. Progress'
  BY <1>9, Parts, RequestEnds DEF UpdateCommit
<1> QED
  BY <1>5, <1>8, <1>9, <1>10, <1>11, Stored, ScheduleStep, Parts DEF UpdateCommit, Rest

LEMMA DeleteScheduleConsistent ==
  ASSUME Consistent, DeleteSchedule
  PROVE  Consistent'
<1>1. UNCHANGED rowVars /\ Progress' /\ ScheduleNeverDraft'
  BY Parts, TablesWait, RequestsWait, Removed DEF DeleteSchedule, versionVars
<1> QED
  BY <1>1, Parts, ScheduleStep DEF DeleteSchedule, Rest

-----------------------------------------------------------------------------
\* The tasks.
LEMMA TaskMoves ==
  ASSUME Consistent, NEW w \in Worker, NEW at, NEW version, NEW due,
         Move(w, at, version, due), [at |-> at, version |-> version, due |-> due] \in Task,
         at # "idle" => version \in Version /\ WasPublished(version),
         UNCHANGED <<versionVars, now, lagging>>, deaths' \in Nat, ScheduleNeverDraft'
  PROVE  Consistent'
<1>1. UNCHANGED rowVars /\ Kept /\ Progress' /\ Rest'
  BY Parts, TablesWait, RequestsWait DEF versionVars, Rest
<1>2. \A v \in Version : WasPublished(v) => versions'[v] \in {"published", "deleted"}
  BY <1>1 DEF rowVars, WasPublished
<1>3. /\ task' \in [Worker -> Task]
      /\ task'[w] = [at |-> at, version |-> version, due |-> due]
      /\ \A u \in Worker \ {w} : task'[u] = task[u]
  BY Parts DEF Move, TasksNeverDraft
<1>4. TasksNeverDraft'
  BY <1>2, <1>3, Parts DEF TasksNeverDraft, WasPublished
<1> QED
  BY <1>1, <1>4, RestOfStep

LEMMA TaskStepConsistent ==
  ASSUME Consistent, NEW w \in Worker, TaskStep(w) \/ Die(w)
  PROVE  Consistent'
<1>1. task[w] \in Task /\ deaths \in Nat
      /\ (task[w].at # "idle" => task[w].version \in Version /\ WasPublished(task[w].version))
  BY Parts DEF TasksNeverDraft, Rest
<1>2. Present => schedule.row \in Row /\ WasPublished(schedule.row.version)
  BY Parts, RowOfPresent
<1>3. [at |-> "idle", version |-> None, due |-> None] \in Task
  BY DEF Task
<1>4. UNCHANGED <<versions, schedule>> => ScheduleNeverDraft'
  BY Parts, UnchangedKeeps, ScheduleWaits
<1>5. CASE Find(w)
  <2>1. [at |-> "found", version |-> schedule.row.version, due |-> None] \in Task
    BY <1>2, <1>5 DEF Find, Due, Task, Row
  <2> QED
    BY <1>1, <1>2, <1>4, <1>5, <2>1, TaskMoves DEF Find, Due, Row, versionVars, rowVars
<1>6. CASE ReadAgain(w)
  <2>1. UNCHANGED <<versionVars, schedule, now, deaths, lagging>> /\ task[w].at = "found"
    BY <1>6 DEF ReadAgain
  <2>2. ScheduleNeverDraft'
    BY <1>4, <2>1 DEF versionVars, rowVars
  <2>3. CASE Due /\ Move(w, "read", task[w].version, schedule.row.next)
    <3>1. [at |-> "read", version |-> task[w].version, due |-> schedule.row.next] \in Task
      BY <1>1, <1>2, <2>1, <2>3 DEF Due, Task, Row
    <3> QED
      BY <1>1, <2>1, <2>2, <2>3, <3>1, TaskMoves
  <2>4. CASE Move(w, "idle", None, None)
    BY <1>1, <1>3, <2>1, <2>2, <2>4, TaskMoves
  <2> QED
    BY <1>6, <2>3, <2>4 DEF ReadAgain
<1>7. CASE Advance(w)
  <2>1. UNCHANGED <<versionVars, now, deaths, lagging>> /\ task[w].at = "read"
    BY <1>7 DEF Advance
  <2>2. CASE Due /\ Store(Advanced(schedule.row)) /\ Move(w, "publish", task[w].version, task[w].due)
    <3>1. schedule.row \in Row /\ WasPublished(schedule.row.version) /\ NextRun \in Nat
      BY <1>2, <2>2, Parts DEF Due, Rest, NextRun
    <3>2. /\ Advanced(schedule.row) \in Row
          /\ Advanced(schedule.row).version = schedule.row.version
      BY <3>1 DEF Advanced, Row
    <3>3. ScheduleNeverDraft'
      BY <2>1, <2>2, <3>1, <3>2, Stored DEF versionVars, rowVars, WasPublished
    <3>4. [at |-> "publish", version |-> task[w].version, due |-> task[w].due] \in Task
      BY <1>1 DEF Task
    <3> QED
      BY <1>1, <2>1, <2>2, <3>3, <3>4, TaskMoves
  <2>3. CASE Move(w, "idle", None, None) /\ UNCHANGED schedule
    <3>1. ScheduleNeverDraft'
      BY <1>4, <2>1, <2>3 DEF versionVars, rowVars
    <3> QED
      BY <1>1, <1>3, <2>1, <2>3, <3>1, TaskMoves
  <2> QED
    BY <1>7, <2>2, <2>3 DEF Advance
<1>8. CASE PublishEvent(w) \/ Die(w)
  <2>1. /\ UNCHANGED <<versionVars, schedule, now, lagging>> /\ deaths' \in Nat
        /\ Move(w, "idle", None, None)
    BY <1>1, <1>8 DEF PublishEvent, Die
  <2>2. ScheduleNeverDraft'
    BY <1>4, <2>1 DEF versionVars, rowVars
  <2> QED
    BY <1>3, <2>1, <2>2, TaskMoves
<1> QED
  BY <1>5, <1>6, <1>7, <1>8 DEF TaskStep

-----------------------------------------------------------------------------
LEMMA NextConsistent == Consistent /\ [Next]_vars => Consistent'
<1> SUFFICES ASSUME Consistent, [Next]_vars PROVE Consistent'
  OBVIOUS
<1>1. CASE VersionsNext
  <2>1. Tables' /\ PublishedExists' /\ Progress' /\ Kept
    BY <1>1, Parts, VersionsStepConsistent DEF VersionsNext
  <2>2. ScheduleNeverDraft' /\ TasksNeverDraft'
    BY <1>1, <2>1, Parts, ScheduleWaits, TasksWait DEF VersionsNext
  <2>3. lagging' \in BOOLEAN
    BY <1>1 DEF VersionsNext
  <2>4. Rest'
    BY <1>1, <2>3, Parts DEF VersionsNext, Rest
  <2> QED
    BY <2>1, <2>2, <2>4 DEF Consistent
<1>2. CASE Tick
  <2>1. now' \in 0..MaxTime
    BY <1>2, Parts, SchedulesAssumption DEF Tick, Rest
  <2>2. UNCHANGED <<rowVars, schedule, task, deaths, lagging>> /\ Kept /\ Progress'
    BY <1>2, Parts, TablesWait, RequestsWait DEF Tick, versionVars
  <2>3. ScheduleNeverDraft' /\ TasksNeverDraft'
    BY <2>2, Parts, ScheduleWaits, TasksWait
  <2>4. Rest'
    BY <2>1, <2>2, Parts DEF Rest
  <2> QED
    BY <2>2, <2>3, <2>4, RestOfStep
<1>3. CASE DeleteSchedule
  BY <1>3, DeleteScheduleConsistent
<1>4. ASSUME NEW r \in Request, RequestAborts(r) PROVE Consistent'
  <2>1. Progress' /\ UNCHANGED <<rowVars, scheduleVars>>
    BY <1>4, Parts, TablesWait, RequestEnds DEF RequestAborts, Abort
  <2> QED
    BY <2>1, RequestStep
<1>5. CASE UNCHANGED vars
  <2>1. UNCHANGED <<rowVars, scheduleVars, requestVars>>
    BY <1>5 DEF vars, versionVars
  <2>2. Progress'
    BY <2>1, Parts, TablesWait, RequestsWait
  <2> QED
    BY <2>1, <2>2, RequestStep
<1> QED
  BY <1>1, <1>2, <1>3, <1>4, <1>5, SyncReadConsistent, SyncWriteConsistent,
     SuspendConsistent, DeleteWithWorkflowConsistent, CreateReadConsistent,
     CreateCheckConsistent, CreateCommitConsistent, UpdateReadConsistent,
     UpdatePublishedConsistent, UpdateCheckConsistent, UpdateCommitConsistent,
     TaskStepConsistent
  DEF Next

LEMMA Consistency == Spec => []Consistent
BY InitConsistent, NextConsistent, PTL DEF Spec

\* Every variable keeps its type, whatever requests and tasks meet.
THEOREM TypeCorrect == Spec => []TypeOK
<1>1. Consistent => TypeOK
  BY DEF Consistent, Tables, Progress, ScheduleNeverDraft, TasksNeverDraft, Rest, TypeOK
<1> QED
  BY <1>1, Consistency, PTL

\* A workflow never points at a version that is a draft or gone, although it is
\* published, activated and deleted by requests that do not exclude each other.
THEOREM PublishedVersionExists == Spec => []PublishedExists
<1>1. Consistent => PublishedExists
  BY DEF Consistent
<1> QED
  BY <1>1, Consistency, PTL

\* Whatever publications, synchronisations, updates and tasks overtake each
\* other, a schedule and a task name only versions that were published.
THEOREM NeverADraft == Spec => []NeverDraft
<1>1. Consistent => NeverDraft
  BY DEF Consistent, ScheduleNeverDraft, TasksNeverDraft, NeverDraft
<1> QED
  BY <1>1, Consistency, PTL

-----------------------------------------------------------------------------
(* Requests one after the other.  Nothing in workflow-service excludes two *)
(* requests about one workflow, and with two of them both invariants below *)
(* fail (run ScheduleOutlivesDeactivation); what is proved is that one at  *)
(* a time keeps them, whatever tasks, drafts and deletions come between    *)
(* its steps and wherever it is cut off.                                   *)

InSequence == \A q, r \in Request : q = r

\* What a request that read the schedule may rely on: tasks only advance it.
StillThere(r) ==
  Present => /\ seen[r].row.version = schedule.row.version
             /\ seen[r].row.next = None => schedule.row.next = None

\* What the request has read is still so.
UpToDate(r) ==
  LET read == seen[r]
      v == read.version
      stillScheduled == read.scheduled <=> nodes[v] \in Scheduled
  IN
  /\ pc[r] = "edit" => versions[v] = "draft"
  /\ pc[r] = "publish" => Exists(v) /\ read.status = status /\ stillScheduled
  /\ pc[r] = "activate" =>
       /\ published # None /\ status # "active"
       /\ read.scheduled <=> nodes[published] \in Scheduled
  /\ pc[r] \in {"sync", "sync_write"} =>
       status = "active" /\ published = v /\ stillScheduled
  /\ pc[r] = "deactivate" => Suspended
  /\ pc[r] = "delete_version" =>
       read.published = published /\ ~(status = "active" /\ published = v)
  /\ pc[r] = "delete_workflow" => status # "active"
  /\ pc[r] \in {"create_check", "create", "update_check", "update"} => published = v
  /\ pc[r] = "create" => Executable(v)
  /\ pc[r] = "update" /\ read.scheduled => Executable(v) /\ read.row.version = v
  /\ pc[r] \in {"sync_write", "update_published", "update_check", "update"} =>
       StillThere(r)

Follows == InactiveIsSuspended /\ FollowsPublication
InOrder == Follows /\ \A r \in Request : UpToDate(r)

LEMMA InitInOrder == SchedulesInit => InOrder
BY DEF SchedulesInit, Init, NoRow, InOrder, Follows, InactiveIsSuspended,
   FollowsPublication, Suspended, Present, UpToDate

LEMMA OneRequest ==
  ASSUME InSequence, NEW r \in Request, UpToDate(r)', Follows'
  PROVE  InOrder'
BY DEF InSequence, InOrder

LEMMA Arrives ==
  ASSUME Progress, NEW r \in Request, NEW label, NEW read, Goto(r, label, read)
  PROVE  pc'[r] = label /\ seen'[r] = read
BY DEF Progress, Goto

LEMMA Ends ==
  ASSUME Progress, NEW r \in Request, Done(r)
  PROVE  UpToDate(r)'
<1>1. pc'[r] = "idle"
  BY Arrives DEF Done
<1> QED
  BY <1>1 DEF UpToDate

LEMMA RowsRest ==
  ASSUME Follows, UNCHANGED <<rowVars, schedule>>, lagging => lagging'
  PROVE  Follows'
BY DEF Follows, InactiveIsSuspended, FollowsPublication, Suspended, Present, rowVars

\* A step that only moves a request.
LEMMA OnlyRequest ==
  ASSUME InSequence, InOrder, NEW r \in Request, UpToDate(r)',
         UNCHANGED <<rowVars, schedule>>, lagging => lagging'
  PROVE  InOrder'
BY OneRequest, RowsRest DEF InOrder

\* The schedule is advanced or deleted while a request is in progress.
LEMMA AsideInOrder ==
  ASSUME InOrder, UNCHANGED versionVars, lagging => lagging',
         Present' => /\ Present /\ schedule'.row.version = schedule.row.version
                     /\ schedule.row.next = None => schedule'.row.next = None
  PROVE  InOrder'
<1>1. Suspended => Suspended'
  BY DEF Suspended
<1>2. UNCHANGED <<status, published, versions, nodes, pc, seen>>
  BY DEF versionVars, rowVars, requestVars
<1>3. Follows'
  BY <1>1, <1>2 DEF InOrder, Follows, InactiveIsSuspended, FollowsPublication, Suspended
<1>4. ASSUME NEW r \in Request PROVE UpToDate(r)'
  <2>1. UpToDate(r)
    BY DEF InOrder
  <2>2. StillThere(r) => StillThere(r)'
    BY <1>2 DEF StillThere
  <2> QED
    BY <1>1, <1>2, <2>1, <2>2 DEF UpToDate, Exists, Executable
<1> QED
  BY <1>3, <1>4 DEF InOrder

\* A new version is none of those that a request or a schedule is about.
LEMMA CreateDraftInOrder ==
  ASSUME Consistent, InOrder, NEW n \in Version, CreateDraft(n),
         UNCHANGED schedule, lagging => lagging'
  PROVE  InOrder'
<1>1. Tables /\ PublishedExists /\ Progress
  BY Parts
<1>2. /\ UNCHANGED <<status, published, pc, seen, schedule>>
      /\ versions[n] = "absent"
      /\ \A u \in Version \ {n} : versions'[u] = versions[u] /\ nodes'[u] = nodes[u]
  BY <1>1 DEF CreateDraft, requestVars, Tables
<1>3. ASSUME NEW u \in Version, Exists(u)
      PROVE  versions'[u] = versions[u] /\ nodes'[u] = nodes[u]
  BY <1>2, <1>3 DEF Exists
<1>4. published # None => /\ published \in Version /\ Exists(published)
                          /\ nodes'[published] = nodes[published]
  BY <1>1, <1>3 DEF Tables, PublishedExists, Exists
<1>5. Follows'
  <2>1. InactiveIsSuspended /\ FollowsPublication
    BY DEF InOrder, Follows
  <2>2. InactiveIsSuspended'
    BY <1>2, <2>1 DEF InactiveIsSuspended, Suspended, Present
  <2>3. CASE published # None
    BY <1>2, <1>4, <2>1, <2>2, <2>3 DEF Follows, FollowsPublication, Present
  <2>4. CASE published = None
    <3>1. schedule.row.version \in Version \/ ~Present
      BY Parts, RowOfPresent DEF Row
    <3> QED
      BY <1>2, <2>1, <2>2, <2>4, <3>1, NoneIsNoVersion
      DEF Follows, FollowsPublication, Present
  <2> QED
    BY <2>3, <2>4
<1>6. ASSUME NEW r \in Request PROVE UpToDate(r)'
  <2>1. UpToDate(r) /\ Good(pc[r], seen[r], versions)
    BY <1>1 DEF InOrder, Progress, Requests
  <2>2. StillThere(r) => StillThere(r)'
    BY <1>2 DEF StillThere, Present
  <2>3. Suspended => Suspended'
    BY <1>2 DEF Suspended, Present
  <2>4. pc[r] \in {"edit", "publish", "create"} \/ (pc[r] = "update" /\ seen[r].scheduled) =>
          seen[r].version \in Version /\ Exists(seen[r].version)
    BY <2>1, <1>4 DEF UpToDate, Good, Executable, Exists
  <2>5. pc[r] \in {"activate", "sync", "sync_write"} => published # None
    BY <2>1, NoneIsNoVersion DEF UpToDate, Good
  <2> QED
    BY <1>2, <1>3, <1>4, <2>1, <2>2, <2>3, <2>4, <2>5
    DEF UpToDate, Exists, Executable, Suspended
<1> QED
  BY <1>5, <1>6 DEF InOrder

-----------------------------------------------------------------------------
(* A request reads.                                                        *)

LEMMA ReadInOrder ==
  ASSUME Consistent, InSequence, InOrder, NEW r \in Request,
         UNCHANGED schedule, lagging => lagging',
         \/ \E v \in Version : \/ EditRead(r, v) \/ PublishRead(r, v)
                               \/ DeleteVersionRead(r, v)
         \/ ActivateRead(r) \/ DeactivateRead(r) \/ DeleteWorkflowRead(r)
  PROVE  InOrder'
<1>1. Progress /\ Tables
  BY Parts
<1>2. UNCHANGED rowVars
  BY DEF EditRead, PublishRead, DeleteVersionRead, ActivateRead, DeactivateRead,
     DeleteWorkflowRead
<1>3. UpToDate(r)'
  <2>1. ASSUME NEW v \in Version, EditRead(r, v) PROVE UpToDate(r)'
    <3>1. /\ pc'[r] = "edit" /\ seen'[r] = [NothingSeen EXCEPT !.version = v]
          /\ versions'[v] = "draft"
      BY <1>1, <1>2, <2>1, Arrives DEF EditRead, rowVars
    <3> QED
      BY <3>1 DEF UpToDate, NothingSeen
  <2>2. ASSUME NEW v \in Version, PublishRead(r, v) PROVE UpToDate(r)'
    <3> DEFINE scheduled == nodes[v] \in Scheduled
    <3>1. CASE AlreadyPublished(v) /\ Goto(r, "sync", ForSync(v, scheduled))
      <4>1. pc'[r] = "sync" /\ seen'[r] = ForSync(v, scheduled)
        BY <1>1, <3>1, Arrives
      <4>2. seen'[r].version = v /\ seen'[r].scheduled = scheduled
        BY <4>1 DEF ForSync, NothingSeen
      <4> QED
        BY <1>2, <3>1, <4>1, <4>2 DEF UpToDate, AlreadyPublished, rowVars
    <3>2. CASE /\ Publishable(v)
               /\ Goto(r, "publish", [Loaded EXCEPT !.version = v, !.scheduled = scheduled])
      <4>1. /\ pc'[r] = "publish"
            /\ seen'[r] = [Loaded EXCEPT !.version = v, !.scheduled = scheduled]
        BY <1>1, <3>2, Arrives
      <4>2. /\ seen'[r].version = v /\ seen'[r].scheduled = scheduled
            /\ seen'[r].status = status
        BY <4>1 DEF Loaded, NothingSeen
      <4>3. Exists(v)
        BY <3>2 DEF Publishable, Exists
      <4> QED
        BY <1>2, <4>1, <4>2, <4>3 DEF UpToDate, Exists, rowVars
    <3> QED
      BY <2>2, <3>1, <3>2 DEF PublishRead
  <2>3. ASSUME NEW v \in Version, DeleteVersionRead(r, v) PROVE UpToDate(r)'
    <3>1. pc'[r] = "delete_version" /\ seen'[r] = [Loaded EXCEPT !.version = v]
      BY <1>1, <2>3, Arrives DEF DeleteVersionRead
    <3>2. seen'[r].version = v /\ seen'[r].published = published
      BY <3>1 DEF Loaded, NothingSeen
    <3> QED
      BY <1>2, <2>3, <3>1, <3>2 DEF UpToDate, DeleteVersionRead, rowVars
  <2>4. CASE ActivateRead(r)
    <3> DEFINE scheduled == nodes[published] \in Scheduled
    <3>1. pc'[r] = "activate" /\ seen'[r] = [NothingSeen EXCEPT !.scheduled = scheduled]
      BY <1>1, <2>4, Arrives DEF ActivateRead
    <3>2. seen'[r].scheduled = scheduled
      BY <3>1 DEF NothingSeen
    <3> QED
      BY <1>2, <2>4, <3>1, <3>2 DEF UpToDate, ActivateRead, rowVars
  <2>5. CASE DeactivateRead(r)
    <3>1. pc'[r] = "suspend"
      BY <1>1, <2>5, Arrives DEF DeactivateRead
    <3> QED
      BY <3>1 DEF UpToDate
  <2>6. CASE DeleteWorkflowRead(r)
    <3>1. pc'[r] = "delete_workflow" /\ status # "active"
      BY <1>1, <2>6, Arrives DEF DeleteWorkflowRead
    <3> QED
      BY <1>2, <3>1 DEF UpToDate, rowVars
  <2> QED
    BY <2>1, <2>2, <2>3, <2>4, <2>5, <2>6
<1> QED
  BY <1>2, <1>3, OnlyRequest

LEMMA ScheduleReadInOrder ==
  ASSUME Consistent, InSequence, InOrder, NEW r \in Request,
         \/ CreateRead(r) \/ CreateCheck(r)
         \/ UpdateRead(r) \/ UpdatePublished(r) \/ UpdateCheck(r)
  PROVE  InOrder'
<1>1. Progress /\ UpToDate(r) /\ seen[r] \in Seen
  BY Parts DEF InOrder, Progress
<1>2. UNCHANGED <<rowVars, schedule, lagging>>
  BY DEF CreateRead, CreateCheck, UpdateRead, UpdatePublished, UpdateCheck, scheduleVars
<1>3. UpToDate(r)'
  <2>1. CASE CreateRead(r)
    <3>1. PICK change \in {"pause", "resume"} :
            Goto(r, "create_check",
                 [NothingSeen EXCEPT !.version = published, !.change = change])
      BY <2>1 DEF CreateRead
    <3>2. /\ pc'[r] = "create_check"
          /\ seen'[r] = [NothingSeen EXCEPT !.version = published, !.change = change]
      BY <1>1, <3>1, Arrives
    <3>3. seen'[r].version = published
      BY <3>2 DEF NothingSeen
    <3> QED
      BY <1>2, <3>2, <3>3 DEF UpToDate, rowVars
  <2>2. CASE CreateCheck(r)
    <3>1. pc'[r] = "create" /\ seen'[r] = seen[r] /\ Executable(seen[r].version)
      BY <1>1, <2>2, Arrives DEF CreateCheck
    <3> QED
      BY <1>1, <1>2, <2>2, <3>1 DEF UpToDate, CreateCheck, Executable, rowVars
  <2>3. CASE UpdateRead(r)
    <3>1. PICK change \in {"pause", "resume", "edit"} :
            Goto(r, "update_published",
                 [NothingSeen EXCEPT !.row = schedule.row, !.change = change])
      BY <2>3 DEF UpdateRead
    <3>2. /\ pc'[r] = "update_published"
          /\ seen'[r] = [NothingSeen EXCEPT !.row = schedule.row, !.change = change]
      BY <1>1, <3>1, Arrives
    <3>3. seen'[r].row = schedule.row
      BY <3>2 DEF NothingSeen
    <3> QED
      BY <1>2, <3>2, <3>3 DEF UpToDate, StillThere
  <2>4. CASE UpdatePublished(r)
    <3>1. pc'[r] = "update_check" /\ seen'[r] = [seen[r] EXCEPT !.version = published]
      BY <1>1, <2>4, Arrives DEF UpdatePublished
    <3>2. seen'[r].version = published /\ seen'[r].row = seen[r].row
      BY <1>1, <3>1 DEF Seen
    <3> QED
      BY <1>1, <1>2, <2>4, <3>1, <3>2
      DEF UpToDate, UpdatePublished, StillThere, Present, rowVars
  <2>5. CASE UpdateCheck(r)
    <3> DEFINE compatible == /\ Executable(seen[r].version)
                             /\ seen[r].row.version = seen[r].version
    <3>1. pc'[r] = "update" /\ seen'[r] = [seen[r] EXCEPT !.scheduled = compatible]
      BY <1>1, <2>5, Arrives DEF UpdateCheck
    <3>2. /\ seen'[r].version = seen[r].version /\ seen'[r].row = seen[r].row
          /\ seen'[r].scheduled = compatible
      BY <1>1, <3>1 DEF Seen
    <3>3. /\ pc[r] = "update_check" /\ published = seen[r].version /\ StillThere(r)
      BY <1>1, <2>5 DEF UpToDate, UpdateCheck
    <3>4. StillThere(r)'
      BY <1>2, <3>2, <3>3 DEF StillThere, Present
    <3>5. Executable(seen[r].version) => Executable(seen[r].version)'
      BY <1>2, <3>2 DEF Executable, rowVars
    <3> QED
      BY <1>2, <3>1, <3>2, <3>3, <3>4, <3>5 DEF UpToDate, rowVars
  <2> QED
    BY <2>1, <2>2, <2>3, <2>4, <2>5
<1> QED
  BY <1>2, <1>3, OnlyRequest

-----------------------------------------------------------------------------
(* A request commits.                                                      *)

LEMMA EditCommitInOrder ==
  ASSUME Consistent, InSequence, InOrder, NEW r \in Request, EditCommit(r),
         UNCHANGED schedule, lagging => lagging'
  PROVE  InOrder'
<1> DEFINE v == seen[r].version
<1>1. Progress /\ Tables /\ PublishedExists
  BY Parts
<1>2. v \in Version /\ versions[v] = "draft"
  BY <1>1 DEF EditCommit, Progress, Requests, Good, InOrder, UpToDate
<1>3. \A u \in Version \ {v} : nodes'[u] = nodes[u]
  BY <1>1, <1>2 DEF EditCommit, Tables
<1>4. published # None => nodes'[published] = nodes[published]
  BY <1>1, <1>2, <1>3 DEF Tables, PublishedExists
<1>5. UpToDate(r)'
  BY <1>1, Ends DEF EditCommit
<1>6. schedule.row.version \in Version \/ ~Present
  BY Parts, RowOfPresent DEF Row
<1>7. Follows'
  BY <1>4, <1>6, NoneIsNoVersion DEF EditCommit, InOrder, Follows, InactiveIsSuspended,
     FollowsPublication, Suspended, Present
<1> QED
  BY <1>5, <1>7, OneRequest

LEMMA PublishCommitInOrder ==
  ASSUME Consistent, InSequence, InOrder, NEW r \in Request, PublishCommit(r), lagging'
  PROVE  InOrder'
<1> DEFINE v == seen[r].version
<1>1. Progress /\ seen[r].scheduled \in BOOLEAN
  BY Parts, PublishCommitTables
<1>2. seen[r].status = status /\ (seen[r].scheduled <=> nodes[v] \in Scheduled)
  BY DEF PublishCommit, InOrder, UpToDate
<1>3. status' = "active" /\ published' = v /\ nodes' = nodes
  BY <1>2 DEF PublishCommit, Written
<1>4. pc'[r] = "sync" /\ seen'[r] = ForSync(v, seen[r].scheduled)
  BY <1>1, Arrives DEF PublishCommit
<1>5. seen'[r].version = v /\ seen'[r].scheduled = seen[r].scheduled
  BY <1>4 DEF ForSync, NothingSeen
<1>6. UpToDate(r)'
  BY <1>2, <1>3, <1>4, <1>5 DEF UpToDate
<1>7. Follows'
  BY <1>3 DEF Follows, InactiveIsSuspended, FollowsPublication
<1> QED
  BY <1>6, <1>7, OneRequest

\* While the workflow is not active, or ceases to be, its schedule is suspended.
LEMMA SuspendedFollows ==
  ASSUME Suspended, UNCHANGED schedule
  PROVE  Follows'
BY DEF Suspended, Present, Follows, InactiveIsSuspended, FollowsPublication

LEMMA ActivateCommitInOrder ==
  ASSUME Consistent, InSequence, InOrder, NEW r \in Request, ActivateCommit(r),
         UNCHANGED schedule
  PROVE  InOrder'
<1>1. Progress
  BY Parts
<1>2. /\ published # None /\ status # "active"
      /\ seen[r].scheduled <=> nodes[published] \in Scheduled
  BY DEF ActivateCommit, InOrder, UpToDate
<1>3. Follows'
  BY <1>2, SuspendedFollows DEF InOrder, Follows, InactiveIsSuspended
<1>4. pc'[r] = "sync" /\ seen'[r] = ForSync(published, seen[r].scheduled)
  BY <1>1, <1>2, Arrives DEF ActivateCommit
<1>5. seen'[r].version = published /\ seen'[r].scheduled = seen[r].scheduled
  BY <1>4 DEF ForSync, NothingSeen
<1>6. UpToDate(r)'
  BY <1>2, <1>4, <1>5 DEF UpToDate, ActivateCommit
<1> QED
  BY <1>3, <1>6, OneRequest

LEMMA DeleteVersionInOrder ==
  ASSUME Consistent, InSequence, InOrder, NEW r \in Request, DeleteVersionCommit(r),
         UNCHANGED schedule, lagging => lagging'
  PROVE  InOrder'
<1> DEFINE v == seen[r].version
<1>1. UpToDate(r)'
  BY Parts, Ends DEF DeleteVersionCommit
<1>2. seen[r].published = published /\ ~(status = "active" /\ published = v)
  BY DEF DeleteVersionCommit, InOrder, UpToDate
<1>3. CASE status = "active"
  <2>1. UNCHANGED <<status, published, nodes>>
    BY <1>2, <1>3 DEF DeleteVersionCommit
  <2> QED
    BY <1>1, <2>1, OneRequest DEF InOrder, Follows, InactiveIsSuspended,
       FollowsPublication, Suspended, Present
<1>4. CASE status # "active"
  BY <1>1, <1>4, SuspendedFollows, OneRequest DEF InOrder, Follows, InactiveIsSuspended
<1> QED
  BY <1>3, <1>4

\* Deactivation goes through the suspension, deletion needs an inactive workflow.
LEMMA StopInOrder ==
  ASSUME Consistent, InSequence, InOrder, NEW r \in Request,
         DeactivateCommit(r) \/ DeleteWorkflowCommit(r), UNCHANGED schedule
  PROVE  InOrder'
<1>1. Progress
  BY Parts
<1>2. Suspended
  BY DEF DeactivateCommit, DeleteWorkflowCommit, InOrder, UpToDate, Follows,
     InactiveIsSuspended
<1>3. CASE DeactivateCommit(r)
  BY <1>1, <1>2, <1>3, Ends, SuspendedFollows, OneRequest DEF DeactivateCommit
<1>4. CASE DeleteWorkflowCommit(r)
  <2>1. pc'[r] = "delete_schedule"
    BY <1>1, <1>4, Arrives DEF DeleteWorkflowCommit
  <2>2. UpToDate(r)'
    BY <2>1 DEF UpToDate
  <2> QED
    BY <1>2, <2>2, SuspendedFollows, OneRequest
<1> QED
  BY <1>3, <1>4

LEMMA VersionsInOrder ==
  ASSUME Consistent, InSequence, InOrder, VersionsNext
  PROVE  InOrder'
<1>1. UNCHANGED schedule /\ (lagging => lagging')
  BY DEF VersionsNext
<1>2. ASSUME NEW r \in Request, PublishCommit(r) PROVE InOrder'
  <2>1. lagging'
    BY <1>2 DEF VersionsNext
  <2> QED
    BY <1>2, <2>1, PublishCommitInOrder
<1>3. ASSUME NEW n \in Version, CreateDraft(n) PROVE InOrder'
  BY <1>1, <1>3, CreateDraftInOrder
<1>4. ASSUME NEW r \in Request,
             \/ \E v \in Version : \/ EditRead(r, v) \/ PublishRead(r, v)
                                   \/ DeleteVersionRead(r, v)
             \/ ActivateRead(r) \/ DeactivateRead(r) \/ DeleteWorkflowRead(r)
      PROVE  InOrder'
  BY <1>1, <1>4, ReadInOrder
<1>5. ASSUME NEW r \in Request,
             \/ EditCommit(r) \/ ActivateCommit(r) \/ DeactivateCommit(r)
             \/ DeleteVersionCommit(r) \/ DeleteWorkflowCommit(r)
      PROVE  InOrder'
  BY <1>1, <1>5, EditCommitInOrder, ActivateCommitInOrder, StopInOrder,
     DeleteVersionInOrder
<1>6. VersionsStep
  BY DEF VersionsNext
<1> QED
  BY <1>2, <1>3, <1>4, <1>5, <1>6 DEF VersionsStep

-----------------------------------------------------------------------------
(* A call synchronises, suspends or deletes the schedule.                  *)

LEMMA SyncReadInOrder ==
  ASSUME Consistent, InSequence, InOrder, NEW r \in Request, SyncRead(r)
  PROVE  InOrder'
<1>1. Progress /\ UpToDate(r) /\ seen[r] \in Seen /\ pc[r] = "sync" /\ UNCHANGED schedule
  BY Parts DEF InOrder, Progress, SyncRead
<1>2. CASE /\ Goto(r, "sync_write", [seen[r] EXCEPT !.row = schedule.row])
           /\ UNCHANGED <<rowVars, lagging>>
  <2>1. pc'[r] = "sync_write" /\ seen'[r] = [seen[r] EXCEPT !.row = schedule.row]
    BY <1>1, <1>2, Arrives
  <2>2. /\ seen'[r].row = schedule.row /\ seen'[r].version = seen[r].version
        /\ seen'[r].scheduled = seen[r].scheduled
    BY <1>1, <2>1 DEF Seen
  <2>3. UpToDate(r)'
    BY <1>1, <1>2, <2>1, <2>2 DEF UpToDate, StillThere, rowVars
  <2> QED
    BY <1>1, <1>2, <2>3, OnlyRequest
<1>3. CASE ~Present /\ CallReturns(r)
  <2>1. UpToDate(r)' /\ Suspended
    BY <1>1, <1>3, Ends DEF CallReturns, Suspended
  <2> QED
    BY <1>1, <2>1, SuspendedFollows, OneRequest
<1> QED
  BY <1>2, <1>3 DEF SyncRead

LEMMA SyncWriteInOrder ==
  ASSUME Consistent, InSequence, InOrder, NEW r \in Request, SyncWrite(r)
  PROVE  InOrder'
<1> DEFINE read == seen[r]
           row == Synchronized(schedule.row, read)
<1>1. Progress /\ pc[r] = "sync_write" /\ Present
  BY Parts DEF SyncWrite
<1>2. schedule.row \in Row /\ read.row \in Row
  BY <1>1, Parts, RowOfPresent DEF Progress, Requests, Good
<1>3. /\ status = "active" /\ published = read.version
      /\ read.scheduled <=> nodes[read.version] \in Scheduled
      /\ read.row.version = schedule.row.version
      /\ read.row.next = None => schedule.row.next = None
  BY <1>1 DEF InOrder, UpToDate, StillThere
<1>4. Done(r) /\ UNCHANGED rowVars
  BY <1>1 DEF SyncWrite, CallReturns
<1>5. UpToDate(r)'
  BY <1>1, <1>4, Ends
<1>6. row.next # None => read.scheduled /\ row.version = read.version
  <2>1. CASE read.scheduled
    <3>1. row.version = Written(schedule.row.version, read.row.version, read.version)
      BY <1>2, <2>1 DEF Synchronized, Row
    <3> QED
      BY <1>3, <2>1, <3>1 DEF Written
  <2>2. CASE ~read.scheduled
    <3>1. row.next = Written(schedule.row.next, read.row.next, None)
      BY <1>2, <2>2 DEF Synchronized, Row
    <3> QED
      BY <1>3, <3>1 DEF Written
  <2> QED
    BY <2>1, <2>2
<1>7. schedule'.row = row
  BY DEF SyncWrite, Store
<1> HIDE DEF row
<1>8. Follows'
  BY <1>3, <1>4, <1>6, <1>7 DEF Follows, InactiveIsSuspended, FollowsPublication, rowVars
<1> QED
  BY <1>5, <1>8, OneRequest

LEMMA SuspendInOrder ==
  ASSUME Consistent, InSequence, InOrder, NEW r \in Request, Suspend(r)
  PROVE  InOrder'
<1>1. Progress /\ pc[r] = "suspend" /\ UNCHANGED rowVars /\ Goto(r, "deactivate", seen[r])
  BY Parts DEF Suspend, CallReturns
<1>2. Suspended'
  <2>1. CASE Present /\ Store([schedule.row EXCEPT !.next = None])
    <3>1. schedule.row \in Row
      BY <2>1, Parts, RowOfPresent
    <3>2. schedule'.row = [schedule.row EXCEPT !.next = None]
      BY <2>1 DEF Store
    <3> QED
      BY <3>1, <3>2 DEF Suspended, Row
  <2>2. CASE ~Present /\ UNCHANGED schedule
    BY <2>2 DEF Suspended, Present
  <2> QED
    BY <2>1, <2>2 DEF Suspend
<1>3. Follows'
  BY <1>2 DEF Suspended, Present, Follows, InactiveIsSuspended, FollowsPublication
<1>4. pc'[r] = "deactivate"
  BY <1>1, Arrives
<1>5. UpToDate(r)'
  BY <1>2, <1>4 DEF UpToDate
<1> QED
  BY <1>3, <1>5, OneRequest

LEMMA DeleteWithWorkflowInOrder ==
  ASSUME Consistent, InSequence, InOrder, NEW r \in Request, DeleteWithWorkflow(r)
  PROVE  InOrder'
<1>1. UpToDate(r)'
  BY Parts, Ends DEF DeleteWithWorkflow, CallReturns
<1>2. ~Present'
  BY DEF DeleteWithWorkflow, NoRow, Present
<1>3. Follows'
  BY <1>2 DEF Suspended, Present, Follows, InactiveIsSuspended, FollowsPublication
<1> QED
  BY <1>1, <1>3, OneRequest

\* A request about the schedule commits.
LEMMA CreateCommitInOrder ==
  ASSUME Consistent, InSequence, InOrder, NEW r \in Request, CreateCommit(r)
  PROVE  InOrder'
<1>1. UpToDate(r)'
  BY Parts, Ends DEF CreateCommit
<1>2. published = seen[r].version /\ Executable(seen[r].version)
  BY DEF CreateCommit, InOrder, UpToDate
<1>3. schedule'.row.version = seen[r].version
  BY DEF CreateCommit, Store
<1>4. status' = "active" /\ published' = published /\ nodes' = nodes
  BY <1>2 DEF CreateCommit, Executable, rowVars
<1>5. Follows'
  BY <1>2, <1>3, <1>4 DEF Executable, Follows, InactiveIsSuspended, FollowsPublication
<1> QED
  BY <1>1, <1>5, OneRequest

LEMMA UpdateCommitInOrder ==
  ASSUME Consistent, InSequence, InOrder, NEW r \in Request, UpdateCommit(r)
  PROVE  InOrder'
<1> DEFINE read == seen[r]
           next == IF MaySchedule(read) THEN NextRun ELSE None
           enabled == CASE read.change = "resume" -> TRUE [] read.change = "pause" -> FALSE
                        [] OTHER -> read.row.enabled
           row == [schedule.row EXCEPT !.enabled = Written(@, read.row.enabled, enabled),
                                       !.next = Written(@, read.row.next, next)]
<1>1. UpToDate(r)'
  BY Parts, Ends DEF UpdateCommit
<1>2. Present /\ schedule.row \in Row
  BY Parts, RowOfPresent DEF UpdateCommit
<1>3. UNCHANGED <<status, published, nodes>> /\ schedule'.row = row
  BY DEF UpdateCommit, Store, rowVars
<1> HIDE DEF enabled
<1>4. /\ row.version = schedule.row.version
      /\ row.next = Written(schedule.row.next, read.row.next, next)
  BY <1>2 DEF Row
<1> HIDE DEF row
<1>5. /\ published = read.version
      /\ read.row.version = schedule.row.version
      /\ read.row.next = None => schedule.row.next = None
      /\ read.scheduled => Executable(read.version) /\ read.row.version = read.version
  BY <1>2 DEF UpdateCommit, InOrder, UpToDate, StillThere
<1>6. row.next # None => read.scheduled
  BY <1>4, <1>5 DEF Written, MaySchedule
<1>7. row.next # None =>
        /\ status = "active" /\ row.version = published /\ nodes[published] \in Scheduled
  BY <1>4, <1>5, <1>6 DEF Executable
<1>8. Follows'
  BY <1>3, <1>7 DEF Follows, InactiveIsSuspended, FollowsPublication, Suspended
<1> QED
  BY <1>1, <1>8, OneRequest

-----------------------------------------------------------------------------
LEMMA TaskInOrder ==
  ASSUME Consistent, InOrder, NEW w \in Worker, TaskStep(w) \/ Die(w)
  PROVE  InOrder'
<1>1. UNCHANGED <<versionVars, lagging>>
  BY DEF TaskStep, Find, ReadAgain, Advance, PublishEvent, Die
<1>2. CASE UNCHANGED schedule
  BY <1>1, <1>2, AsideInOrder DEF Present
<1>3. CASE Due /\ Store(Advanced(schedule.row))
  <2>1. Present /\ schedule.row \in Row /\ schedule.row.next # None
    BY <1>3, Parts, RowOfPresent DEF Due
  <2>2. schedule'.row.version = schedule.row.version
    BY <1>3, <2>1 DEF Store, Advanced, Row
  <2> QED
    BY <1>1, <2>1, <2>2, AsideInOrder
<1> QED
  BY <1>2, <1>3 DEF TaskStep, Find, ReadAgain, Advance, PublishEvent, Die

LEMMA NextInOrder == InSequence /\ Consistent /\ InOrder /\ [Next]_vars => InOrder'
<1> SUFFICES ASSUME InSequence, Consistent, InOrder, [Next]_vars PROVE InOrder'
  OBVIOUS
<1>1. CASE VersionsNext
  BY <1>1, VersionsInOrder
<1>2. CASE Tick \/ UNCHANGED vars
  BY <1>2, AsideInOrder DEF Tick, vars, scheduleVars, Present
<1>3. CASE DeleteSchedule
  <2>1. ~Present'
    BY <1>3 DEF DeleteSchedule, NoRow, Present
  <2> QED
    BY <1>3, <2>1, AsideInOrder DEF DeleteSchedule
<1>4. ASSUME NEW r \in Request, RequestAborts(r) PROVE InOrder'
  <2>1. UpToDate(r)' /\ UNCHANGED <<rowVars, schedule, lagging>>
    BY <1>4, Parts, Ends DEF RequestAborts, Abort, scheduleVars
  <2> QED
    BY <2>1, OnlyRequest
<1> QED
  BY <1>1, <1>2, <1>3, <1>4, SyncReadInOrder, SyncWriteInOrder, SuspendInOrder,
     DeleteWithWorkflowInOrder, ScheduleReadInOrder, CreateCommitInOrder,
     UpdateCommitInOrder, TaskInOrder
  DEF Next

LEMMA InOrderAlways ==
  ASSUME InSequence
  PROVE  Spec => []InOrder
<1>1. Consistent /\ InOrder /\ [Next]_vars => InOrder'
  BY NextInOrder
<1> QED
  BY <1>1, Consistency, InitInOrder, PTL DEF Spec

\* If requests about a workflow follow each other, none of them leaves a
\* schedule that runs although the workflow is not active, wherever it fails
\* and whatever the tasks do meanwhile: the order of suspension and commit in
\* workflow_service.py is enough.
THEOREM InactiveSchedulesAreSuspended ==
  ASSUME InSequence
  PROVE  Spec => []InactiveIsSuspended
<1>1. InOrder => InactiveIsSuspended
  BY DEF InOrder, Follows
<1> QED
  BY <1>1, InOrderAlways, PTL

\* If requests about a workflow follow each other, what runs on schedule is
\* the published version, and it has a scheduled trigger, from the return of
\* one synchronisation until the next publication.
THEOREM ScheduleFollowsPublication ==
  ASSUME InSequence
  PROVE  Spec => []FollowsPublication
<1>1. InOrder => FollowsPublication
  BY DEF InOrder, Follows
<1> QED
  BY <1>1, InOrderAlways, PTL
=============================================================================
