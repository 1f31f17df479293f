-------------------------- MODULE WorkflowVersions --------------------------
(***************************************************************************)
(* workflow-service: the row of one workflow, its versions, and the        *)
(* requests that edit, publish, activate, deactivate and delete them.  A   *)
(* request reads, may call the integration service, and commits; nothing   *)
(* is locked in between.  WorkflowSchedules adds what the calls do.        *)
(***************************************************************************)
EXTENDS Integers, FiniteSets

CONSTANTS
  Request,    \* requests that can be in progress at once
  MaxVersion, \* bound on the number of versions ever created
  Definition, \* contents of a version: its nodes and edges
  Valid,      \* those that validate_definition accepts
  Scheduled,  \* those with a trigger.schedule node
  Empty,      \* the contents of the first version of a new workflow
  None

ASSUME VersionsAssumption ==
  /\ MaxVersion \in Nat \ {0} /\ None \notin Int
  /\ Valid \subseteq Definition /\ Scheduled \subseteq Definition
  /\ Empty \in Definition \ (Valid \cup Scheduled)

\* Ids in the order of creation; the id of a deleted version is not used again.
Version == 1..MaxVersion

VARIABLES
  status, published, \* the row of the workflow; "deleted" if it is gone
  versions,          \* the status of each version
  nodes,             \* the definition of each version
  pc,                \* where each request is
  seen               \* what each request has read

rowVars == <<status, published, versions, nodes>>
requestVars == <<pc, seen>>
versionVars == <<rowVars, requestVars>>

Exists(v) == versions[v] \in {"draft", "published"}
WasPublished(v) == versions[v] \in {"published", "deleted"}

\* A request has loaded the workflow and decided about a version; scheduled
\* is has_schedule_trigger.  The rest is read by WorkflowSchedules.
NothingSeen == [version |-> None, status |-> "draft", published |-> None,
                scheduled |-> FALSE, row |-> None, change |-> "edit"]

Loaded == [NothingSeen EXCEPT !.status = status, !.published = published]

\* The arguments of the call that synchronises the schedule.
ForSync(v, scheduled) == [NothingSeen EXCEPT !.version = v, !.scheduled = scheduled]

Goto(r, label, read) ==
  /\ pc' = [pc EXCEPT ![r] = label]
  /\ seen' = [seen EXCEPT ![r] = read]

Done(r) == Goto(r, "idle", NothingSeen)

Init ==
  /\ status = "draft" /\ published = None
  /\ versions = [v \in Version |-> IF v = 1 THEN "draft" ELSE "absent"]
  /\ nodes = [v \in Version |-> Empty]
  /\ pc = [r \in Request |-> "idle"] /\ seen = [r \in Request |-> NothingSeen]

-----------------------------------------------------------------------------
(* Drafts.                                                                 *)

IsLatest(v) == Exists(v) /\ \A u \in Version : Exists(u) => u <= v

\* The new version copies the latest one.
CreateDraft(v) ==
  /\ status # "deleted" /\ versions[v] = "absent"
  /\ \A u \in Version : u < v => versions[u] # "absent"
  /\ versions' = [versions EXCEPT ![v] = "draft"]
  /\ \E latest \in Version :
       IsLatest(latest) /\ nodes' = [nodes EXCEPT ![v] = nodes[latest]]
  /\ UNCHANGED <<status, published, requestVars>>

\* Any of the six operations on nodes and edges.
EditRead(r, v) ==
  /\ pc[r] = "idle" /\ versions[v] = "draft"
  /\ Goto(r, "edit", [NothingSeen EXCEPT !.version = v])
  /\ UNCHANGED rowVars

EditCommit(r) ==
  /\ pc[r] = "edit" /\ Exists(seen[r].version)
  /\ \E d \in Definition : nodes' = [nodes EXCEPT ![seen[r].version] = d]
  /\ Done(r)
  /\ UNCHANGED <<status, published, versions>>

-----------------------------------------------------------------------------
(* Publication and activation.                                             *)

\* Mutant: nothing is left to do if the workflow is active.
AlreadyActive(v) == Exists(v) /\ status = "active"

AlreadyPublished(v) ==
  versions[v] = "published" /\ published = v /\ status = "active"

Publishable(v) ==
  /\ versions[v] = "draft" \/ (versions[v] = "published" /\ published = None)
  /\ nodes[v] \in Valid

PublishRead(r, v) ==
  /\ pc[r] = "idle" /\ status # "deleted"
  /\ LET scheduled == nodes[v] \in Scheduled IN
     \/ AlreadyPublished(v) /\ Goto(r, "sync", ForSync(v, scheduled))
     \/ /\ Publishable(v)
        /\ Goto(r, "publish", [Loaded EXCEPT !.version = v, !.scheduled = scheduled])
  /\ UNCHANGED rowVars

\* The session writes the columns that differ from what it loaded.
Written(column, loaded, value) == IF value = loaded THEN column ELSE value

PublishCommit(r) ==
  LET v == seen[r].version IN
  /\ pc[r] = "publish" /\ status # "deleted" /\ Exists(v)
  /\ versions' = [versions EXCEPT ![v] = "published"]
  /\ status' = Written(status, seen[r].status, "active")
  /\ published' = v
  /\ Goto(r, "sync", ForSync(v, seen[r].scheduled))
  /\ UNCHANGED nodes

ActivateRead(r) ==
  /\ pc[r] = "idle" /\ published # None /\ status # "active"
  /\ Goto(r, "activate", [NothingSeen EXCEPT !.scheduled = nodes[published] \in Scheduled])
  /\ UNCHANGED rowVars

\* The workflow is loaded again after the commit, has_schedule_trigger is not.
ActivateCommit(r) ==
  /\ pc[r] = "activate" /\ status # "deleted"
  /\ status' = "active"
  /\ IF published = None THEN Done(r)
     ELSE Goto(r, "sync", ForSync(published, seen[r].scheduled))
  /\ UNCHANGED <<published, versions, nodes>>

\* Mutant: the workflow is marked inactive before the schedule is suspended.
DeactivateReadAndMark(r) ==
  /\ pc[r] = "idle" /\ published # None /\ status # "inactive"
  /\ status' = "inactive"
  /\ Goto(r, "suspend", NothingSeen)
  /\ UNCHANGED <<published, versions, nodes>>

DeactivateRead(r) ==
  /\ pc[r] = "idle" /\ published # None /\ status # "inactive"
  /\ Goto(r, "suspend", NothingSeen)
  /\ UNCHANGED rowVars

DeactivateCommit(r) ==
  /\ pc[r] = "deactivate" /\ status # "deleted"
  /\ status' = "inactive"
  /\ Done(r)
  /\ UNCHANGED <<published, versions, nodes>>

-----------------------------------------------------------------------------
(* Deletion.  The session keeps the workflow it loaded before the route    *)
(* called other services.                                                  *)

DeleteVersionRead(r, v) ==
  /\ pc[r] = "idle" /\ Exists(v)
  /\ ~(status = "active" /\ published = v)
  /\ Goto(r, "delete_version", [Loaded EXCEPT !.version = v])
  /\ UNCHANGED rowVars

\* The foreign key refuses to delete a version that has been published since.
DeleteVersionCommit(r) ==
  LET v == seen[r].version IN
  /\ pc[r] = "delete_version" /\ Exists(v)
  /\ \/ seen[r].published = v /\ published' = None
     \/ seen[r].published # v /\ published # v /\ UNCHANGED published
  /\ versions' = [versions EXCEPT ![v] = "deleted"]
  /\ Done(r)
  /\ UNCHANGED <<status, nodes>>

DeleteWorkflowRead(r) ==
  /\ pc[r] = "idle" /\ status \in {"draft", "inactive"}
  /\ Goto(r, "delete_workflow", Loaded)
  /\ UNCHANGED rowVars

DeleteWorkflowCommit(r) ==
  /\ pc[r] = "delete_workflow" /\ status # "deleted"
  /\ seen[r].published = None => published = None
  /\ status' = "deleted" /\ published' = None
  /\ versions' = [v \in Version |-> IF Exists(v) THEN "deleted" ELSE versions[v]]
  /\ Goto(r, "delete_schedule", NothingSeen)
  /\ UNCHANGED nodes

-----------------------------------------------------------------------------
(* The end of a call, and of a request.                                    *)

CallReturns(r) ==
  /\ \/ pc[r] \in {"sync", "sync_write", "delete_schedule"} /\ Done(r)
     \/ pc[r] = "suspend" /\ Goto(r, "deactivate", seen[r])
  /\ UNCHANGED rowVars

\* A call fails or times out, a commit is refused, the process ends.
Abort(r) ==
  /\ pc[r] # "idle"
  /\ Done(r)
  /\ UNCHANGED rowVars

VersionsStep ==
  \/ \E v \in Version : CreateDraft(v)
  \/ \E r \in Request :
       \/ \E v \in Version : EditRead(r, v) \/ PublishRead(r, v) \/ DeleteVersionRead(r, v)
       \/ ActivateRead(r) \/ DeactivateRead(r) \/ DeleteWorkflowRead(r)
       \/ EditCommit(r) \/ PublishCommit(r) \/ ActivateCommit(r) \/ DeactivateCommit(r)
       \/ DeleteVersionCommit(r) \/ DeleteWorkflowCommit(r)

-----------------------------------------------------------------------------
WorkflowStatus == {"draft", "active", "inactive", "deleted"}
VersionState == {"absent", "draft", "published", "deleted"}

\* The foreign key, and what it gives: the published version has been
\* published and not been deleted since.
PublishedExists == published # None => versions[published] = "published"

=============================================================================
