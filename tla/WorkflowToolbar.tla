---------------------------- MODULE WorkflowToolbar ----------------------------
(***************************************************************************)
(* The toolbar of the builder: the menus of the workflow and of its        *)
(* versions, and the dialogs that rename the workflow, switch it on and    *)
(* off, delete it, or delete one of its versions.  The page loads anew     *)
(* after most of them, and the toolbar mounts anew with it.                *)
(***************************************************************************)
EXTENDS Integers, Sequences

CONSTANTS
  None,
  MaxVersion,      \* bound on version numbers
  MaxToolbarCalls, \* bound on the calls of the toolbar
  MaxToolbarFails  \* bound on calls without an answer

VARIABLES
  workflow,  \* the workflow service: its status, versions and live version
  loads,     \* loads of the page under way, the current one last
  shown,     \* workflow, versions and version of the page
  mounted,   \* isLoading and error: whether the builder is there
  dialog,    \* the dialog of the toolbar, and the version it is about
  sent,      \* calls under way, also of toolbars that are gone
  mounts,    \* counts the mounts of the toolbar
  unsure,    \* history: a call without an answer, or one that a load overtook
  budget     \* history: how much of each bound is used up

vars == <<workflow, loads, shown, mounted, dialog, sent, mounts, unsure, budget>>

Version == 1..MaxVersion
NoDialog == [type |-> "none", target |-> None, error |-> "none"]
Load == [workflow |-> None, versions |-> None]
Budget(kind, limit) == budget[kind] < limit /\ budget' = [budget EXCEPT ![kind] = @ + 1]
Newest(S) == CHOOSE v \in S : \A u \in S : u <= v

\* Only version 1 was ever published; the page prefers the newest draft.
IsDraft(v) == v > 1

-----------------------------------------------------------------------------
(* The page.  It reads the workflow, then its versions, and shows both.    *)

\* A load while a call is under way shows the toolbar of before that call.
Fetch(others) ==
  /\ loads' = <<Load>> /\ mounted' = "loading" /\ dialog' = NoDialog
  /\ unsure' = (unsure \/ others # {})

ReadWorkflow ==
  /\ loads # <<>> /\ loads[1].workflow = None /\ workflow.status # "deleted"
  /\ loads' = [loads EXCEPT ![1].workflow = [status |-> workflow.status, live |-> workflow.live]]
  /\ UNCHANGED <<workflow, shown, mounted, dialog, sent, mounts, unsure, budget>>
ReadVersions ==
  /\ loads # <<>> /\ loads[1].workflow # None /\ loads[1].versions = None
  /\ loads' = [loads EXCEPT ![1].versions = workflow.versions]
  /\ UNCHANGED <<workflow, shown, mounted, dialog, sent, mounts, unsure, budget>>
LoadAnswered ==
  /\ loads # <<>> /\ loads[1].versions # None /\ loads' = <<>>
  /\ IF loads[1].versions = {} THEN mounted' = "failed" /\ UNCHANGED <<shown, mounts>>
     ELSE /\ mounted' = "builder" /\ mounts' = mounts + 1
          /\ shown' = [status |-> loads[1].workflow.status, live |-> loads[1].workflow.live,
                       versions |-> loads[1].versions, version |-> Newest(loads[1].versions)]
  /\ UNCHANGED <<workflow, dialog, sent, unsure, budget>>
LoadFails ==
  /\ loads # <<>> /\ Budget("fails", MaxToolbarFails) /\ loads' = <<>> /\ mounted' = "failed"
  /\ UNCHANGED <<workflow, shown, dialog, sent, mounts, unsure>>
RetryLoad ==
  /\ mounted = "failed" /\ Budget("calls", MaxToolbarCalls) /\ Fetch(sent)
  /\ UNCHANGED <<workflow, shown, sent, mounts>>

-----------------------------------------------------------------------------
(* Menus.                                                                  *)

Free == mounted = "builder" /\ dialog = NoDialog
Under(kind) == \E c \in sent : c.kind = kind /\ c.mount = mounts
OpenDialog(type, target) ==
  /\ Free /\ dialog' = [type |-> type, target |-> target, error |-> "none"]
  /\ UNCHANGED <<workflow, loads, shown, mounted, sent, mounts, unsure, budget>>

StartMetadataEdit == OpenDialog("details", None)
AskStatus ==
  /\ shown.status = "active" \/ (shown.status = "inactive" /\ shown.live # None)
  /\ OpenDialog("status", None)
AskDeleteWorkflow == shown.status \in {"draft", "inactive"} /\ OpenDialog("delete", None)

\* Mutant: only the live version is kept.
CannotDeleteLive(v) == shown.status = "active" /\ v = shown.live
CannotDelete(v) ==
  shown.versions \subseteq {v} \/ (shown.status = "active" /\ v = shown.live)
AskDeleteVersion(v) ==
  /\ v \in shown.versions /\ ~CannotDelete(v) /\ OpenDialog("version", v)

\* The page shows another version that it knows.
SelectVersion(v) ==
  /\ Free /\ v \in shown.versions /\ v # shown.version
  /\ shown' = [shown EXCEPT !.version = v] /\ mounts' = mounts + 1
  /\ Budget("calls", MaxToolbarCalls)
  /\ UNCHANGED <<workflow, loads, mounted, dialog, sent, unsure>>

CloseDialog ==
  /\ mounted = "builder" /\ dialog # NoDialog /\ ~Under(dialog.type) /\ dialog' = NoDialog
  /\ UNCHANGED <<workflow, loads, shown, mounted, sent, mounts, unsure, budget>>

-----------------------------------------------------------------------------
(* Calls.                                                                  *)

Send(kind, action, target) ==
  /\ ~Under(kind) /\ Budget("calls", MaxToolbarCalls)
  /\ sent' = sent \cup {[kind |-> kind, action |-> action, target |-> target,
                         mount |-> mounts, answer |-> "none"]}
  /\ UNCHANGED <<workflow, loads, shown, mounted, dialog, mounts, unsure>>

Confirm == mounted = "builder" /\ dialog.type # "none"
SaveMetadata == Confirm /\ dialog.type = "details" /\ Send("details", "rename", None)
ToggleWorkflowStatus ==
  /\ Confirm /\ dialog.type = "status"
  /\ Send("status", IF shown.status = "active" THEN "deactivate" ELSE "activate", None)
ConfirmDeleteWorkflow == Confirm /\ dialog.type = "delete" /\ Send("delete", "delete", None)
ConfirmDeleteVersion ==
  Confirm /\ dialog.type = "version" /\ Send("version", "delete_version", dialog.target)

\* handleEditWorkflow of the builder: a button that no dialog of its own covers.
CreateDraft ==
  /\ Free /\ ~IsDraft(shown.version)
  /\ Send("draft", "create_draft", None)

\* What the service does, or "refused" by its conditions.
Allowed(c) ==
  /\ workflow.status # "deleted"
  /\ CASE c.action = "rename" -> TRUE
       [] c.action = "activate" -> workflow.status = "inactive" /\ workflow.live # None
       [] c.action = "deactivate" -> workflow.status = "active"
       [] c.action = "delete" -> workflow.status \in {"draft", "inactive"}
       [] c.action = "delete_version" ->
            /\ c.target \in workflow.versions
            /\ ~(workflow.status = "active" /\ workflow.live = c.target)
       [] c.action = "create_draft" ->
            workflow.versions # {} /\ Newest(workflow.versions) < MaxVersion
Performed(c) ==
  CASE c.action = "rename" -> workflow
    [] c.action = "activate" -> [workflow EXCEPT !.status = "active"]
    [] c.action = "deactivate" -> [workflow EXCEPT !.status = "inactive"]
    [] c.action = "delete" -> [workflow EXCEPT !.status = "deleted", !.versions = {}]
    [] c.action = "delete_version" ->
         [workflow EXCEPT !.versions = @ \ {c.target},
                          !.live = IF @ = c.target THEN None ELSE @]
    [] c.action = "create_draft" ->
         [workflow EXCEPT !.versions = @ \cup {Newest(@) + 1}]
CallHandled(c) ==
  /\ c.answer = "none"
  /\ workflow' = IF Allowed(c) THEN Performed(c) ELSE workflow
  /\ sent' = (sent \ {c}) \cup {[c EXCEPT !.answer = IF Allowed(c) THEN "ok" ELSE "refused"]}
  /\ UNCHANGED <<loads, shown, mounted, dialog, mounts, unsure, budget>>

\* A toolbar that is gone still tells the page.
IsMounted(c) == c.mount = mounts /\ mounted = "builder"
CallAnswered(c) ==
  /\ c.answer = "ok" /\ sent' = sent \ {c}
  /\ CASE c.kind = "status" ->
            /\ shown' = [shown EXCEPT !.status = IF c.action = "activate" THEN "active"
                                                 ELSE "inactive"]
            /\ dialog' = IF IsMounted(c) THEN NoDialog ELSE dialog
            /\ UNCHANGED <<loads, mounted, unsure>>
       [] c.kind = "delete" ->
            /\ mounted' = "left" /\ loads' = <<>> /\ dialog' = NoDialog
            /\ UNCHANGED <<shown, unsure>>
       [] OTHER -> Fetch(sent \ {c}) /\ UNCHANGED shown
  /\ UNCHANGED <<workflow, mounts, budget>>
CallRefused(c) ==
  /\ c.answer = "refused" /\ sent' = sent \ {c}
  /\ dialog' = IF IsMounted(c) /\ dialog.type = c.kind THEN [dialog EXCEPT !.error = "refused"]
               ELSE dialog
  /\ UNCHANGED <<workflow, loads, shown, mounted, mounts, unsure, budget>>
CallFails(c) ==
  /\ Budget("fails", MaxToolbarFails) /\ sent' = sent \ {c} /\ unsure' = TRUE
  /\ dialog' = IF IsMounted(c) /\ dialog.type = c.kind THEN [dialog EXCEPT !.error = "failed"]
               ELSE dialog
  /\ UNCHANGED <<workflow, loads, shown, mounted, mounts>>

-----------------------------------------------------------------------------
Init ==
  /\ \E n \in 1..2, active \in BOOLEAN :
       workflow = [status |-> IF active THEN "active" ELSE "inactive",
                   versions |-> 1..n, live |-> 1]
  /\ shown = [status |-> "draft", live |-> None, versions |-> {}, version |-> None]
  /\ loads = <<Load>> /\ mounted = "loading" /\ dialog = NoDialog /\ sent = {} /\ mounts = 0
  /\ unsure = FALSE /\ budget = [k \in {"calls", "fails"} |-> 0]

Next ==
  \/ mounted # "left" /\ (\/ ReadWorkflow \/ ReadVersions \/ LoadAnswered \/ LoadFails
                          \/ RetryLoad \/ StartMetadataEdit \/ AskStatus \/ AskDeleteWorkflow
                          \/ CloseDialog \/ SaveMetadata \/ ToggleWorkflowStatus
                          \/ ConfirmDeleteWorkflow \/ ConfirmDeleteVersion \/ CreateDraft
                          \/ \E v \in Version : AskDeleteVersion(v) \/ SelectVersion(v))
  \/ \E c \in sent : CallHandled(c) \/ (mounted # "left" /\ CallAnswered(c))
                     \/ CallRefused(c) \/ CallFails(c)

-----------------------------------------------------------------------------
\* A call belongs to the dialog that is open, but for that of a draft; a page that
\* loads waits for none; what it shows is there, but for what was just deleted.
CallsOfDialog ==
  /\ \A c \in sent : c.kind # "draft" =>
       /\ mounted = "builder" /\ c.mount = mounts /\ c.kind = dialog.type
       /\ c.kind = "version" => c.target = dialog.target
       /\ c.kind = "delete" => c.answer # "ok"
  /\ \A c \in sent : c.action = "delete_version" => c.kind = "version"
  /\ \A c, d \in sent : c.kind = d.kind /\ c.kind # "draft" => c = d
LoadsAlone ==
  /\ mounted # "builder" => sent = {} /\ dialog = NoDialog
  /\ loads # <<>> => mounted = "loading"
  /\ loads # <<>> /\ loads[1].versions # None => loads[1].versions = workflow.versions
JustDeleted == {c.target : c \in {d \in sent : d.kind = "version" /\ d.answer = "ok"}}
ShowsVersions ==
  /\ mounted = "builder" => shown.versions \ JustDeleted \subseteq workflow.versions
  /\ dialog.type = "version" => shown.versions \ {dialog.target} # {}
Careful == ~unsure /\ workflow.status # "deleted" => CallsOfDialog /\ LoadsAlone /\ ShowsVersions

\* The workflow keeps a version as long as every call is answered before the
\* page loads anew.  Only the toolbar sees to it: the service deletes the last
\* version of a workflow that is not active.
OneVersionKept == ~unsure /\ workflow.status # "deleted" => workflow.versions # {}

=============================================================================
