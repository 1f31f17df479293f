----------------------------- MODULE WorkflowsPage -----------------------------
(***************************************************************************)
(* The workflows page: the filtered list, the row of a workflow with its   *)
(* menu and the dialog that switches it on and off, the dialogs that       *)
(* create and delete, and the workflow service, which others use too.      *)
(***************************************************************************)
EXTENDS LatestList

CONSTANTS
  Flow,
  MaxCalls,   \* bound on creations, deletions and switches
  MaxTrouble  \* bound on calls that fail and on what others do

VARIABLES
  stored,   \* status of every workflow, "absent" or "deleted"
  filter,   \* statusFilter
  dialog,   \* the dialog that covers the page, and its workflow
  call,     \* the call of the dialog under way
  opened,   \* the workflow whose builder the page went to, None on the page
  gone,     \* history: workflows this page was told are deleted
  missed,   \* history: a call without an answer, or a change by others
  calls     \* history: how much of each bound is used up

vars == <<stored, listVars, filter, dialog, call, opened, gone, missed, calls>>

Status == {"draft", "inactive", "active"}
NoDialog == [type |-> "none", id |-> None, error |-> "none"]
NoCall == [kind |-> "none", id |-> None, answer |-> "none"]
Kept == {f \in Flow : stored[f] \in Status}
Rows == {[id |-> f, status |-> stored[f]] : f \in Kept}
Ids(rows) == {r.id : r \in rows}
Call(kind, limit) == calls[kind] < limit /\ calls' = [calls EXCEPT ![kind] = @ + 1]

-----------------------------------------------------------------------------
(* The list.  The switch of a row is shown with the status that the list   *)
(* has, and rows stay while the list is asked for again.                   *)

ListHandled(i) ==
  Handled(i, Rows) /\ UNCHANGED <<stored, filter, dialog, call, opened, gone, missed, calls>>
\* An answer also ends the error of an earlier request.
ListAnswered(i) ==
  /\ requests[i].handled /\ requests' = Without(requests, i)
  /\ IF requests[i].active
     THEN items' = requests[i].answer /\ loading' = FALSE /\ loadError' = FALSE
     ELSE UNCHANGED <<items, loading, loadError>>
  /\ UNCHANGED <<stored, filter, dialog, call, opened, gone, missed, calls>>
ListFails(i) ==
  /\ Call("trouble", MaxTrouble) /\ Fails(i)
  /\ UNCHANGED <<stored, filter, dialog, call, opened, gone, missed>>

\* Mutant: the list that was asked for before a deletion is waited for.
ReloadUnlessAsked == requests' = requests
Reload == requests' = Append(Overtaken, Request("all"))

OnPage == opened = None /\ dialog = NoDialog
Retry ==
  /\ OnPage /\ ~loading /\ Ask("all")
  /\ UNCHANGED <<stored, items, filter, dialog, call, opened, gone, missed, calls>>
Filter(status) ==
  /\ OnPage /\ ~loading /\ ~loadError /\ items # {} /\ filter' = status
  /\ UNCHANGED <<stored, listVars, dialog, call, opened, gone, missed, calls>>

Listed(r) == r \in Shown /\ filter \in {"all", r.status}

-----------------------------------------------------------------------------
(* Dialogs.                                                                *)

OpenCreate ==
  /\ OnPage /\ dialog' = [NoDialog EXCEPT !.type = "create"]
  /\ UNCHANGED <<stored, listVars, filter, call, opened, gone, missed, calls>>
AskDelete(r) ==
  /\ OnPage /\ Listed(r) /\ r.status \in {"draft", "inactive"}
  /\ dialog' = [NoDialog EXCEPT !.type = "delete", !.id = r.id]
  /\ UNCHANGED <<stored, listVars, filter, call, opened, gone, missed, calls>>
AskSwitch(r) ==
  /\ OnPage /\ Listed(r) /\ r.status \in {"active", "inactive"}
  /\ dialog' = [NoDialog EXCEPT !.type = "switch", !.id = r.id]
  /\ UNCHANGED <<stored, listVars, filter, call, opened, gone, missed, calls>>
Close ==
  /\ dialog # NoDialog /\ call = NoCall /\ dialog' = NoDialog
  /\ UNCHANGED <<stored, listVars, filter, call, opened, gone, missed, calls>>
OpenFlow(r) ==
  /\ OnPage /\ Listed(r) /\ opened' = r.id /\ requests' = <<>>
  /\ UNCHANGED <<stored, items, loading, loadError, filter, dialog, call, gone, missed, calls>>

Begin(kind, id) ==
  /\ call = NoCall /\ Call("calls", MaxCalls)
  /\ call' = [kind |-> kind, id |-> id, answer |-> "none"]
  /\ dialog' = [dialog EXCEPT !.error = "none"]
  /\ UNCHANGED <<stored, listVars, filter, opened, gone, missed>>
Create == dialog.type = "create" /\ Begin("create", None)
Delete == dialog.type = "delete" /\ Begin("delete", dialog.id)
\* handleToggleStatus decides by the status the row has when it is clicked; a
\* row that the list lost takes its dialog along.
ToggleStatus(r) ==
  /\ dialog.type = "switch" /\ Listed(r) /\ r.id = dialog.id
  /\ Begin(IF r.status = "active" THEN "deactivate" ELSE "activate", r.id)
RowLost ==
  /\ dialog.type = "switch" /\ dialog.id \notin Ids({r \in Shown : Listed(r)})
  /\ dialog' = NoDialog
  /\ UNCHANGED <<stored, listVars, filter, call, opened, gone, missed, calls>>

-----------------------------------------------------------------------------
(* The workflow service, and its answers.                                  *)

Effect(f) ==
  CASE call.kind = "create" -> stored[f] = "absent" /\ stored' = [stored EXCEPT ![f] = "draft"]
    [] call.kind = "delete" -> /\ f = call.id /\ stored[f] \in {"draft", "inactive"}
                               /\ stored' = [stored EXCEPT ![f] = "deleted"]
    [] call.kind = "activate" -> /\ f = call.id /\ stored[f] = "inactive"
                                 /\ stored' = [stored EXCEPT ![f] = "active"]
    [] call.kind = "deactivate" -> /\ f = call.id /\ stored[f] = "active"
                                   /\ stored' = [stored EXCEPT ![f] = "inactive"]
    [] OTHER -> FALSE
Answerable == call # NoCall /\ call.answer = "none"
Handle ==
  /\ Answerable
  /\ \E f \in Flow : Effect(f) /\ call' = [call EXCEPT !.answer = "ok", !.id = f]
  /\ UNCHANGED <<listVars, filter, dialog, opened, gone, missed, calls>>
Refuse ==
  /\ Answerable /\ call.kind # "create"
  /\ CASE call.kind = "delete" -> stored[call.id] \notin {"draft", "inactive"}
       [] call.kind = "activate" -> stored[call.id] # "inactive"
       [] OTHER -> stored[call.id] # "active"
  /\ call' = [call EXCEPT !.answer = "refused"]
  /\ UNCHANGED <<stored, listVars, filter, dialog, opened, gone, missed, calls>>

\* A new workflow is opened at once.
Created ==
  /\ call.kind = "create" /\ call.answer = "ok" /\ opened' = call.id /\ requests' = <<>>
  /\ UNCHANGED <<items, gone>>
DeletedRow ==
  /\ call.kind = "delete" /\ call.answer = "ok" /\ gone' = gone \cup {call.id} /\ Reload
  /\ UNCHANGED <<items, opened>>
Switched ==
  /\ call.kind \in {"activate", "deactivate"} /\ call.answer = "ok"
  /\ items' = {IF r.id = call.id
               THEN [r EXCEPT !.status = IF call.kind = "activate" THEN "active" ELSE "inactive"]
               ELSE r : r \in items}
  /\ UNCHANGED <<requests, opened, gone>>
CallAnswered ==
  /\ Created \/ DeletedRow \/ Switched
  /\ dialog' = NoDialog /\ call' = NoCall
  /\ UNCHANGED <<stored, loading, loadError, filter, missed, calls>>
CallRefused ==
  /\ call.answer = "refused" /\ call' = NoCall
  /\ dialog' = [dialog EXCEPT !.error = IF dialog = NoDialog THEN "none" ELSE "refused"]
  /\ UNCHANGED <<stored, listVars, filter, opened, gone, missed, calls>>
CallFails ==
  /\ call # NoCall /\ Call("trouble", MaxTrouble) /\ call' = NoCall /\ missed' = TRUE
  /\ dialog' = [dialog EXCEPT !.error = IF dialog = NoDialog THEN "none" ELSE "failed"]
  /\ UNCHANGED <<stored, listVars, filter, opened, gone>>

OthersChange(f) ==
  /\ f \in Kept /\ Call("trouble", MaxTrouble) /\ missed' = TRUE
  /\ \E s \in {"active", "inactive", "deleted"} : stored' = [stored EXCEPT ![f] = s]
  /\ UNCHANGED <<listVars, filter, dialog, call, opened, gone>>

-----------------------------------------------------------------------------
Init ==
  /\ stored \in [Flow -> {"absent", "inactive", "active"}]
  /\ ListInit /\ filter = "all" /\ dialog = NoDialog /\ call = NoCall /\ opened = None
  /\ gone = {} /\ missed = FALSE /\ calls = [k \in {"calls", "trouble"} |-> 0]

Next ==
  \/ \E i \in DOMAIN requests : ListHandled(i) \/ ListAnswered(i) \/ ListFails(i)
  \/ \E status \in {"all"} \cup Status : Filter(status)
  \/ \E r \in items : AskDelete(r) \/ AskSwitch(r) \/ OpenFlow(r) \/ ToggleStatus(r)
  \/ \E f \in Flow : OthersChange(f)
  \/ Retry \/ OpenCreate \/ Close \/ Create \/ Delete \/ RowLost \/ Handle \/ Refuse
  \/ CallAnswered \/ CallRefused \/ CallFails

-----------------------------------------------------------------------------
\* A deletion asks for the list again without saying that it is loading.
LoadingEnds == opened = None /\ loading => Current # {}
DeletedIsFinal ==
  /\ gone \subseteq {f \in Flow : stored[f] = "deleted"}
  /\ call.kind = "delete" /\ call.answer = "ok" => call.id \in Flow /\ stored[call.id] = "deleted"
AnswersAreClean ==
  /\ \A rows \in Answers : Ids(rows) \cap gone = {}
  /\ opened = None /\ Current = {} /\ ~loadError => Ids(items) \cap gone = {}
AnswersAreCurrent ==
  opened = None /\ ~missed /\ (call.kind \in {"create", "delete"} => call.answer # "ok") =>
    /\ \A rows \in Answers : Ids(rows) = Kept
    /\ Current = {} /\ ~loadError => Ids(items) = Kept

\* A workflow that the page was told is deleted is not in the list any more once
\* the list has come, whatever was asked for or switched meanwhile.
DeletedStaysAway == Quiet /\ opened = None => Ids(Shown) \cap gone = {}

\* Once every call is answered the page lists the workflows that are stored.
ListIsCurrent ==
  opened = None /\ Quiet /\ call = NoCall /\ ~missed => Ids(Shown) = Kept

=============================================================================
