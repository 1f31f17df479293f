----------------------------- MODULE AiConnections -----------------------------
(***************************************************************************)
(* AIProviderConnections: the list of AI connections, and one dialog that  *)
(* creates, edits, deletes or tests a connection or shows its models.  The *)
(* answers of a dialog that was closed are told by the number of their     *)
(* request; saves and deletions hold the dialog open.                      *)
(***************************************************************************)
EXTENDS LatestList

CONSTANTS
  Ai,
  MaxOpened,  \* bound on the dialogs opened
  MaxSaves,   \* bound on saves and deletions
  MaxFails    \* bound on calls that fail and on deletions by others

VARIABLES
  kept,       \* status of the connections of the workspace
  dialog,     \* modal and selected
  draft,      \* form, of the connection it was filled from
  requestId,
  inspected,  \* loadDetails and inspect under way
  answered,   \* models and result: what the dialog shows
  write,      \* the save or deletion under way: locked
  removed,    \* history: connections this page was told are deleted
  made        \* history: how much of each bound is used up

dialogVars == <<dialog, draft, requestId, inspected, answered>>
vars == <<kept, listVars, dialogVars, write, removed, made>>

Status == {"active", "inactive"}
Rows == {[id |-> a, status |-> kept[a]] : a \in {b \in Ai : kept[b] \in Status}}
NoDialog == [type |-> "none", id |-> None]
EmptyForm == [of |-> None, status |-> "active"]
NoAnswer == [kind |-> "none", of |-> None]
NoWrite == [kind |-> "none", id |-> None, status |-> "active", answer |-> "none"]
Made(kind, limit) == made[kind] < limit /\ made' = [made EXCEPT ![kind] = @ + 1]
Trouble == Made("fails", MaxFails)

-----------------------------------------------------------------------------
ListHandled(i) == Handled(i, Rows) /\ UNCHANGED <<kept, dialogVars, write, removed, made>>
ListAnswered(i) == Answered(i) /\ UNCHANGED <<kept, dialogVars, write, removed, made>>
ListFails(i) == Trouble /\ Fails(i) /\ UNCHANGED <<kept, dialogVars, write, removed>>
RetryList ==
  /\ loadError /\ ~loading /\ dialog = NoDialog /\ Ask("all")
  /\ UNCHANGED <<kept, items, dialogVars, write, removed, made>>

\* open: nothing of the dialog before is left, but its request goes on.
Open(type, a) ==
  /\ dialog' = [type |-> type, id |-> a] /\ draft' = EmptyForm /\ answered' = NoAnswer
OpenCreate ==
  /\ dialog = NoDialog /\ Made("opened", MaxOpened) /\ Open("create", None)
  /\ UNCHANGED <<kept, listVars, requestId, inspected, write, removed>>
OpenDelete(a) ==
  /\ dialog = NoDialog /\ Made("opened", MaxOpened) /\ Open("delete", a)
  /\ UNCHANGED <<kept, listVars, requestId, inspected, write, removed>>

\* The details for the edit form, the models, or a test; again after an error.
Inspect(type, a) ==
  /\ \/ dialog = NoDialog
     \/ dialog = [type |-> type, id |-> a] /\ answered.kind = "error"
  /\ Made("opened", MaxOpened) /\ Open(type, a) /\ requestId' = requestId + 1
  /\ inspected' = inspected \cup
       {[kind |-> type, of |-> a, number |-> requestId', answer |-> "none"]}
  /\ UNCHANGED <<kept, listVars, write, removed>>
InspectHandled(request) ==
  /\ request.answer = "none"
  /\ inspected' = (inspected \ {request}) \cup {[request EXCEPT !.answer = kept[request.of]]}
  /\ UNCHANGED <<kept, listVars, dialog, draft, requestId, answered, write, removed, made>>

\* Mutant: an answer counts whichever dialog is open by then.
InspectAnsweredAnyway(request) ==
  /\ request.answer # "none" /\ inspected' = inspected \ {request}
  /\ dialog # NoDialog
  /\ IF request.answer \notin Status
     THEN answered' = [kind |-> "error", of |-> request.of] /\ UNCHANGED <<dialog, draft>>
     ELSE IF request.kind = "details"
     THEN /\ dialog' = [type |-> "edit", id |-> request.of]
          /\ draft' = [of |-> request.of, status |-> request.answer] /\ UNCHANGED answered
     ELSE answered' = [kind |-> request.kind, of |-> request.of] /\ UNCHANGED <<dialog, draft>>
  /\ UNCHANGED <<kept, listVars, requestId, write, removed, made>>
InspectAnswered(request) ==
  /\ request.answer # "none" /\ inspected' = inspected \ {request}
  /\ IF request.number # requestId THEN UNCHANGED <<dialog, draft, answered>>
     ELSE IF request.answer \notin Status
     THEN answered' = [kind |-> "error", of |-> request.of] /\ UNCHANGED <<dialog, draft>>
     ELSE IF request.kind = "details"
     THEN /\ dialog' = [type |-> "edit", id |-> request.of]
          /\ draft' = [of |-> request.of, status |-> request.answer] /\ UNCHANGED answered
     ELSE answered' = [kind |-> request.kind, of |-> request.of] /\ UNCHANGED <<dialog, draft>>
  /\ UNCHANGED <<kept, listVars, requestId, write, removed, made>>
InspectFails(request) ==
  /\ Trouble /\ inspected' = inspected \ {request}
  /\ answered' = IF request.number = requestId THEN [kind |-> "error", of |-> request.of]
                                               ELSE answered
  /\ UNCHANGED <<kept, listVars, dialog, draft, requestId, write, removed>>

Close ==
  /\ dialog # NoDialog /\ write = NoWrite
  /\ requestId' = requestId + 1 /\ dialog' = NoDialog
  /\ draft' = EmptyForm /\ answered' = NoAnswer
  /\ UNCHANGED <<kept, listVars, inspected, write, removed, made>>

SwitchStatus ==
  /\ dialog.type = "edit" /\ write = NoWrite
  /\ draft' = [draft EXCEPT !.status = IF @ = "active" THEN "inactive" ELSE "active"]
  /\ UNCHANGED <<kept, listVars, dialog, requestId, inspected, answered, write, removed, made>>

-----------------------------------------------------------------------------
Save ==
  /\ dialog.type \in {"create", "edit"} /\ write = NoWrite /\ Made("saves", MaxSaves)
  /\ write' = [kind |-> dialog.type, id |-> dialog.id, status |-> draft.status,
               answer |-> "none"]
  /\ UNCHANGED <<kept, listVars, dialogVars, removed>>
Remove ==
  /\ dialog.type = "delete" /\ write = NoWrite /\ Made("saves", MaxSaves)
  /\ write' = [NoWrite EXCEPT !.kind = "delete", !.id = dialog.id]
  /\ UNCHANGED <<kept, listVars, dialogVars, removed>>
WriteHandled ==
  /\ write # NoWrite /\ write.answer = "none"
  /\ IF write.kind = "create"
     THEN /\ write' = [write EXCEPT !.answer = "ok"]
          /\ \E a \in Ai : kept[a] = "absent" /\ kept' = [kept EXCEPT ![a] = "active"]
     ELSE IF kept[write.id] \notin Status
     THEN write' = [write EXCEPT !.answer = "404"] /\ UNCHANGED kept
     ELSE /\ write' = [write EXCEPT !.answer = "ok"]
          /\ kept' = [kept EXCEPT ![write.id] =
                        IF write.kind = "delete" THEN "deleted" ELSE write.status]
  /\ UNCHANGED <<listVars, dialogVars, removed, made>>
WriteAnswered ==
  /\ write.answer = "ok" /\ write' = NoWrite /\ Ask("all")
  /\ dialog' = NoDialog
  /\ draft' = IF write.kind = "delete" THEN draft ELSE EmptyForm
  /\ removed' = IF write.kind = "delete" THEN removed \cup {write.id} ELSE removed
  /\ UNCHANGED <<kept, items, requestId, inspected, answered, made>>
WriteFails ==
  /\ write # NoWrite /\ write' = NoWrite
  /\ IF write.answer = "404" THEN UNCHANGED made ELSE Trouble
  /\ UNCHANGED <<kept, listVars, dialogVars, removed>>
OthersDelete(a) ==
  /\ kept[a] \in Status /\ Trouble /\ kept' = [kept EXCEPT ![a] = "deleted"]
  /\ UNCHANGED <<listVars, dialogVars, write, removed>>

-----------------------------------------------------------------------------
Init ==
  /\ ListInit /\ kept \in [Ai -> {"active", "absent"}]
  /\ dialog = NoDialog /\ draft = EmptyForm /\ requestId = 0 /\ inspected = {}
  /\ answered = NoAnswer /\ write = NoWrite /\ removed = {}
  /\ made = [k \in {"opened", "saves", "fails"} |-> 0]

Next ==
  \/ \E i \in DOMAIN requests : ListHandled(i) \/ ListAnswered(i) \/ ListFails(i)
  \/ RetryList \/ OpenCreate \/ Close \/ SwitchStatus \/ Save \/ Remove
  \/ WriteHandled \/ WriteAnswered \/ WriteFails
  \/ \E r \in Shown : OpenDelete(r.id)
  \/ \E r \in Shown, type \in {"details", "models", "test"} : Inspect(type, r.id)
  \/ \E request \in inspected :
       InspectHandled(request) \/ InspectAnswered(request) \/ InspectFails(request)
  \/ \E a \in Ai : OthersDelete(a)

-----------------------------------------------------------------------------
\* What was told to be deleted stays so, and no answer that counts has it.
DeletedIsFinal ==
  /\ \A a \in removed : kept[a] = "deleted"
  /\ write.kind = "delete" /\ write.answer = "ok" => kept[write.id] = "deleted"
AnswersAreClean == \A rows \in Answers \cup {Shown} : \A r \in rows : r.id \notin removed

\* The request with the latest number is what the open dialog waits for.
Looks == {"details", "models", "test"}
InspectsDialog ==
  /\ \A q \in inspected : q.number <= requestId
  /\ \A q \in inspected : q.number = requestId =>
       dialog = [type |-> q.kind, id |-> q.of] /\ q.kind \in Looks /\ answered = NoAnswer
  /\ \A p, q \in inspected : p.number = q.number => p = q
  /\ write # NoWrite => dialog.type \in {"create", "edit", "delete"}
  /\ answered # NoAnswer => dialog.type \in Looks

\* What the dialog shows is about the connection in its title, and is what the
\* dialog was opened for: no answer of a dialog that was closed enters another.
AnswerIsOfDialog ==
  /\ answered.kind # "none" => /\ answered.of = dialog.id
                               /\ answered.kind \in {dialog.type, "error"}
  /\ dialog.type = "edit" => draft.of = dialog.id

DeletedStaysAway == \A r \in Shown : r.id \notin removed

=============================================================================
