----------------------------- MODULE WebhooksPage -----------------------------
(***************************************************************************)
(* The webhooks page: the list, the drawer, the dialogs that create, edit, *)
(* regenerate and delete, and the dialog that shows a new endpoint and its *)
(* secret.  Nothing locks the actions of the drawer, so several of them    *)
(* may be under way, and their answers close and change what is open then. *)
(***************************************************************************)
EXTENDS LatestList

CONSTANTS
  Hook, Flow,
  MaxActs,    \* bound on saves and actions
  MaxTrouble  \* bound on calls that fail

VARIABLES
  hooks,      \* webhooks of the integration service
  panel,      \* modal
  chosen,     \* selected
  entry,      \* form
  versions,   \* getWorkflowVersions under way, with whether it is alive
  submitting, \* the save under way: saving
  acts,       \* updateWebhook, deleteWebhook and regenerateWebhookToken under way
  credential, \* the endpoint shown after creation or regeneration, as its webhook
  told,       \* history: webhooks this page was told are deleted
  lapses,     \* history: webhooks with a call that had no answer
  turns       \* history: how much of each bound is used up

formVars == <<entry, versions, submitting>>
vars == <<hooks, listVars, panel, chosen, formVars, acts, credential, told, lapses, turns>>

Absent == [live |-> FALSE, ever |-> FALSE]
Removed == [live |-> FALSE, ever |-> TRUE]
NoRow == [id |-> None]
Row(h) == [id |-> h, flow |-> hooks[h].flow, version |-> hooks[h].version,
           active |-> hooks[h].active, token |-> hooks[h].token]
Rows == {Row(h) : h \in {k \in Hook : hooks[k].live}}
EmptyForm == [flow |-> None, version |-> None, active |-> TRUE]
NoSubmit == [kind |-> "none", answer |-> "none"]
Turn(kind, limit) == turns[kind] < limit /\ turns' = [turns EXCEPT ![kind] = @ + 1]

-----------------------------------------------------------------------------
ListHandled(i) ==
  Handled(i, Rows) /\ UNCHANGED <<hooks, panel, chosen, formVars, acts, credential, told,
                                  lapses, turns>>
ListAnswered(i) ==
  Answered(i) /\ UNCHANGED <<hooks, panel, chosen, formVars, acts, credential, told,
                             lapses, turns>>
ListFails(i) ==
  /\ Turn("trouble", MaxTrouble) /\ Fails(i)
  /\ UNCHANGED <<hooks, panel, chosen, formVars, acts, credential, told, lapses>>
RetryList ==
  /\ panel = "none" /\ credential = None /\ loadError /\ ~loading /\ Ask("all")
  /\ UNCHANGED <<hooks, items, panel, chosen, formVars, acts, credential, told, lapses, turns>>

-----------------------------------------------------------------------------
(* Drawer and dialogs.                                                     *)

\* What the cleanup of the effect leaves of the requests for versions.
Dead == {[v EXCEPT !.alive = FALSE] : v \in versions}
Nothing == panel = "none" /\ credential = None
ShowDetails(r) ==
  /\ Nothing /\ r \in Shown /\ panel' = "details" /\ chosen' = r
  /\ UNCHANGED <<hooks, listVars, formVars, acts, credential, told, lapses, turns>>
OpenEdit ==
  /\ panel = "details" /\ panel' = "edit"
  /\ entry' = [flow |-> None, version |-> None, active |-> chosen.active]
  /\ versions' = Dead
  /\ UNCHANGED <<hooks, listVars, chosen, submitting, acts, credential, told, lapses, turns>>
AskRegenerate ==
  /\ panel \in {"details", "edit"} /\ panel' = "regenerate"
  /\ UNCHANGED <<hooks, listVars, chosen, formVars, acts, credential, told, lapses, turns>>
AskDelete ==
  /\ panel = "details" /\ panel' = "delete"
  /\ UNCHANGED <<hooks, listVars, chosen, formVars, acts, credential, told, lapses, turns>>
\* Cancel closes the dialog also while it is saved; that of the new URL leads
\* back to the drawer.  A form that is closed counts for nothing.
Close ==
  /\ panel # "none"
  /\ panel' \in (IF panel = "regenerate" THEN {"none", "details"} ELSE {"none"})
  /\ entry' = EmptyForm /\ versions' = Dead
  /\ UNCHANGED <<hooks, listVars, chosen, submitting, acts, credential, told, lapses, turns>>
CloseCredential ==
  /\ credential # None /\ credential' = None /\ Ask("all")
  /\ UNCHANGED <<hooks, items, panel, chosen, formVars, acts, told, lapses, turns>>

-----------------------------------------------------------------------------
(* The forms.                                                              *)

OpenCreate ==
  /\ Nothing /\ panel' = "create" /\ entry' = EmptyForm
  /\ versions' = Dead
  /\ UNCHANGED <<hooks, listVars, chosen, submitting, acts, credential, told, lapses, turns>>
\* Another workflow asks for its versions.
SelectFlow(f) ==
  /\ panel = "create" /\ f # entry.flow /\ Turn("picks", 2)
  /\ entry' = [entry EXCEPT !.flow = f, !.version = None]
  /\ versions' = Dead \cup {[flow |-> f, alive |-> TRUE]}
  /\ UNCHANGED <<hooks, listVars, panel, chosen, submitting, acts, credential, told, lapses>>
\* Mutant: the versions of any workflow asked about fill the form.
VersionsAnsweredAnyway(v) ==
  /\ versions' = versions \ {v}
  /\ entry' = [entry EXCEPT !.version = v.flow]
  /\ UNCHANGED <<hooks, listVars, panel, chosen, submitting, acts, credential, told, lapses,
                 turns>>
\* The version of a workflow that is published is called by the workflow; it is
\* chosen as soon as the versions are known.
VersionsAnswered(v) ==
  /\ versions' = versions \ {v}
  /\ entry' = IF v.alive THEN [entry EXCEPT !.version = v.flow] ELSE entry
  /\ UNCHANGED <<hooks, listVars, panel, chosen, submitting, acts, credential, told, lapses,
                 turns>>
ToggleActive ==
  /\ panel = "edit" /\ entry' = [entry EXCEPT !.active = ~@]
  /\ UNCHANGED <<hooks, listVars, panel, chosen, versions, submitting, acts, credential, told,
                 lapses, turns>>

\* An edit that changes nothing is not sent.
Submit ==
  /\ submitting = NoSubmit
  /\ \/ /\ panel = "create" /\ entry.flow # None /\ entry.version # None
        /\ Turn("acts", MaxActs)
        /\ submitting' = [kind |-> "create", flow |-> entry.flow, version |-> entry.version,
                          answer |-> "none"]
        /\ UNCHANGED <<listVars, panel>>
     \/ /\ panel = "edit" /\ entry.active # chosen.active /\ Turn("acts", MaxActs)
        /\ submitting' = [kind |-> "update", id |-> chosen.id, active |-> entry.active,
                          answer |-> "none"]
        /\ UNCHANGED <<listVars, panel>>
     \/ /\ panel = "edit" /\ entry.active = chosen.active
        /\ panel' = "none" /\ Ask("all") /\ UNCHANGED <<items, submitting, turns>>
  /\ UNCHANGED <<hooks, chosen, entry, versions, acts, credential, told, lapses>>

\* update_webhook: the fields that are sent.
Update(h, active, answer) ==
  IF hooks[h].live THEN answer = h /\ hooks' = [hooks EXCEPT ![h].active = active]
                   ELSE answer = "404" /\ UNCHANGED hooks
SubmitHandled ==
  /\ submitting # NoSubmit /\ submitting.answer = "none"
  /\ \E answer \in Hook \cup {"404"} :
       /\ submitting' = [submitting EXCEPT !.answer = answer]
       /\ \/ submitting.kind = "update" /\ Update(submitting.id, submitting.active, answer)
          \/ /\ submitting.kind = "create" /\ answer \in Hook /\ hooks[answer] = Absent
             /\ hooks' = [hooks EXCEPT ![answer] =
                  [live |-> TRUE, flow |-> submitting.flow, version |-> submitting.version,
                   active |-> TRUE, token |-> 0]]
  /\ UNCHANGED <<listVars, panel, chosen, entry, versions, acts, credential, told, lapses,
                 turns>>
\* The new endpoint is shown before the list is asked for.
SubmitAnswered ==
  /\ submitting.answer \in Hook /\ submitting' = NoSubmit /\ panel' = "none"
  /\ IF submitting.kind = "create"
     THEN /\ credential' = [id |-> submitting.answer, token |-> 0]
          /\ UNCHANGED listVars
     ELSE Ask("all") /\ UNCHANGED <<items, credential>>
  /\ UNCHANGED <<hooks, chosen, entry, versions, acts, told, lapses, turns>>
SubmitFails ==
  /\ submitting # NoSubmit /\ submitting' = NoSubmit
  /\ IF submitting.answer = "404" THEN UNCHANGED <<turns, lapses>>
     ELSE Turn("trouble", MaxTrouble) /\ lapses' = Hook
  /\ UNCHANGED <<hooks, listVars, panel, chosen, entry, versions, acts, credential, told>>

-----------------------------------------------------------------------------
(* The actions of the drawer and of its dialogs: act.                      *)

Act(kind) ==
  /\ <<panel, kind>> \in {<<"details", "toggle">>, <<"delete", "delete">>,
                          <<"regenerate", "regenerate">>}
  /\ Turn("acts", MaxActs)
  /\ acts' = acts \cup {[kind |-> kind, row |-> chosen, number |-> turns["acts"],
                         token |-> 0, answer |-> "none"]}
  /\ UNCHANGED <<hooks, listVars, panel, chosen, formVars, credential, told, lapses>>

Performed(a) ==
  LET h == hooks[a.row.id]
  IN CASE a.kind = "toggle" -> [h EXCEPT !.active = ~a.row.active]
       [] a.kind = "delete" -> Removed
       [] OTHER -> [h EXCEPT !.token = @ + 1]
ActHandled(a) ==
  LET h == a.row.id
  IN /\ a.answer = "none"
     /\ hooks' = IF hooks[h].live THEN [hooks EXCEPT ![h] = Performed(a)] ELSE hooks
     /\ acts' = (acts \ {a}) \cup {
          [a EXCEPT !.answer = IF hooks[h].live THEN "ok" ELSE "404",
                    !.token = IF hooks'[h].live THEN hooks'[h].token ELSE 0]}
  /\ UNCHANGED <<listVars, panel, chosen, formVars, credential, told, lapses, turns>>

\* The row of the list is changed, and a drawer that was open at the click shows
\* the row it was about.
Toggled(a) ==
  /\ items' = {IF r.id = a.row.id THEN [r EXCEPT !.active = ~a.row.active] ELSE r : r \in items}
  /\ chosen' = [a.row EXCEPT !.active = ~@] /\ UNCHANGED <<panel, credential, told>>
Deleted(a) ==
  /\ panel' = "none" /\ chosen' = NoRow /\ told' = told \cup {a.row.id}
  /\ UNCHANGED <<items, credential>>
Regenerated(a) ==
  /\ items' = {IF r.id = a.row.id THEN [r EXCEPT !.token = a.token] ELSE r : r \in items}
  /\ panel' = "none" /\ credential' = [id |-> a.row.id, token |-> a.token]
  /\ UNCHANGED <<chosen, told>>
\* Mutant: the row of the answer is all that changes.
ActAnsweredOnly(a) ==
  /\ a.answer = "ok" /\ acts' = acts \ {a}
  /\ \/ a.kind = "toggle" /\ Toggled(a)
     \/ a.kind = "delete" /\ Deleted(a)
     \/ a.kind = "regenerate" /\ Regenerated(a)
  /\ UNCHANGED <<requests, loading, loadError>>
  /\ UNCHANGED <<hooks, formVars, lapses, turns>>
ActAnswered(a) ==
  /\ a.answer = "ok" /\ acts' = acts \ {a} /\ Ask("all")
  /\ \/ a.kind = "toggle" /\ Toggled(a)
     \/ a.kind = "delete" /\ Deleted(a)
     \/ a.kind = "regenerate" /\ Regenerated(a)
  /\ UNCHANGED <<hooks, formVars, lapses, turns>>
ActFails(a) ==
  /\ acts' = acts \ {a}
  /\ IF a.answer = "404" THEN UNCHANGED <<turns, lapses>>
     ELSE Turn("trouble", MaxTrouble) /\ lapses' = lapses \cup {a.row.id}
  /\ UNCHANGED <<hooks, listVars, panel, chosen, formVars, credential, told>>

-----------------------------------------------------------------------------
Init ==
  /\ ListInit
  /\ LET f == CHOOSE g \in Flow : TRUE
     IN hooks = [h \in Hook |-> IF h = CHOOSE k \in Hook : TRUE
          THEN [live |-> TRUE, flow |-> f, version |-> f, active |-> TRUE, token |-> 0]
          ELSE Absent]
  /\ panel = "none" /\ chosen = NoRow /\ entry = EmptyForm /\ versions = {}
  /\ submitting = NoSubmit /\ acts = {} /\ credential = None /\ told = {} /\ lapses = {}
  /\ turns = [k \in {"acts", "picks", "trouble"} |-> 0]

Next ==
  \/ \E i \in DOMAIN requests : ListHandled(i) \/ ListAnswered(i) \/ ListFails(i)
  \/ RetryList \/ OpenEdit \/ AskRegenerate \/ AskDelete \/ Close \/ CloseCredential
  \/ OpenCreate \/ ToggleActive \/ Submit \/ SubmitHandled \/ SubmitAnswered \/ SubmitFails
  \/ \E r \in Shown : ShowDetails(r)
  \/ \E f \in Flow : SelectFlow(f)
  \/ \E v \in versions : VersionsAnswered(v)
  \/ \E kind \in {"toggle", "delete", "regenerate"} : Act(kind)
  \/ \E a \in acts : ActHandled(a) \/ ActAnswered(a) \/ ActFails(a)

-----------------------------------------------------------------------------
\* The form is of the workflow whose versions fill it, and a save takes it as it
\* is.
FormFits ==
  /\ \A v \in versions : v.alive => v.flow = entry.flow
  /\ entry.version # None => entry.version = entry.flow
  /\ submitting.kind = "create" => submitting.version = submitting.flow

\* A deletion that was taken is final, and no answer that counts has its row.
DeletedIsFinal ==
  /\ \A h \in told : hooks[h] = Removed
  /\ \A a \in acts : a.kind = "delete" /\ a.answer = "ok" => hooks[a.row.id] = Removed
  /\ panel \notin {"none", "create"} => chosen.id \in Hook
AnswersAreClean == \A rows \in Answers \cup {Shown} : \A r \in rows : r.id \in Hook \ told

\* Whatever was changed asks for the list again when it is answered, or when the
\* endpoint it brought is no longer shown.
Unheard ==
  \/ \E a \in acts : a.answer = "ok"
  \/ submitting.answer \in Hook \/ credential # None \/ lapses # {}
AnswersAreCurrent ==
  ~Unheard => /\ \A rows \in Answers : rows = Rows
              /\ Current = {} /\ ~loadError => items = Rows

\* When nothing is under way and every call was answered, the list is what the
\* service has, in whichever order the calls and their answers came.
ListIsCurrent ==
  Quiet /\ acts = {} /\ submitting = NoSubmit /\ credential = None /\ lapses = {}
    => items = Rows

\* No webhook is bound to a version of another workflow.
VersionFits == \A h \in Hook : hooks[h].live => hooks[h].version = hooks[h].flow

DeletedStaysAway == \A r \in Shown : r.id \notin told

=============================================================================
