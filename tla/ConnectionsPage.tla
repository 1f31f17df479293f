---------------------------- MODULE ConnectionsPage ----------------------------
(***************************************************************************)
(* The connections page: the catalog and the list of integrations, the     *)
(* drawer, the dialogs that create, edit, test and delete a connection,    *)
(* and the connections of the action service, which others change too.     *)
(***************************************************************************)
EXTENDS LatestList

CONSTANTS
  Conn,
  MaxCalls,   \* bound on saves, tests and deletions
  MaxTrouble  \* bound on calls that fail and on what others do

VARIABLES
  stored,    \* connections of the action service
  modal,     \* the dialog or drawer
  selected,  \* the row it is about, as the list had it
  form, replace,  \* replaceCredential
  saving,    \* the save under way: `saving`
  deleting,  \* the deletion under way: `deleting`
  tests,     \* testConnection under way
  testing, result,  \* testingId and testResult
  gone,      \* history: connections this page was told are deleted
  unsure,    \* history: connections of a save without an answer, or changed by others
  effort     \* history: how much of each bound is used up

saveVars == <<form, replace, saving>>
testVars == <<tests, testing, result>>
vars == <<stored, listVars, modal, selected, saveVars, deleting, testVars, gone,
          unsure, effort>>

Auth == {"none", "bearer", "header"}
Absent == [provider |-> "absent"]
Deleted == [provider |-> "deleted"]
Exists(c) == stored[c] \notin {Absent, Deleted}
Row(c) == [id |-> c, provider |-> stored[c].provider, auth |-> stored[c].auth,
           url |-> stored[c].url]
Rows == {Row(c) : c \in {d \in Conn : Exists(d)}}
NoRow == [id |-> None]
NoResult == [id |-> None, success |-> FALSE]
NoSave == [kind |-> "none", answer |-> "none"]
NoDelete == [id |-> None, answer |-> "none"]
NewForm == [auth |-> "none", url |-> 0, credential |-> FALSE]
Effort(kind, limit) == effort[kind] < limit /\ effort' = [effort EXCEPT ![kind] = @ + 1]

-----------------------------------------------------------------------------
(* The list.                                                               *)

ListHandled(i) ==
  /\ Handled(i, Rows)
  /\ UNCHANGED <<stored, modal, selected, saveVars, deleting, testVars, gone, unsure, effort>>
ListAnswered(i) ==
  /\ Answered(i)
  /\ UNCHANGED <<stored, modal, selected, saveVars, deleting, testVars, gone, unsure, effort>>
ListFails(i) ==
  /\ Effort("trouble", MaxTrouble) /\ Fails(i)
  /\ UNCHANGED <<stored, modal, selected, saveVars, deleting, testVars, gone, unsure>>
Refresh ==
  /\ modal = "none" /\ ~loading /\ Effort("calls", MaxCalls) /\ Ask("all")
  /\ UNCHANGED <<stored, items, modal, selected, saveVars, deleting, testVars, gone, unsure>>

-----------------------------------------------------------------------------
(* Dialogs.                                                                *)

\* A form that is closed counts for nothing: every dialog begins with its own.
CloseModal ==
  /\ modal # "none" /\ saving = NoSave /\ deleting = NoDelete
  /\ modal' = "none" /\ result' = NoResult /\ form' = NewForm /\ replace' = FALSE
  /\ UNCHANGED <<stored, listVars, selected, saving, deleting, tests, testing, gone,
                 unsure, effort>>

Create(dialog) ==
  /\ modal' = dialog /\ selected' = NoRow /\ form' = NewForm /\ replace' = TRUE
  /\ UNCHANGED <<stored, listVars, saving, deleting, tests, testing, gone, unsure, effort>>
\* The catalog stays while the list loads; the empty list opens a choice first.
OpenCreate ==
  /\ modal = "none"
  /\ \/ Create("http-create") /\ result' = NoResult
     \/ Create("stripe-create") /\ UNCHANGED result
     \/ ~loading /\ ~loadError /\ items = {} /\ Create("create") /\ result' = NoResult
ChooseService ==
  /\ modal = "create" /\ UNCHANGED result
  /\ Create("http-create") \/ Create("stripe-create")

\* The rows can be used while nothing covers them.
Listed(r) == modal = "none" /\ r \in Shown
InDrawer(r) == modal = "details" /\ r = selected
ShowDetails(r) ==
  /\ Listed(r) /\ modal' = "details" /\ selected' = r
  /\ result' = IF selected.id # r.id THEN NoResult ELSE result
  /\ UNCHANGED <<stored, listVars, saveVars, deleting, tests, testing, gone, unsure, effort>>
OpenEdit(r) ==
  /\ r.provider = "http" /\ (Listed(r) \/ InDrawer(r))
  /\ modal' = "edit" /\ selected' = r /\ result' = NoResult
  /\ form' = [auth |-> r.auth, url |-> r.url, credential |-> FALSE] /\ replace' = FALSE
  /\ UNCHANGED <<stored, listVars, saving, deleting, tests, testing, gone, unsure, effort>>
AskDelete(r) ==
  /\ Listed(r) \/ InDrawer(r)
  /\ modal' = "delete" /\ selected' = r
  /\ UNCHANGED <<stored, listVars, saveVars, deleting, testVars, gone, unsure, effort>>

-----------------------------------------------------------------------------
(* The forms, which can be typed in while they are saved.                  *)

Editing == modal = "edit"
FormOpen == modal \in {"http-create", "edit"}

\* Mutant: the stored credential counts for whatever the method is.
ChangeAuthKeeps(auth) ==
  /\ FormOpen /\ auth # form.auth
  /\ form' = [form EXCEPT !.auth = auth, !.credential = FALSE]
  /\ UNCHANGED replace
  /\ UNCHANGED <<stored, listVars, modal, selected, saving, deleting, testVars, gone, unsure,
                 effort>>
ChangeAuth(auth) ==
  /\ FormOpen /\ auth # form.auth
  /\ form' = [form EXCEPT !.auth = auth, !.credential = FALSE]
  /\ replace' = IF selected # NoRow THEN auth # "none" ELSE replace
  /\ UNCHANGED <<stored, listVars, modal, selected, saving, deleting, testVars, gone, unsure,
                 effort>>
Replace ==
  /\ FormOpen /\ form.auth # "none" /\ selected # NoRow /\ ~replace
  /\ replace' = TRUE /\ form' = [form EXCEPT !.credential = FALSE]
  /\ UNCHANGED <<stored, listVars, modal, selected, saving, deleting, testVars, gone, unsure,
                 effort>>
TypeCredential ==
  /\ \/ modal = "stripe-create"
     \/ FormOpen /\ form.auth # "none" /\ (replace \/ selected = NoRow)
  /\ ~form.credential /\ form' = [form EXCEPT !.credential = TRUE]
  /\ UNCHANGED <<stored, listVars, modal, selected, replace, saving, deleting, testVars, gone,
                 unsure, effort>>
TypeUrl ==
  /\ FormOpen /\ form.url = 0 /\ form' = [form EXCEPT !.url = 1]
  /\ UNCHANGED <<stored, listVars, modal, selected, replace, saving, deleting, testVars, gone,
                 unsure, effort>>

NeedsCredential == form.auth # "none" /\ replace /\ (~Editing \/ form.auth # selected.auth)
ConfigChanged == form.auth # selected.auth \/ form.url # selected.url
\* What updateConnection is sent: nothing of what the user left alone.
Payload ==
  [config |-> ConfigChanged, auth |-> form.auth, url |-> form.url,
   credential |-> CASE replace /\ form.auth # "none" /\ form.credential -> form.auth
                    [] form.auth = "none" /\ selected.auth # "none" -> "none"
                    [] OTHER -> "kept"]
Nothing(payload) == ~payload.config /\ payload.credential = "kept"

BeginSave(request) == saving' = request /\ Effort("calls", MaxCalls)
SavedEnds == modal' = "none" /\ form' = NewForm /\ replace' = FALSE /\ saving' = NoSave
Submit ==
  /\ FormOpen /\ saving = NoSave /\ (NeedsCredential => form.credential)
  /\ IF Editing
     THEN IF Nothing(Payload)
          THEN SavedEnds /\ Ask("all") /\ UNCHANGED <<items, effort>>
          ELSE /\ BeginSave([kind |-> "update", id |-> selected.id, payload |-> Payload,
                           answer |-> "none"])
               /\ UNCHANGED <<listVars, modal, form, replace>>
     ELSE /\ BeginSave([kind |-> "create", provider |-> "http", auth |-> form.auth,
                        url |-> form.url, answer |-> "none"])
          /\ UNCHANGED <<listVars, modal, form, replace>>
  /\ UNCHANGED <<stored, selected, deleting, testVars, gone, unsure>>
SubmitStripe ==
  /\ modal = "stripe-create" /\ saving = NoSave /\ form.credential
  /\ BeginSave([kind |-> "create", provider |-> "stripe", auth |-> "bearer", url |-> 0,
                answer |-> "none"])
  /\ UNCHANGED <<stored, listVars, modal, selected, form, replace, deleting, testVars, gone,
                 unsure>>

\* create_connection and update_connection: the fields that are sent are stored.
Stores(request) ==
  \/ /\ request.kind = "create"
     /\ \E c \in Conn :
          /\ stored[c] = Absent
          /\ stored' = [stored EXCEPT ![c] = [provider |-> request.provider,
                          auth |-> request.auth, url |-> request.url, key |-> request.auth]]
     /\ saving' = [saving EXCEPT !.answer = "ok"]
  \/ /\ request.kind = "update" /\ Exists(request.id)
     /\ LET c == stored[request.id]
            p == request.payload
        IN stored' = [stored EXCEPT ![request.id] =
             [c EXCEPT !.auth = IF p.config THEN p.auth ELSE @,
                       !.url = IF p.config THEN p.url ELSE @,
                       !.key = IF p.credential = "kept" THEN @ ELSE p.credential]]
     /\ saving' = [saving EXCEPT !.answer = "ok"]
  \/ /\ request.kind = "update" /\ ~Exists(request.id)
     /\ saving' = [saving EXCEPT !.answer = "404"] /\ UNCHANGED stored
SaveHandled ==
  /\ saving # NoSave /\ saving.answer = "none" /\ Stores(saving)
  /\ UNCHANGED <<listVars, modal, selected, form, replace, deleting, testVars, gone, unsure,
                 effort>>
SaveAnswered ==
  /\ saving.answer = "ok" /\ SavedEnds /\ Ask("all")
  /\ UNCHANGED <<stored, items, selected, deleting, testVars, gone, unsure, effort>>
Target == IF saving.kind = "update" THEN {saving.id} ELSE {}
SaveFails ==
  /\ saving # NoSave
  /\ saving.answer = "404" \/ Effort("trouble", MaxTrouble)
  /\ saving.answer = "404" => UNCHANGED effort
  /\ unsure' = unsure \cup Target /\ saving' = NoSave
  /\ form' = IF saving.kind = "create" /\ saving.provider = "stripe"
             THEN [form EXCEPT !.credential = FALSE] ELSE form
  /\ UNCHANGED <<stored, listVars, modal, selected, replace, deleting, testVars, gone>>

-----------------------------------------------------------------------------
(* Tests and deletions.                                                    *)

\* From the menu, the drawer, or the dialog of a test that failed.
RunTest(r) ==
  /\ r.provider = "http" /\ Effort("calls", MaxCalls)
  /\ \/ (Listed(r) \/ InDrawer(r)) /\ testing # r.id
     \/ modal = "test" /\ ~result.success /\ r = selected
  /\ tests' = tests \cup {r.id} /\ testing' = r.id /\ result' = NoResult
  /\ UNCHANGED <<stored, listVars, modal, selected, saveVars, deleting, gone, unsure>>
\* Its answer takes the place of any dialog but the drawer.
TestAnswered(c) ==
  /\ c \in tests
  /\ \E success \in BOOLEAN : result' = [id |-> c, success |-> success]
  /\ tests' = tests \ {c} /\ testing' = None
  /\ modal' = IF modal = "details" THEN modal ELSE "test"
  /\ UNCHANGED <<stored, listVars, selected, saveVars, deleting, gone, unsure, effort>>

Remove ==
  /\ modal = "delete" /\ deleting = NoDelete /\ Effort("calls", MaxCalls)
  /\ deleting' = [id |-> selected.id, answer |-> "none"]
  /\ UNCHANGED <<stored, listVars, modal, selected, saveVars, testVars, gone, unsure>>
RemoveHandled ==
  /\ deleting # NoDelete /\ deleting.answer = "none"
  /\ stored' = [stored EXCEPT ![deleting.id] = Deleted]
  /\ deleting' = [deleting EXCEPT !.answer = IF Exists(deleting.id) THEN "ok" ELSE "404"]
  /\ UNCHANGED <<listVars, modal, selected, saveVars, testVars, gone, unsure, effort>>
\* Mutant: the row is left to the next list.
RemoveAnsweredOnly ==
  /\ deleting.answer = "ok" /\ gone' = gone \cup {deleting.id}
  /\ UNCHANGED items
  /\ modal' = "none" /\ deleting' = NoDelete
  /\ UNCHANGED <<stored, requests, loading, loadError, selected, saveVars, testVars, unsure,
                 effort>>
\* The row leaves the list, which is not asked for again.
RemoveAnswered ==
  /\ deleting.answer = "ok" /\ gone' = gone \cup {deleting.id}
  /\ items' = {r \in items : r.id # deleting.id}
  /\ modal' = "none" /\ deleting' = NoDelete
  /\ UNCHANGED <<stored, requests, loading, loadError, selected, saveVars, testVars, unsure,
                 effort>>
RemoveFails ==
  /\ deleting # NoDelete
  /\ deleting.answer = "404" \/ Effort("trouble", MaxTrouble)
  /\ deleting.answer = "404" => UNCHANGED effort
  /\ deleting' = NoDelete
  /\ UNCHANGED <<stored, listVars, modal, selected, saveVars, testVars, gone, unsure>>

OthersChange(c) ==
  /\ Effort("trouble", MaxTrouble) /\ Exists(c) /\ unsure' = unsure \cup {c}
  /\ \/ stored' = [stored EXCEPT ![c] = Deleted]
     \/ /\ stored[c].provider = "http"
        /\ stored' = [stored EXCEPT ![c].auth = "none", ![c].key = "none"]
  /\ UNCHANGED <<listVars, modal, selected, saveVars, deleting, testVars, gone>>

-----------------------------------------------------------------------------
Init ==
  /\ ListInit
  /\ stored = [d \in Conn |-> IF d = CHOOSE c \in Conn : TRUE
       THEN [provider |-> "http", auth |-> "bearer", url |-> 0, key |-> "bearer"] ELSE Absent]
  /\ modal = "none" /\ selected = NoRow /\ form = NewForm /\ replace = FALSE
  /\ saving = NoSave /\ deleting = NoDelete
  /\ tests = {} /\ testing = None /\ result = NoResult
  /\ gone = {} /\ unsure = {} /\ effort = [k \in {"calls", "trouble"} |-> 0]

Next ==
  \/ \E i \in DOMAIN requests : ListHandled(i) \/ ListAnswered(i) \/ ListFails(i)
  \/ Refresh \/ CloseModal \/ OpenCreate \/ ChooseService
  \/ \E r \in (items \cup {selected}) \ {NoRow} :
       ShowDetails(r) \/ OpenEdit(r) \/ AskDelete(r) \/ RunTest(r)
  \/ \E auth \in Auth : ChangeAuth(auth)
  \/ Replace \/ TypeCredential \/ TypeUrl \/ Submit \/ SubmitStripe
  \/ SaveHandled \/ SaveAnswered \/ SaveFails
  \/ Remove \/ RemoveHandled \/ RemoveAnswered \/ RemoveFails
  \/ \E c \in Conn : TestAnswered(c) \/ OthersChange(c)

-----------------------------------------------------------------------------
\* One call of a dialog at a time, and none that is about a row of the list while
\* the list is asked for.
OneAtATime ==
  /\ loading <=> Current # {}
  /\ saving # NoSave => modal \in {"http-create", "stripe-create", "edit", "test"}
  /\ deleting # NoDelete => saving = NoSave /\ modal \in {"delete", "test"}
  /\ saving.kind = "update" => modal \in {"edit", "test"}
  /\ modal \in {"details", "edit", "delete"} => Current = {}
  /\ deleting # NoDelete \/ saving.kind = "update" => Current = {}

\* What was told to be deleted stays so, and no list has it.
DeletedIsFinal ==
  /\ \A c \in gone : stored[c] = Deleted
  /\ deleting.answer = "ok" => stored[deleting.id] = Deleted
AnswersAreClean == \A rows \in Answers \cup {items} : \A r \in rows : r.id \notin gone

\* Rows have the method that is stored, but for one that is being saved.
Saved == IF saving.kind = "update" /\ saving.answer = "ok" THEN {saving.id} ELSE {}
RowFits(r) ==
  /\ r.id \in Conn /\ stored[r.id] # Absent
  /\ r.id \notin unsure \cup Saved /\ Exists(r.id) => stored[r.id].auth = r.auth
RowsFit ==
  /\ \A rows \in Answers \cup {Shown} : \A r \in rows : RowFits(r)
  /\ modal \in {"details", "edit", "delete"} => RowFits(selected)

\* Another method than the stored one asks for its credential, and an update
\* leaves the method and its credential together.
MethodNeedsCredential ==
  Editing /\ form.auth \notin {"none", selected.auth} => replace
UpdateFits ==
  saving.kind = "update" /\ saving.answer = "none" =>
    LET c == stored[saving.id]
        p == saving.payload
    IN  /\ saving.id \in Conn
        /\ saving.id \notin unsure /\ Exists(saving.id) =>
             (IF p.config THEN p.auth ELSE c.auth) =
             (IF p.credential = "kept" THEN c.key ELSE p.credential)

\* A connection that needs a credential has one, and one that was given for its
\* method, after any sequence of creations and edits in the form; unless a save
\* of it had no answer or somebody else changed it.
CredentialFits ==
  \A c \in Conn \ unsure : Exists(c) => stored[c].key = stored[c].auth

\* What was deleted here is not listed again, whichever list is answered when.
DeletedStaysAway == \A r \in Shown : r.id \notin gone

=============================================================================
