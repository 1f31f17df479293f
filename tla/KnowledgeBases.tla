---------------------------- MODULE KnowledgeBases ----------------------------
(***************************************************************************)
(* The library of knowledge bases and the page of one of them: the list,   *)
(* the dialogs that create and delete, on either page, and the knowledge   *)
(* bases of the retrieval service, which others delete too.                *)
(***************************************************************************)
EXTENDS LatestList

CONSTANTS
  KB,
  MaxCalls,   \* bound on creations, deletions and pages opened
  MaxTrouble  \* bound on calls that fail and on what others delete

VARIABLES
  stored,  \* of every knowledge base: "absent", "kept" or "deleted"
  at,      \* the knowledge base whose page is open, None in the library
  modal,   \* the dialog of the library and what it is about, or `confirming`
  write,   \* the creation or deletion under way: saving and deleting
  page,    \* what the page of a knowledge base shows
  gone,    \* history: knowledge bases these pages were told are deleted
  missed,  \* history: a write without an answer, or a deletion by others
  calls    \* history: how much of each bound is used up

pageVars == <<at, modal, write, page>>
vars == <<stored, listVars, pageVars, gone, missed, calls>>

NoModal == [type |-> "none", id |-> None, error |-> "none"]
NoWrite == [kind |-> "none", id |-> None, answer |-> "none"]
Blank == [state |-> "loading", request |-> "sent"]
Kept == {k \in KB : stored[k] = "kept"}
Call(kind, limit) == calls[kind] < limit /\ calls' = [calls EXCEPT ![kind] = @ + 1]

-----------------------------------------------------------------------------
(* The library.                                                            *)

ListHandled(i) == Handled(i, Kept) /\ UNCHANGED <<stored, pageVars, gone, missed, calls>>
ListAnswered(i) == Answered(i) /\ UNCHANGED <<stored, pageVars, gone, missed, calls>>
ListFails(i) ==
  /\ Call("trouble", MaxTrouble) /\ Fails(i)
  /\ UNCHANGED <<stored, pageVars, gone, missed>>

InLibrary == at = None /\ modal = NoModal
RetryList ==
  /\ InLibrary /\ loadError /\ ~loading /\ Ask("all")
  /\ UNCHANGED <<stored, items, pageVars, gone, missed, calls>>

OpenCreate ==
  /\ InLibrary /\ modal' = [NoModal EXCEPT !.type = "create"]
  /\ UNCHANGED <<stored, listVars, at, write, page, gone, missed, calls>>

\* Rows are shown, and their buttons with them, while nothing is loading.
\* Mutant: the rows stay while the list is asked for again.
AskDeleteAnyTime(k) ==
  /\ InLibrary /\ k \in items /\ ~loadError
  /\ modal' = [NoModal EXCEPT !.type = "delete", !.id = k]
  /\ UNCHANGED <<stored, listVars, at, write, page, gone, missed, calls>>
AskDelete(k) ==
  /\ InLibrary /\ k \in Shown
  /\ modal' = [NoModal EXCEPT !.type = "delete", !.id = k]
  /\ UNCHANGED <<stored, listVars, at, write, page, gone, missed, calls>>

\* Leaving the library forgets its list.
OpenPage(k) ==
  /\ InLibrary /\ k \in Shown /\ Call("calls", MaxCalls)
  /\ at' = k /\ page' = Blank /\ requests' = <<>> /\ items' = {}
  /\ UNCHANGED <<stored, loading, loadError, modal, write, gone, missed>>

Library == at' = None /\ modal' = NoModal /\ items' = {} /\ Ask("all")

-----------------------------------------------------------------------------
(* The page of a knowledge base.                                           *)

LoadHandled ==
  /\ at # None /\ page.request = "sent" /\ page' = [page EXCEPT !.request = stored[at]]
  /\ UNCHANGED <<stored, listVars, at, modal, write, gone, missed, calls>>
LoadAnswered ==
  /\ at # None /\ page.request \in {"kept", "deleted"}
  /\ page' = [state |-> IF page.request = "kept" THEN "shown" ELSE "not_found",
              request |-> "none"]
  /\ UNCHANGED <<stored, listVars, at, modal, write, gone, missed, calls>>
LoadFails ==
  /\ at # None /\ page.request # "none" /\ Call("trouble", MaxTrouble)
  /\ page' = [state |-> "failed", request |-> "none"]
  /\ UNCHANGED <<stored, listVars, at, modal, write, gone, missed>>
RetryLoad ==
  /\ at # None /\ page.state = "failed" /\ page' = Blank
  /\ UNCHANGED <<stored, listVars, at, modal, write, gone, missed, calls>>
Confirm ==
  /\ at # None /\ page.state = "shown" /\ modal = NoModal
  /\ modal' = [NoModal EXCEPT !.type = "delete", !.id = at]
  /\ UNCHANGED <<stored, listVars, at, write, page, gone, missed, calls>>
Leave ==
  /\ at # None /\ modal = NoModal /\ Library
  /\ UNCHANGED <<stored, write, page, gone, missed, calls>>

-----------------------------------------------------------------------------
(* Dialogs and what they send.                                             *)

CloseModal ==
  /\ modal # NoModal /\ write = NoWrite /\ modal' = NoModal
  /\ UNCHANGED <<stored, listVars, at, write, page, gone, missed, calls>>
Submit ==
  /\ modal.type # "none" /\ write = NoWrite /\ Call("calls", MaxCalls)
  /\ write' = [kind |-> modal.type, id |-> modal.id, answer |-> "none"]
  /\ modal' = [modal EXCEPT !.error = "none"]
  /\ UNCHANGED <<stored, listVars, at, page, gone, missed>>

\* A deletion of what is not there is answered with 404.
Stored(k) == IF write.kind = "create" THEN stored[k] = "absent" ELSE k = write.id
WriteHandled ==
  /\ write # NoWrite /\ write.answer = "none"
  /\ \E k \in KB :
       /\ Stored(k)
       /\ stored' = [stored EXCEPT ![k] = IF write.kind = "create" THEN "kept" ELSE "deleted"]
       /\ write' = [write EXCEPT !.answer = IF write.kind = "create" \/ stored[k] = "kept"
                                            THEN "ok" ELSE "404"]
  /\ UNCHANGED <<listVars, at, modal, page, gone, missed, calls>>

CreateAnswered ==
  /\ write.kind = "create" /\ write.answer = "ok" /\ modal' = NoModal /\ Ask("all")
  /\ UNCHANGED <<items, at, gone>>
\* The library drops the row and does not ask again; the page of the knowledge
\* base goes to the library.
DeleteAnswered ==
  /\ write.kind = "delete" /\ write.answer = "ok" /\ gone' = gone \cup {write.id}
  /\ IF at = None
     THEN /\ items' = items \ {write.id} /\ modal' = NoModal
          /\ UNCHANGED <<at, requests, loading, loadError>>
     ELSE Library
WriteAnswered ==
  /\ CreateAnswered \/ DeleteAnswered
  /\ write' = NoWrite /\ UNCHANGED <<stored, page, missed, calls>>
WriteRefused ==
  /\ write.answer = "404" /\ write' = NoWrite
  /\ modal' = [modal EXCEPT !.error = "already_deleted"]
  /\ UNCHANGED <<stored, listVars, at, page, gone, missed, calls>>
WriteFails ==
  /\ write # NoWrite /\ Call("trouble", MaxTrouble) /\ write' = NoWrite
  /\ modal' = [modal EXCEPT !.error = "failed"] /\ missed' = TRUE
  /\ UNCHANGED <<stored, listVars, at, page, gone>>

OthersDelete(k) ==
  /\ stored[k] = "kept" /\ Call("trouble", MaxTrouble)
  /\ stored' = [stored EXCEPT ![k] = "deleted"] /\ missed' = TRUE
  /\ UNCHANGED <<listVars, pageVars, gone>>

-----------------------------------------------------------------------------
Init ==
  /\ \E K \in SUBSET KB : stored = [k \in KB |-> IF k \in K THEN "kept" ELSE "absent"]
  /\ ListInit /\ at = None /\ modal = NoModal /\ write = NoWrite /\ page = Blank
  /\ gone = {} /\ missed = FALSE /\ calls = [k \in {"calls", "trouble"} |-> 0]

Next ==
  \/ \E i \in DOMAIN requests : ListHandled(i) \/ ListAnswered(i) \/ ListFails(i)
  \/ RetryList \/ OpenCreate \/ LoadHandled \/ LoadAnswered \/ LoadFails \/ RetryLoad
  \/ Confirm \/ Leave \/ CloseModal \/ Submit \/ WriteHandled \/ WriteAnswered
  \/ WriteRefused \/ WriteFails
  \/ \E k \in KB : AskDelete(k) \/ OpenPage(k) \/ OthersDelete(k)

-----------------------------------------------------------------------------
\* A deletion is confirmed while nothing of the list is under way, and leaves
\* the row to whoever hears that it was taken.
LoadingIsShown == at = None => (loading <=> Current # {})
DeletesWhatIsShown ==
  /\ modal.type = "delete" /\ at = None => Current = {}
  /\ write # NoWrite => write.kind = modal.type
  /\ at # None => items = {} /\ requests = <<>>
DeletedIsFinal ==
  /\ gone \subseteq {k \in KB : stored[k] = "deleted"}
  /\ write.kind = "delete" /\ write.answer = "ok" => write.id \in KB /\ stored[write.id] = "deleted"
AnswersAreClean == \A rows \in Answers \cup {items} : rows \cap gone = {}

\* A list is as old as its answer: only a call that was handled and not answered
\* makes a difference, and a creation asks for the list again.
Taken == IF write.kind = "delete" /\ write.answer = "ok" THEN {write.id} ELSE {}
AnswersAreCurrent ==
  at = None /\ ~missed /\ (write.kind = "create" => write.answer # "ok") =>
    /\ \A rows \in Answers : rows = Kept
    /\ Current = {} /\ ~loadError => items \ Taken = Kept

\* What the library was told is deleted is not listed again, although it is the
\* only list that is not asked for again after a deletion.
DeletedStaysAway == at = None => Shown \cap gone = {}

\* Once every call is answered the library lists what is stored.
ListIsCurrent ==
  at = None /\ Quiet /\ write = NoWrite /\ ~missed => Shown = Kept

=============================================================================
