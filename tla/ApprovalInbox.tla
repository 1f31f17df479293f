----------------------------- MODULE ApprovalInbox -----------------------------
(***************************************************************************)
(* The approvals page: a list with two tabs, a drawer with the details of  *)
(* one approval, a dialog that confirms a decision, and the approvals of   *)
(* the execution service, which others decide and cancel meanwhile.        *)
(***************************************************************************)
EXTENDS LatestList

CONSTANTS
  Approval,
  MaxRefreshes,  \* bound on what reloads the list: focus, the button, the tabs
  MaxDecisions,  \* bound on the decisions confirmed
  MaxOthers      \* bound on what others do and on answers that fail

VARIABLES
  stored,   \* status of every approval, "gone" if it was deleted
  tab,      \* status: what the list is asked for
  drawer,   \* selectedApproval, detailLoading and detailError
  details,  \* getApproval under way, by approval
  dialog,   \* decision: the approval and the action, or None
  posting,  \* confirmDecision under way: decisionLocked and decisionBusy
  heard,    \* history: approvals this page was told are decided
  spent     \* history: how much of each bound is used up

vars == <<stored, listVars, tab, drawer, details, dialog, posting, heard, spent>>

Outcome(action) == IF action = "approve" THEN "approved" ELSE "rejected"
Status == {"pending", "approved", "rejected", "cancelled", "gone"}

NoDrawer == [id |-> None, status |-> "gone", loading |-> FALSE, error |-> "none"]
NoDetail == "none"
NoPost == [id |-> None, action |-> "none", answer |-> "none"]

Spend(kind, limit) ==
  spent[kind] < limit /\ spent' = [spent EXCEPT ![kind] = @ + 1]

-----------------------------------------------------------------------------
(* The list.                                                               *)

ListHandled(i) ==
  /\ Handled(i, {a \in Approval : stored[a] = requests[i].query})
  /\ UNCHANGED <<stored, tab, drawer, details, dialog, posting, heard, spent>>
ListAnswered(i) ==
  Answered(i) /\ UNCHANGED <<stored, tab, drawer, details, dialog, posting, heard, spent>>
ListFails(i) ==
  /\ Spend("others", MaxOthers) /\ Fails(i)
  /\ UNCHANGED <<stored, tab, drawer, details, dialog, posting, heard>>

\* The button, and the window that has the focus again.
Refresh ==
  /\ Spend("refreshes", MaxRefreshes) /\ Ask(tab)
  /\ UNCHANGED <<stored, tab, items, drawer, details, dialog, posting, heard>>

SwitchTab ==
  /\ Spend("refreshes", MaxRefreshes)
  /\ tab' = IF tab = "pending" THEN "cancelled" ELSE "pending"
  /\ Ask(tab') /\ drawer' = NoDrawer /\ dialog' = None
  /\ UNCHANGED <<stored, items, details, posting, heard>>

-----------------------------------------------------------------------------
(* The drawer.                                                             *)

\* showDetails begins with what the list knows.
ShowDetails(a) ==
  /\ dialog = None /\ details[a] = NoDetail
  /\ \/ a \in Shown /\ drawer.id = None
     \/ drawer.id = a /\ drawer.error = "failed"
  /\ drawer' = [id |-> a, status |-> IF drawer.id = a THEN drawer.status ELSE tab,
                loading |-> TRUE, error |-> "none"]
  /\ details' = [details EXCEPT ![a] = "sent"]
  /\ UNCHANGED <<stored, listVars, tab, dialog, posting, heard, spent>>

DetailsHandled(a) ==
  /\ details[a] = "sent" /\ details' = [details EXCEPT ![a] = stored[a]]
  /\ UNCHANGED <<stored, listVars, tab, drawer, dialog, posting, heard, spent>>

\* The answer selects its approval, whatever is selected by now.
DetailsAnswered(a) ==
  /\ details[a] \in Status \ {"gone"}
  /\ drawer' = [drawer EXCEPT !.id = a, !.status = details[a], !.loading = FALSE]
  /\ details' = [details EXCEPT ![a] = NoDetail]
  /\ UNCHANGED <<stored, listVars, tab, dialog, posting, heard, spent>>

DetailsGone(a) ==
  /\ details[a] = "gone" /\ Ask(tab)
  /\ drawer' = [drawer EXCEPT !.loading = FALSE, !.error = "gone"]
  /\ details' = [details EXCEPT ![a] = NoDetail]
  /\ UNCHANGED <<stored, tab, items, dialog, posting, heard, spent>>

DetailsFail(a) ==
  /\ details[a] # NoDetail /\ Spend("others", MaxOthers)
  /\ drawer' = [drawer EXCEPT !.loading = FALSE, !.error = "failed"]
  /\ details' = [details EXCEPT ![a] = NoDetail]
  /\ UNCHANGED <<stored, listVars, tab, dialog, posting, heard>>

CloseDetails ==
  /\ drawer.id # None /\ dialog = None
  /\ drawer' = [drawer EXCEPT !.id = None]
  /\ UNCHANGED <<stored, listVars, tab, details, dialog, posting, heard, spent>>

-----------------------------------------------------------------------------
(* The decision.                                                           *)

Locked == posting.id # None

OfferedInList(a) == a \in Shown /\ tab = "pending" /\ drawer.id = None
OfferedInDrawer(a) ==
  /\ drawer.id = a /\ ~drawer.loading /\ drawer.error = "none" /\ drawer.status = "pending"

StartDecision(a, action) ==
  /\ ~Locked /\ dialog = None /\ (OfferedInList(a) \/ OfferedInDrawer(a))
  /\ dialog' = [id |-> a, action |-> action]
  /\ UNCHANGED <<stored, listVars, tab, drawer, details, posting, heard, spent>>

CloseDecision ==
  /\ dialog # None /\ ~Locked /\ dialog' = None
  /\ UNCHANGED <<stored, listVars, tab, drawer, details, posting, heard, spent>>

ConfirmDecision ==
  /\ dialog # None /\ ~Locked /\ Spend("decisions", MaxDecisions)
  /\ posting' = [id |-> dialog.id, action |-> dialog.action, answer |-> "none"]
  /\ UNCHANGED <<stored, listVars, tab, drawer, details, dialog, heard>>

\* decide_approval, as the page sees it.
DecisionHandled ==
  /\ Locked /\ posting.answer = "none"
  /\ LET s == stored[posting.id]
     IN /\ stored' = [stored EXCEPT ![posting.id] =
                        IF s = "pending" THEN Outcome(posting.action) ELSE @]
        /\ posting' = [posting EXCEPT !.answer = IF s = "pending" THEN "ok"
                                                 ELSE IF s = "gone" THEN "404" ELSE "409"]
  /\ UNCHANGED <<listVars, tab, drawer, details, dialog, heard, spent>>

\* Mutant: only the row is removed, and the list is not asked for again.
DecisionAnsweredWithoutRefresh ==
  /\ posting.answer # "none"
  /\ heard' = heard \cup {posting.id}
  /\ dialog' = None
  /\ drawer' = IF drawer.id = posting.id THEN [drawer EXCEPT !.id = None] ELSE drawer
  /\ items' = items \ {posting.id}
  /\ posting' = NoPost
  /\ UNCHANGED <<stored, tab, loading, loadError, requests, details, spent>>

\* Taken, or no longer possible: either way the approval leaves the page.
DecisionAnswered ==
  /\ posting.answer # "none"
  /\ heard' = heard \cup {posting.id}
  /\ dialog' = None
  /\ drawer' = IF drawer.id = posting.id THEN [drawer EXCEPT !.id = None] ELSE drawer
  /\ items' = IF posting.answer = "ok" THEN items \ {posting.id} ELSE items
  /\ Ask(tab) /\ posting' = NoPost
  /\ UNCHANGED <<stored, tab, details, spent>>

\* Any other error, a lost answer included: the dialog stays.
DecisionFails ==
  /\ Locked /\ Spend("others", MaxOthers)
  /\ posting' = NoPost
  /\ UNCHANGED <<stored, listVars, tab, drawer, details, dialog, heard>>

\* Another approver, a cancellation, or the deletion of the workflow.
OthersChange(a) ==
  /\ Spend("others", MaxOthers)
  /\ \/ stored[a] = "pending" /\ \E s \in {"approved", "cancelled"} :
                                   stored' = [stored EXCEPT ![a] = s]
     \/ stored[a] # "gone" /\ stored' = [stored EXCEPT ![a] = "gone"]
  /\ UNCHANGED <<listVars, tab, drawer, details, dialog, posting, heard>>

-----------------------------------------------------------------------------
Init ==
  /\ stored = [a \in Approval |-> "pending"]
  /\ tab = "pending" /\ requests = <<Request("pending")>>
  /\ items = {} /\ loading = TRUE /\ loadError = FALSE
  /\ drawer = NoDrawer /\ details = [a \in Approval |-> NoDetail]
  /\ dialog = None /\ posting = NoPost /\ heard = {}
  /\ spent = [k \in {"refreshes", "decisions", "others"} |-> 0]

Next ==
  \/ \E i \in DOMAIN requests : ListHandled(i) \/ ListAnswered(i) \/ ListFails(i)
  \/ Refresh \/ SwitchTab \/ CloseDetails \/ CloseDecision \/ ConfirmDecision
  \/ DecisionHandled \/ DecisionAnswered \/ DecisionFails
  \/ \E a \in Approval :
       \/ ShowDetails(a) \/ DetailsHandled(a) \/ DetailsAnswered(a)
       \/ DetailsGone(a) \/ DetailsFail(a) \/ OthersChange(a)
       \/ \E action \in {"approve", "reject"} : StartDecision(a, action)

-----------------------------------------------------------------------------
\* The list that is waited for is that of the tab, and a decision is not taken
\* back.
AsksForTab == Asked \subseteq {tab}
DecidedIsFinal ==
  /\ \A a \in heard : stored[a] # "pending"
  /\ posting.answer # "none" => stored[posting.id] # "pending"
AnswersAreClean == tab = "pending" => \A rows \in Answers \cup {Shown} : rows \cap heard = {}

\* Once the page knows that an approval was decided, the inbox never lists it
\* as pending again, whichever of its requests is answered when.
DecidedStaysAway == tab = "pending" => Shown \cap heard = {}

=============================================================================
