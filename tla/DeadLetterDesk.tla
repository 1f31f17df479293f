---------------------------- MODULE DeadLetterDesk ----------------------------
(***************************************************************************)
(* The page of the dead-letter queue: the filtered and paged list, the     *)
(* drawer with one event, and the confirmation that replays or resolves    *)
(* it.  The events are those of the execution service, which others handle *)
(* too.                                                                    *)
(***************************************************************************)
EXTENDS LatestList, FiniteSets

CONSTANTS
  Event,           \* numbered in the order they were created
  MaxHandled,      \* bound on posts
  MaxDeskTrouble   \* bound on calls that fail and on what others do

VARIABLES
  stored,   \* status of every event
  unsafe,   \* events whose replay is refused
  query,    \* page and status of the list
  drawer,   \* selectedId and the state of the drawer, closed without an event
  read,     \* the request of the drawer, or its answer
  post,     \* the replay or resolution under way, or its answer
  changed,  \* whether closing the drawer loads the list anew
  blind,    \* history: a post without an answer since the event was last read
  missed,   \* history: a post without an answer, or an event handled by others
  desk      \* history: how much of each bound is used up

pageVars == <<query, drawer, read, post, changed>>
history == <<blind, missed, desk>>
vars == <<stored, unsafe, listVars, pageVars, history>>

NoRows == [rows |-> {}, last |-> 1]
Closed == [id |-> None, status |-> "none", loading |-> FALSE, error |-> "none",
           needsRefresh |-> FALSE, rejected |-> FALSE, action |-> "none", actionError |-> FALSE]
Desk(kind, limit) == desk[kind] < limit /\ desk' = [desk EXCEPT ![kind] = @ + 1]

-----------------------------------------------------------------------------
(* The list, the newest event first and one event to a page.               *)

Matches(s) == {e \in Event : stored[e] # "absent" /\ s \in {"all", stored[e]}}
Rows(q) ==
  LET matches == Matches(q.status)
  IN  [rows |-> {[id |-> e, status |-> stored[e]] : e \in
                   {x \in matches : Cardinality({y \in matches : y >= x}) = q.page}},
       last |-> IF matches = {} THEN 1 ELSE Cardinality(matches)]
ListHandled(i) ==
  Handled(i, Rows(requests[i].query)) /\ UNCHANGED <<stored, unsafe, pageVars, history>>
\* The list that shrank is asked for its last page.
ListAnswered(i) ==
  /\ requests[i].handled
  /\ LET last == [query EXCEPT !.page = requests[i].answer.last]
     IN  IF requests[i].active /\ last.page < query.page
         THEN /\ query' = last /\ requests' = Append(Without(requests, i), Request(last))
              /\ UNCHANGED <<items, loading, loadError>>
         ELSE Answered(i) /\ UNCHANGED query
  /\ UNCHANGED <<stored, unsafe, drawer, read, post, changed, history>>
ListFails(i) ==
  /\ Desk("trouble", MaxDeskTrouble) /\ Fails(i)
  /\ UNCHANGED <<stored, unsafe, pageVars, blind, missed>>

Change(q) == query' = q /\ items' = NoRows /\ Ask(q)
Browse(q) ==
  /\ drawer = Closed /\ q # query /\ Desk("moves", MaxHandled) /\ Change(q)
  /\ q.status = query.status \/ q.page = 1
  /\ q.page <= items.last
  /\ UNCHANGED <<stored, unsafe, drawer, read, post, changed, blind, missed>>
RefreshList ==
  /\ drawer = Closed /\ ~loading /\ Change(query)
  /\ UNCHANGED <<stored, unsafe, drawer, read, post, changed, history>>

-----------------------------------------------------------------------------
(* The drawer.                                                             *)

Select(e) ==
  /\ drawer = Closed /\ ~loading /\ e \in {r.id : r \in items.rows}
  /\ drawer' = [Closed EXCEPT !.id = e, !.loading = TRUE] /\ read' = "sent" /\ blind' = FALSE
  /\ UNCHANGED <<stored, unsafe, listVars, query, post, changed, missed, desk>>

\* Closing it aborts what it reads.
\* Mutant: the list stays as it was.
CloseKeepsList ==
  /\ drawer # Closed /\ post = "none" /\ drawer.action = "none" /\ drawer' = Closed
  /\ read' = "none" /\ changed' = FALSE
  /\ UNCHANGED <<stored, unsafe, listVars, query, post, history>>
CloseDrawer ==
  /\ drawer # Closed /\ post = "none" /\ drawer.action = "none" /\ drawer' = Closed
  /\ read' = "none" /\ changed' = FALSE
  /\ IF changed THEN Change(query) ELSE UNCHANGED <<listVars, query>>
  /\ UNCHANGED <<stored, unsafe, post, history>>

ReadHandled ==
  /\ read = "sent" /\ read' = stored[drawer.id]
  /\ UNCHANGED <<stored, unsafe, listVars, query, drawer, post, changed, history>>
ReadAnswered ==
  /\ read \notin {"none", "sent"} /\ read' = "none" /\ blind' = FALSE
  /\ drawer' = [drawer EXCEPT !.status = read, !.needsRefresh = FALSE, !.error = "none",
                              !.loading = FALSE]
  /\ UNCHANGED <<stored, unsafe, listVars, query, post, changed, missed, desk>>
ReadFails ==
  /\ read # "none" /\ Desk("trouble", MaxDeskTrouble) /\ read' = "none"
  /\ drawer' = [drawer EXCEPT !.error = "failed", !.needsRefresh = TRUE, !.loading = FALSE]
  /\ UNCHANGED <<stored, unsafe, listVars, query, post, changed, blind, missed>>
Reload ==
  /\ drawer # Closed /\ drawer.action = "none" /\ ~drawer.loading /\ post = "none"
  /\ drawer' = [drawer EXCEPT !.loading = TRUE] /\ read' = "sent"
  /\ UNCHANGED <<stored, unsafe, listVars, query, post, changed, history>>

-----------------------------------------------------------------------------
(* The recovery.                                                           *)

Ready(action) ==
  /\ post = "none" /\ ~drawer.loading /\ ~drawer.needsRefresh /\ drawer.status = "pending"
  /\ action = "replay" => ~drawer.rejected
Choose(action) ==
  /\ Ready(action) /\ drawer.error = "none" /\ drawer.action = "none"
  /\ drawer' = [drawer EXCEPT !.action = action, !.actionError = FALSE]
  /\ UNCHANGED <<stored, unsafe, listVars, query, read, post, changed, history>>
CancelAction ==
  /\ drawer.action # "none" /\ post = "none" /\ drawer' = [drawer EXCEPT !.action = "none"]
  /\ UNCHANGED <<stored, unsafe, listVars, query, read, post, changed, history>>
Confirm ==
  /\ drawer.action # "none" /\ Ready(drawer.action) /\ ~drawer.actionError
  /\ Desk("posts", MaxHandled) /\ post' = "sent" /\ drawer' = [drawer EXCEPT !.actionError = FALSE]
  /\ UNCHANGED <<stored, unsafe, listVars, query, read, changed, blind, missed>>

Outcome(action) == IF action = "replay" THEN "replayed" ELSE "resolved"
\* What is not pending is refused; so is a replay that is not safe.
PostHandled ==
  /\ post = "sent"
  /\ LET rejected == drawer.action = "replay" /\ drawer.id \in unsafe
         pending == stored[drawer.id] = "pending"
     IN  /\ post' = IF ~pending THEN "handled" ELSE IF rejected THEN "rejected" ELSE "accepted"
         /\ stored' = IF pending /\ ~rejected
                      THEN [stored EXCEPT ![drawer.id] = Outcome(drawer.action)] ELSE stored
  /\ UNCHANGED <<unsafe, listVars, query, drawer, read, changed, history>>

PostAnswered ==
  /\ post = "accepted" /\ post' = "none" /\ read' = "sent" /\ changed' = TRUE
  /\ drawer' = [drawer EXCEPT !.status = Outcome(drawer.action), !.needsRefresh = TRUE,
                              !.action = "none", !.loading = TRUE]
  /\ UNCHANGED <<stored, unsafe, listVars, query, history>>
PostRejected ==
  /\ post = "rejected" /\ post' = "none"
  /\ drawer' = [drawer EXCEPT !.rejected = TRUE, !.action = "none", !.actionError = FALSE,
                              !.error = "none", !.needsRefresh = FALSE]
  /\ UNCHANGED <<stored, unsafe, listVars, query, read, changed, history>>

\* Mutant: only the confirmation knows that the post failed.
FailedInDialogOnly == drawer' = [drawer EXCEPT !.actionError = TRUE]
Failed == drawer' = [drawer EXCEPT !.actionError = TRUE, !.error = "failed", !.needsRefresh = TRUE]
PostRefused ==
  /\ post = "handled" /\ post' = "none" /\ Failed
  /\ UNCHANGED <<stored, unsafe, listVars, query, read, changed, history>>
\* The post may have been handled.
PostFails ==
  /\ post # "none" /\ Desk("trouble", MaxDeskTrouble) /\ post' = "none" /\ Failed
  /\ blind' = TRUE /\ missed' = TRUE
  /\ UNCHANGED <<stored, unsafe, listVars, query, read, changed>>

OthersHandle(e, action) ==
  /\ stored[e] = "pending" /\ Desk("trouble", MaxDeskTrouble) /\ missed' = TRUE
  /\ stored' = [stored EXCEPT ![e] = Outcome(action)]
  /\ UNCHANGED <<unsafe, listVars, pageVars, blind>>

-----------------------------------------------------------------------------
Init ==
  /\ stored \in [Event -> {"absent", "pending", "resolved"}] /\ unsafe \in SUBSET Event
  /\ query = [page |-> 1, status |-> "all"] /\ requests = <<Request(query)>>
  /\ items = NoRows /\ loading = TRUE /\ loadError = FALSE
  /\ drawer = Closed /\ read = "none" /\ post = "none" /\ changed = FALSE
  /\ blind = FALSE /\ missed = FALSE /\ desk = [k \in {"moves", "posts", "trouble"} |-> 0]

Next ==
  \/ \E i \in DOMAIN requests : ListHandled(i) \/ ListAnswered(i) \/ ListFails(i)
  \/ \E q \in [page : 1..Cardinality(Event), status : {"all", "pending", "replayed", "resolved"}] :
       Browse(q)
  \/ RefreshList \/ CloseDrawer \/ ReadHandled \/ ReadAnswered \/ ReadFails \/ Reload
  \/ CancelAction \/ Confirm \/ PostHandled \/ PostAnswered \/ PostRejected \/ PostRefused
  \/ PostFails
  \/ \E e \in Event : Select(e)
  \/ \E action \in {"replay", "resolve"} : Choose(action)
  \/ \E e \in Event, action \in {"replay", "resolve"} : OthersHandle(e, action)

-----------------------------------------------------------------------------
\* What a post without an answer has done is not known before the event is read
\* again, and the drawer says so.
BlindIsShown == blind => drawer = Closed \/ drawer.needsRefresh

\* After a post without an answer nothing is posted before the event was read
\* again.
NoBlindRetry == post # "none" => ~blind

\* Nothing is read or handled without a drawer, the list that is waited for is
\* the one that is shown, and what was handled is heard before the drawer is
\* closed, or was missed.
DrawerIsOpen ==
  /\ drawer.id = None => drawer = Closed
  /\ changed \/ post # "none" \/ read # "none" => drawer # Closed
AsksForQuery == Asked \subseteq {query}
AnswersAreCurrent ==
  ~missed /\ ~changed /\ post # "accepted" =>
    /\ \A rows \in Answers : rows = Rows(query)
    /\ Current = {} /\ ~loadError => items = Rows(query)

\* Once the drawer is closed and every call answered, the list shows the events
\* as they are, also when the last page of the filter has emptied.
ListIsCurrent ==
  drawer = Closed /\ Quiet /\ ~missed => items = Rows(query)

=============================================================================
