------------------------------- MODULE LatestList -------------------------------
(***************************************************************************)
(* How every page of the console keeps its list: an effect asks for it     *)
(* whenever its inputs change, and the cleanup of the effect before makes  *)
(* the page ignore an answer that was overtaken.                           *)
(***************************************************************************)
EXTENDS Sequences, Integers

CONSTANT None

VARIABLES
  requests,  \* requests under way, the current one last
  items, loading, loadError

listVars == <<requests, items, loading, loadError>>

Request(query) == [query |-> query, active |-> TRUE, handled |-> FALSE, answer |-> None]

\* Of the requests that were overtaken the last is kept, for its answer to come
\* late.
Overtaken ==
  IF requests = <<>> THEN <<>> ELSE <<[requests[Len(requests)] EXCEPT !.active = FALSE]>>
Ask(query) ==
  requests' = Append(Overtaken, Request(query)) /\ loading' = TRUE /\ loadError' = FALSE

Handled(i, answer) ==
  /\ ~requests[i].handled
  /\ requests' = [requests EXCEPT ![i].handled = TRUE, ![i].answer = answer]
  /\ UNCHANGED <<items, loading, loadError>>

Without(s, i) == SubSeq(s, 1, i - 1) \o SubSeq(s, i + 1, Len(s))

\* Mutant: the answer is shown whether or not it was overtaken.
AnsweredAnyway(i) ==
  /\ requests[i].handled /\ requests' = Without(requests, i)
  /\ items' = requests[i].answer /\ loading' = FALSE /\ UNCHANGED loadError
Answered(i) ==
  /\ requests[i].handled /\ requests' = Without(requests, i)
  /\ IF requests[i].active THEN items' = requests[i].answer /\ loading' = FALSE
                           ELSE UNCHANGED <<items, loading>>
  /\ UNCHANGED loadError
Fails(i) ==
  /\ requests' = Without(requests, i)
  /\ IF requests[i].active THEN loadError' = TRUE /\ loading' = FALSE
                           ELSE UNCHANGED <<loadError, loading>>
  /\ UNCHANGED items

\* The request that was not overtaken is the last one; what it asked for, and
\* what it was answered already.
Current == {i \in DOMAIN requests : requests[i].active}
LatestOnly == Current \subseteq {Len(requests)}
Asked == {requests[i].query : i \in Current}
Answers == {requests[i].answer : i \in {j \in Current : requests[j].handled}}

\* What the page shows of the list, and whether nothing of it is under way.
Shown == IF loading \/ loadError THEN {} ELSE items
Quiet == requests = <<>> /\ ~loadError

ListInit ==
  requests = <<Request("all")>> /\ items = {} /\ loading = TRUE /\ loadError = FALSE

=============================================================================
