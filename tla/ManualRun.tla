------------------------------- MODULE ManualRun -------------------------------
(***************************************************************************)
(* The button that runs a workflow by hand, in the row of a workflow and   *)
(* in the toolbar of the builder: it looks up whether the published        *)
(* version has a manual trigger, asks for the input in a dialog and posts  *)
(* the run to the integration service.                                     *)
(***************************************************************************)
EXTENDS Integers, Sequences

CONSTANTS
  None,
  Version,
  MaxRuns,       \* bound on posted runs
  MaxChanges,    \* bound on what others do to the workflow
  MaxRunTrouble  \* bound on calls without an answer

VARIABLES
  flow,     \* the workflow service: the published version, and active or not
  manual,   \* the versions whose only trigger is manual
  row,      \* the properties of the button: what the list of workflows said
  lookups,  \* lookups under way; those that the cleanup has ended are not active
  info,     \* triggerInfo
  dialog,   \* runOpen, runResult, the validity of runInput and runError
  posts,    \* posted runs under way and their answers
  started,  \* executions the service has started
  told,     \* history: runs whose answer the dialog has shown
  unsure,   \* history: a post without an answer
  effort    \* history: how much of each bound is used up

vars == <<flow, manual, row, lookups, info, dialog, posts, started, told, unsure, effort>>

Closed == [at |-> "closed", input |-> "valid", error |-> "none"]
Lookup(published) ==
  [published |-> published, active |-> TRUE, answered |-> FALSE, manual |-> FALSE]
Effort(kind, limit) == effort[kind] < limit /\ effort' = [effort EXCEPT ![kind] = @ + 1]
Without(s, i) == SubSeq(s, 1, i - 1) \o SubSeq(s, i + 1, Len(s))

-----------------------------------------------------------------------------
(* What the button knows of the published version.                         *)

\* The information counts only for the properties it was looked up for.
\* Mutant: it counts until another answer replaces it.
InfoOfAnyVersion == info
Info == IF info # None /\ info.published = row.published THEN info ELSE None
IsManual == Info # None /\ Info.manual
CanRun == IsManual /\ row.active /\ row.published # None

\* The list loads anew and gives the button new properties.
Relist ==
  /\ row # flow /\ row' = flow
  /\ lookups' = IF row.published = flow.published THEN lookups
                ELSE Append([i \in DOMAIN lookups |-> [lookups[i] EXCEPT !.active = FALSE]],
                            Lookup(flow.published))
  /\ UNCHANGED <<flow, manual, info, dialog, posts, started, told, unsure, effort>>

\* Without a published version the trigger of the newest one counts.
HasManualTrigger(published) ==
  IF published # None THEN published \in manual
  ELSE (CHOOSE v \in Version : \A u \in Version : u <= v) \in manual
LookupHandled(i) ==
  /\ ~lookups[i].answered
  /\ lookups' = [lookups EXCEPT ![i].answered = TRUE,
                                ![i].manual = HasManualTrigger(lookups[i].published)]
  /\ UNCHANGED <<flow, manual, row, info, dialog, posts, started, told, unsure, effort>>
LookupAnswered(i) ==
  /\ lookups[i].answered /\ lookups' = Without(lookups, i)
  /\ info' = IF lookups[i].active
             THEN [published |-> lookups[i].published, manual |-> lookups[i].manual] ELSE info
  /\ UNCHANGED <<flow, manual, row, dialog, posts, started, told, unsure, effort>>
LookupFails(i) ==
  /\ Effort("trouble", MaxRunTrouble) /\ lookups' = Without(lookups, i)
  /\ info' = IF lookups[i].active THEN None ELSE info
  /\ UNCHANGED <<flow, manual, row, dialog, posts, started, told, unsure>>

-----------------------------------------------------------------------------
(* The dialog, which is there as long as the trigger is manual.            *)

OpenRun ==
  /\ CanRun /\ dialog.at = "closed" /\ dialog' = [Closed EXCEPT !.at = "form"]
  /\ UNCHANGED <<flow, manual, row, lookups, info, posts, started, told, unsure, effort>>
EditInput(input) ==
  /\ IsManual /\ dialog.at = "form" /\ posts = <<>> /\ input # dialog.input
  /\ dialog' = [dialog EXCEPT !.input = input, !.error = "none"]
  /\ UNCHANGED <<flow, manual, row, lookups, info, posts, started, told, unsure, effort>>
CloseRun ==
  /\ IsManual /\ dialog.at # "closed" /\ posts = <<>> /\ dialog' = Closed
  /\ UNCHANGED <<flow, manual, row, lookups, info, posts, started, told, unsure, effort>>

\* Mutant: a second click posts again while the first post is under way.
SubmitAgain ==
  /\ dialog.at = "form" /\ CanRun /\ dialog.input = "valid" /\ Effort("runs", MaxRuns)
  /\ posts' = Append(posts, "sent") /\ dialog' = [dialog EXCEPT !.error = "none"]
  /\ UNCHANGED <<flow, manual, row, lookups, info, started, told, unsure>>
SubmitRun ==
  /\ dialog.at = "form" /\ CanRun /\ dialog.input = "valid" /\ posts = <<>>
  /\ Effort("runs", MaxRuns)
  /\ posts' = <<"sent">> /\ dialog' = [dialog EXCEPT !.error = "none"]
  /\ UNCHANGED <<flow, manual, row, lookups, info, started, told, unsure>>

\* The service runs what is published when the post arrives.
RunHandled(i) ==
  /\ posts[i] = "sent"
  /\ IF flow.active /\ flow.published # None /\ flow.published \in manual
     THEN posts' = [posts EXCEPT ![i] = "accepted"] /\ started' = started + 1
     ELSE posts' = [posts EXCEPT ![i] = "refused"] /\ UNCHANGED started
  /\ UNCHANGED <<flow, manual, row, lookups, info, dialog, told, unsure, effort>>
RunAnswered(i) ==
  /\ posts[i] # "sent" /\ posts' = Without(posts, i)
  /\ IF posts[i] = "accepted"
     THEN dialog' = [dialog EXCEPT !.at = "result"] /\ told' = told + 1
     ELSE dialog' = [dialog EXCEPT !.error = "refused"] /\ UNCHANGED told
  /\ UNCHANGED <<flow, manual, row, lookups, info, started, unsure, effort>>
RunFails(i) ==
  /\ Effort("trouble", MaxRunTrouble) /\ posts' = Without(posts, i) /\ unsure' = TRUE
  /\ dialog' = [dialog EXCEPT !.error = "uncertain"]
  /\ UNCHANGED <<flow, manual, row, lookups, info, started, told>>

OthersPublish(v) ==
  /\ Effort("changes", MaxChanges)
  /\ flow' \in {[flow EXCEPT !.published = v, !.active = TRUE], [flow EXCEPT !.active = FALSE],
                [published |-> None, active |-> FALSE]}
  /\ UNCHANGED <<manual, row, lookups, info, dialog, posts, started, told, unsure>>

-----------------------------------------------------------------------------
Init ==
  /\ flow \in [published : Version, active : BOOLEAN] /\ manual \in SUBSET Version
  /\ row = flow /\ lookups = <<Lookup(flow.published)>> /\ info = None /\ dialog = Closed
  /\ posts = <<>> /\ started = 0 /\ told = 0 /\ unsure = FALSE
  /\ effort = [k \in {"runs", "changes", "trouble"} |-> 0]

Next ==
  \/ Relist \/ OpenRun \/ CloseRun \/ SubmitRun
  \/ \E input \in {"valid", "invalid", "too_large"} : EditInput(input)
  \/ \E i \in DOMAIN lookups : LookupHandled(i) \/ LookupAnswered(i) \/ LookupFails(i)
  \/ \E i \in DOMAIN posts : RunHandled(i) \/ RunAnswered(i) \/ RunFails(i)
  \/ \E v \in Version : OthersPublish(v)

-----------------------------------------------------------------------------
\* What a lookup brings was so of the version it was for.
Brought(i) == i.manual /\ i.published # None => i.published \in manual
LookupsTrue ==
  /\ info # None => Brought(info)
  /\ \A i \in DOMAIN lookups : Brought(lookups[i])

\* At most one post is under way, and the executions it can still be told of
\* are counted.
Posted == {<<>>, <<"sent">>, <<"accepted">>, <<"refused">>}
PostsCounted ==
  /\ started \in Nat /\ told \in Nat /\ posts \in Posted
  /\ ~unsure => started = IF posts = <<"accepted">> THEN told + 1 ELSE told

\* The button is offered only for a published version with a manual trigger,
\* whatever was published while a lookup was under way.
OffersOnlyManual == CanRun => row.published \in manual

\* Until a post stays without an answer, every execution but the last was
\* reported before the next could be asked for.
RunsOnce == ~unsure => started <= told + 1

=============================================================================
