---------------------------- MODULE ExecutionDetail ----------------------------
(***************************************************************************)
(* The page of one execution: it polls the execution as long as it is not  *)
(* finished and cancels it on demand.  The execution is that of            *)
(* ExecutionLifecycle, which the queue implements.                         *)
(***************************************************************************)
EXTENDS Integers

CONSTANTS
  Run, None,
  MaxPolls,           \* polls after cancellation was requested, before they stop
  MaxDetailTrouble    \* bound on calls without an answer

VARIABLES
  status, cancelRequested,  \* the execution service
  page,          \* data, error, pollingStopped, cancelRequested, confirmCancel, cancelNotice
  cancellation,  \* the ref of that name
  load,          \* the requests of load, or their answer
  timer,         \* whether load is scheduled
  lastStatus,
  post,          \* the cancellation under way, or its answer
  trouble        \* history: calls without an answer

service == <<status, cancelRequested>>
vars == <<service, page, cancellation, load, timer, lastStatus, post, trouble>>

Lifecycle == INSTANCE ExecutionLifecycle
               WITH Execution <- {Run}, replayOf <- [e \in {Run} |-> None]

Polls(s) == s \in {"pending", "running", "waiting_for_approval"}
Record(s, requested) == [status |-> s, requested |-> requested]
Nothing == Record("none", FALSE)
NoAnswer == [at |-> "none", answer |-> Nothing]
Sent == [at |-> "sent", answer |-> Nothing]
Trouble == trouble < MaxDetailTrouble /\ trouble' = trouble + 1

-----------------------------------------------------------------------------
(* The effect that loads the execution.                                    *)

Load == load.at = "none" /\ load' = Sent /\ timer' = FALSE
\* The button Refresh and the timer.
Refresh == Load /\ UNCHANGED <<service, page, cancellation, lastStatus, post, trouble>>
Poll == timer /\ Refresh

LoadHandled ==
  /\ load.at = "sent"
  /\ load' = [at |-> "answered", answer |-> Record(status[Run], cancelRequested[Run])]
  /\ UNCHANGED <<service, page, cancellation, timer, lastStatus, post, trouble>>

\* After a requested cancellation the next poll is counted, and the last one said.
Schedule(again, requested, shown) ==
  IF requested /\ again
  THEN LET polls == IF cancellation.polls < MaxPolls THEN cancellation.polls + 1 ELSE MaxPolls
       IN  /\ cancellation' = [cancellation EXCEPT !.requested = TRUE, !.polls = polls]
           /\ timer' = (polls < MaxPolls) /\ page' = [shown EXCEPT !.stopped = polls >= MaxPolls]
  ELSE /\ cancellation' = [cancellation EXCEPT !.requested = requested]
       /\ timer' = again /\ page' = shown

\* What was cancelled here stays cancelled, also when an older answer comes.
\* Mutant: the answer counts as it is.
ShownAsAnswered(answer) == answer.status
ShownStatus(answer) == IF cancellation.terminal THEN "cancelled" ELSE answer.status
LoadAnswered ==
  /\ load.at = "answered" /\ load' = NoAnswer /\ lastStatus' = load.answer.status
  /\ LET s == ShownStatus(load.answer)
         requested == cancellation.requested \/ load.answer.requested
         notice == IF s = "cancelled" /\ requested THEN "cancelled" ELSE page.notice
     IN  Schedule(Polls(s), requested,
                  [page EXCEPT !.data = Record(s, load.answer.requested),
                               !.error = "none", !.notice = notice])
  /\ UNCHANGED <<service, post, trouble>>

\* A refusal, or an execution that is missing (404), ends the polling; the status
\* may be known although the steps are not.
LoadFails ==
  /\ load.at # "none" /\ Trouble /\ load' = NoAnswer
  /\ lastStatus' \in {lastStatus} \cup IF load.at = "answered" THEN {load.answer.status} ELSE {}
  /\ \E error \in {"missing", "refused", "failed"} :
       Schedule(error = "failed" /\ Polls(lastStatus'), cancellation.requested,
                [page EXCEPT !.error = error])
  /\ UNCHANGED <<service, post>>

-----------------------------------------------------------------------------
(* The cancellation.                                                       *)

Requested == Polls(page.data.status) /\ (page.cancelRequested \/ page.data.requested)
OpenConfirm ==
  /\ Polls(page.data.status) /\ page.error # "missing" /\ ~page.confirm
  /\ post = "none" /\ ~Requested /\ page' = [page EXCEPT !.confirm = TRUE]
  /\ UNCHANGED <<service, cancellation, load, timer, lastStatus, post, trouble>>
CloseConfirm ==
  /\ page.confirm /\ post = "none" /\ page' = [page EXCEPT !.confirm = FALSE]
  /\ UNCHANGED <<service, cancellation, load, timer, lastStatus, post, trouble>>

SubmitCancellation ==
  /\ page.confirm /\ Polls(page.data.status) /\ post = "none"
  /\ ~cancellation.requested /\ ~cancellation.terminal
  /\ post' = "sent" /\ page' = [page EXCEPT !.notice = "none"]
  /\ UNCHANGED <<service, cancellation, load, timer, lastStatus, trouble>>

PostHandled ==
  /\ post = "sent"
  /\ IF Polls(status[Run]) THEN Lifecycle!RequestCancellation(Run) ELSE UNCHANGED service
  /\ post' = CASE status'[Run] = "cancelled" -> "cancelled"
               [] status'[Run] = "running" -> "cancellation_requested"
               [] OTHER -> "not_cancellable"
  /\ UNCHANGED <<page, cancellation, load, timer, lastStatus, trouble>>

\* load ignores a refresh while one is under way.
RefreshAfter == Load \/ (load.at # "none" /\ UNCHANGED <<load, timer>>)
PostAnswered ==
  /\ post \in {"cancelled", "cancellation_requested"} /\ post' = "none"
  /\ LET requested == post = "cancellation_requested"
     IN  /\ cancellation' = [cancellation EXCEPT !.requested = requested, !.terminal = ~requested]
         /\ page' = [page EXCEPT
              !.cancelRequested = requested, !.confirm = FALSE, !.notice = post,
              !.data = IF requested THEN @ ELSE [@ EXCEPT !.status = "cancelled"]]
  /\ RefreshAfter /\ UNCHANGED <<service, lastStatus, trouble>>
\* 409: the execution had finished.
PostRefused ==
  /\ post = "not_cancellable" /\ post' = "none"
  /\ page' = [page EXCEPT !.confirm = FALSE, !.notice = "failed"]
  /\ RefreshAfter /\ UNCHANGED <<service, cancellation, lastStatus, trouble>>
PostFails ==
  /\ post # "none" /\ Trouble /\ post' = "none"
  /\ page' = [page EXCEPT !.confirm = FALSE, !.notice = "failed"]
  /\ UNCHANGED <<service, cancellation, load, timer, lastStatus>>

-----------------------------------------------------------------------------
(* The execution runs, and others cancel it too.                           *)

Progress ==
  /\ \/ Lifecycle!Start(Run) \/ Lifecycle!Suspend(Run) \/ Lifecycle!Resume(Run)
     \/ Lifecycle!Finish(Run) \/ Lifecycle!RequestCancellation(Run)
  /\ UNCHANGED <<page, cancellation, load, timer, lastStatus, post, trouble>>

Init ==
  /\ \E s \in {"pending", "running", "waiting_for_approval", "completed"} : status = [e \in {Run} |-> s]
  /\ cancelRequested = [e \in {Run} |-> FALSE]
  /\ page = [data |-> Nothing, error |-> "none", stopped |-> FALSE,
             cancelRequested |-> FALSE, confirm |-> FALSE, notice |-> "none"]
  /\ cancellation = [requested |-> FALSE, terminal |-> FALSE, polls |-> 0]
  /\ load = Sent /\ timer = FALSE /\ lastStatus = "none" /\ post = "none" /\ trouble = 0

Next ==
  \/ Refresh \/ Poll \/ LoadHandled \/ LoadAnswered \/ LoadFails
  \/ OpenConfirm \/ CloseConfirm \/ SubmitCancellation
  \/ PostHandled \/ PostAnswered \/ PostRefused \/ PostFails \/ Progress

-----------------------------------------------------------------------------
Status == Lifecycle!Status \cup {"none"}
Answer == [status : Status, requested : BOOLEAN]
Page == [data : Answer, error : {"none", "missing", "refused", "failed"}, stopped : BOOLEAN,
         cancelRequested : BOOLEAN, confirm : BOOLEAN,
         notice : {"none", "failed", "cancelled", "cancellation_requested"}]
Cancellation == [requested : BOOLEAN, terminal : BOOLEAN, polls : Int]
Request == [at : {"none", "sent", "answered"}, answer : Answer]
Post == {"none", "sent", "cancelled", "cancellation_requested", "not_cancellable"}
TypeOK ==
  /\ status \in [{Run} -> Lifecycle!Status] /\ cancelRequested \in [{Run} -> BOOLEAN]
  /\ page \in Page /\ cancellation \in Cancellation /\ load \in Request
  /\ timer \in BOOLEAN /\ lastStatus \in Status /\ post \in Post /\ trouble \in Int

\* What the page was told of a cancellation is so, an answer that is on its way
\* knows of it unless the page does, and nobody cancels what was cancelled here.
CancellationKnown ==
  /\ load.at = "answered" /\ load.answer.status = "cancelled" => status[Run] = "cancelled"
  /\ post = "cancelled" => status[Run] = "cancelled"
  /\ cancellation.terminal =>
       post = "none" /\ status[Run] = "cancelled" /\ page.data.status = "cancelled"
  /\ page.notice = "cancelled" /\ ~cancellation.terminal /\ load.at = "answered" =>
       load.answer.status = "cancelled"

\* Once the page said that the execution is cancelled it is, and the page goes
\* on showing it as cancelled, whatever was under way.
CancelledStays ==
  page.notice = "cancelled" => page.data.status = "cancelled" /\ status[Run] = "cancelled"

\* An execution that is shown unfinished is asked for again, or the page says
\* why not.
Follows ==
  Polls(page.data.status) /\ load.at = "none" /\ ~timer =>
    page.error # "none" \/ page.stopped

=============================================================================
