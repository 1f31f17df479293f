--------------------------- MODULE KnowledgeDocuments ---------------------------
(***************************************************************************)
(* The documents page of the browser on top of the rag service: the list   *)
(* with its serialized refreshes and its polling, the operations on one    *)
(* document, the dialog that confirms a deletion, and the upload of files. *)
(***************************************************************************)
EXTENDS DocumentIngestion, Sequences

CONSTANTS
  MaxOperations,  \* bound on the deletions and retries of the user
  MaxLost         \* bound on the answers that are lost, and lists that fail

VARIABLES
  shown,      \* documents: a function from documents to statuses, or None
  error, refreshing,
  waiting,    \* the promises of `queue` that have not begun, oldest first
  request,    \* the list request under way, or None
  op,         \* operations and rowBusy: the operation on each document
  deleting,   \* the document the dialog asks about, or None
  upload,     \* DocumentUpload: the file under way, and what it waits for
  gone,       \* history: documents whose deletion this page was told of
  did         \* history: operations and lost answers so far

pageVars == <<shown, error, refreshing, waiting, request, op, deleting, upload,
              gone, did>>
vars == <<serviceVars, pageVars>>
listVars == <<shown, error, refreshing, request>>

\* The rows of the list: the last that was loaded, also after an error.
Visible == IF shown = None THEN {} ELSE DOMAIN shown

processingStatuses == {"uploading", "pending"} \cup Active
Processing(d) == d \in Visible /\ shown[d] \in processingStatuses
NoOp == [kind |-> "none", at |-> "none"]
NoUpload == [doc |-> None, at |-> "idle"]
Do(kind, limit) == did[kind] < limit /\ did' = [did EXCEPT ![kind] = @ + 1]

-----------------------------------------------------------------------------
(* refresh: one request at a time, and only the latest one counts.         *)

\* ++sequence: neither the request under way nor those that wait are the latest;
\* nobody looks at their answers, and only what awaits them is left of them.
Ticket(awaited) == [latest |-> TRUE, awaited |-> awaited, answer |-> None]
Outdated(r) == IF r = None THEN None ELSE [Ticket(r.awaited) EXCEPT !.latest = FALSE]
Overtaken(s) ==
  LET Awaited(r) == r.awaited # None
  IN SelectSeq([i \in DOMAIN s |-> Outdated(s[i])], Awaited)
\* Mutant: a refresh waits for its turn and leaves the sequence alone.
EnqueueBehind(awaited) ==
  waiting' = Append(waiting, Ticket(awaited)) /\ UNCHANGED request

Enqueue(awaited) ==
  /\ waiting' = Append(Overtaken(waiting), Ticket(awaited))
  /\ request' = Outdated(request)

\* Whoever awaited the refresh goes on: an operation is over, an upload takes
\* its next file.
Resume(awaited) ==
  /\ op' = [d \in Doc |-> IF d = awaited /\ op[d].at = "refresh" THEN NoOp ELSE op[d]]
  /\ upload' = IF awaited = "upload" THEN NoUpload ELSE upload

BeginList ==
  /\ request = None /\ waiting # <<>>
  /\ waiting' = Tail(waiting)
  /\ IF Head(waiting).latest
     THEN /\ request' = Ticket(Head(waiting).awaited)
          /\ refreshing' = TRUE /\ UNCHANGED <<op, upload>>
     ELSE Resume(Head(waiting).awaited) /\ UNCHANGED <<request, refreshing>>
  /\ UNCHANGED <<serviceVars, shown, error, deleting, gone, did>>

Listing == [d \in {x \in Doc : Exists(x)} |-> stored[d]]
ListHandled ==
  /\ request # None /\ request.latest /\ request.answer = None
  /\ request' = [request EXCEPT !.answer = Listing]
  /\ UNCHANGED <<serviceVars, shown, error, refreshing, waiting, op, deleting, upload,
                 gone, did>>

ListAnswered ==
  /\ request # None /\ (request.latest => request.answer # None)
  /\ IF request.latest
     THEN shown' = request.answer /\ error' = FALSE /\ refreshing' = FALSE
     ELSE UNCHANGED <<shown, error, refreshing>>
  /\ request' = None /\ Resume(request.awaited)
  /\ UNCHANGED <<serviceVars, waiting, deleting, gone, did>>

ListFails ==
  /\ request # None /\ request.latest /\ Do("lost", MaxLost)
  /\ error' = TRUE /\ refreshing' = FALSE
  /\ request' = None /\ Resume(request.awaited)
  /\ UNCHANGED <<serviceVars, shown, waiting, deleting, gone>>

\* Mutant: a list that failed ends the polling.
PollUnlessError ==
  /\ \E d \in Visible : Processing(d)
  /\ ~error
  /\ request = None /\ waiting = <<>> /\ \A d \in Doc : op[d] = NoOp
  /\ Enqueue(None)
  /\ UNCHANGED <<serviceVars, shown, error, refreshing, op, deleting, upload, gone, did>>

\* The timer, or the page that is visible again.  A promise that waits begins
\* before the timer can fire.
Poll ==
  /\ \E d \in Visible : Processing(d)
  /\ request = None /\ waiting = <<>> /\ \A d \in Doc : op[d] = NoOp
  /\ Enqueue(None)
  /\ UNCHANGED <<serviceVars, shown, error, refreshing, op, deleting, upload, gone, did>>

RetryList ==
  /\ error /\ ~refreshing /\ request = None /\ waiting = <<>> /\ Enqueue(None)
  /\ UNCHANGED <<serviceVars, shown, error, refreshing, op, deleting, upload, gone, did>>

-----------------------------------------------------------------------------
(* operate.                                                                *)

Invalidate ==
  /\ waiting' = Overtaken(waiting)
  /\ request' = Outdated(request)

Operate(d, kind) ==
  /\ op[d] = NoOp /\ Do("operations", MaxOperations)
  /\ op' = [op EXCEPT ![d] = [kind |-> kind, at |-> "sent"]]
  /\ Invalidate
  /\ UNCHANGED <<serviceVars, shown, error, refreshing, deleting, upload, gone>>

RetryDocument(d) ==
  /\ d \in Visible /\ deleting = None /\ shown[d] = "failed"
  /\ Operate(d, "retry")

AskDelete(d) ==
  /\ d \in Visible /\ deleting = None /\ op[d] = NoOp
  /\ shown[d] \notin DeletionBlocked
  /\ deleting' = d
  /\ UNCHANGED <<serviceVars, listVars, waiting, op, upload, gone, did>>
CancelDelete ==
  /\ deleting # None /\ op[deleting] = NoOp /\ deleting' = None
  /\ UNCHANGED <<serviceVars, listVars, waiting, op, upload, gone, did>>
DeleteDocument(d) == deleting = d /\ Operate(d, "delete")

\* The service works on it.
Reaches(d, at, answer) ==
  op' = [op EXCEPT ![d].at = IF answer = "none" THEN at ELSE answer]
OperationHandled(d) ==
  /\ \E answer \in {"none", "ok", "error"} :
       \/ /\ op[d] = [kind |-> "delete", at |-> "sent"]
          /\ DeleteRead(d, answer) /\ Reaches(d, "read", answer) /\ UNCHANGED tasks
       \/ /\ op[d] = [kind |-> "delete", at |-> "read"] /\ answer # "none"
          /\ DeleteCommit(d, answer) /\ Reaches(d, "read", answer) /\ UNCHANGED tasks
       \/ /\ op[d] = [kind |-> "retry", at |-> "sent"]
          /\ RetryReset(d, answer) /\ Reaches(d, "reset", answer)
          /\ UNCHANGED <<chunks, tasks>>
       \/ /\ op[d] = [kind |-> "retry", at |-> "reset"] /\ answer # "none"
          /\ RetryQueued(d, answer) /\ Reaches(d, "reset", answer) /\ UNCHANGED chunks
  /\ UNCHANGED <<worker, listVars, waiting, deleting, upload, gone, did>>

OperationLost(d) ==
  /\ op[d].at \in {"ok", "error"} /\ Do("lost", MaxLost)
  /\ op' = [op EXCEPT ![d].at = "error"]
  /\ UNCHANGED <<serviceVars, listVars, waiting, deleting, upload, gone>>

\* A deleted document leaves the list at once; either way the list is read
\* again before the row is free.
OperationAnswered(d) ==
  /\ op[d].at \in {"ok", "error"}
  /\ IF op[d] = [kind |-> "delete", at |-> "ok"]
     THEN /\ shown' = [x \in Visible \ {d} |-> shown[x]]
          /\ deleting' = None /\ gone' = gone \cup {d}
     ELSE UNCHANGED <<shown, deleting, gone>>
  /\ op' = [op EXCEPT ![d].at = "refresh"]
  /\ Enqueue(d)
  /\ UNCHANGED <<serviceVars, error, refreshing, upload, did>>

-----------------------------------------------------------------------------
(* The upload of a batch, one file after the other.                        *)

UploadFile(d) ==
  /\ upload = NoUpload /\ stored[d] = "none" /\ deleting = None
  /\ UploadBegins(d) /\ upload' = [doc |-> d, at |-> "sent"]
  /\ UNCHANGED <<chunks, tasks, worker, listVars, waiting, op, deleting, gone, did>>

UploadHandled ==
  /\ \/ /\ upload.at = "sent" /\ UploadStored(upload.doc)
        /\ upload' = [upload EXCEPT !.at = "stored"] /\ UNCHANGED tasks
     \/ /\ upload.at = "sent" /\ Fault
        /\ upload' = [upload EXCEPT !.at = "done"] /\ UNCHANGED <<stored, tasks>>
     \/ /\ upload.at = "stored"
        /\ \E answer \in {"ok", "error"} : Queued(upload.doc, answer)
        /\ upload' = [upload EXCEPT !.at = "done"]
  /\ UNCHANGED <<chunks, worker, listVars, waiting, op, deleting, gone, did>>

\* Confirmed or not, the list is read before the next file.
Uploaded ==
  /\ upload.at = "done" /\ upload' = [upload EXCEPT !.at = "refresh"]
  /\ Enqueue("upload")
  /\ UNCHANGED <<serviceVars, shown, error, refreshing, op, deleting, gone, did>>

-----------------------------------------------------------------------------
Init ==
  /\ ServiceInit
  /\ shown = None /\ error = FALSE /\ refreshing = FALSE
  /\ waiting = <<Ticket(None)>> /\ request = None
  /\ op = [d \in Doc |-> NoOp] /\ deleting = None /\ upload = NoUpload
  /\ gone = {} /\ did = [k \in {"operations", "lost"} |-> 0]

Service == (IngestionStep \/ \E w \in Worker : WorkerLost(w)) /\ UNCHANGED pageVars
Answers == \/ ListHandled \/ ListAnswered \/ UploadHandled \/ Uploaded
           \/ \E d \in Doc : OperationHandled(d) \/ OperationAnswered(d)
User == \/ CancelDelete \/ RetryList
        \/ \E d \in Doc : \/ RetryDocument(d) \/ AskDelete(d) \/ DeleteDocument(d)
                          \/ UploadFile(d) \/ OperationLost(d)

Next == BeginList \/ ListFails \/ Poll \/ Service \/ Answers \/ User

-----------------------------------------------------------------------------
(* Properties.                                                             *)

\* A document that was deleted never comes back to the list, whatever snapshot
\* of it is still on its way.
DeletedStaysAway == Visible \cap gone = {}

\* The ingestion has ended and the list shows it as under way.
Overdue(d) == Processing(d) /\ stored[d] \in {"ready", "failed"}

=============================================================================
