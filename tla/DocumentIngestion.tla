--------------------------- MODULE DocumentIngestion ---------------------------
(***************************************************************************)
(* The documents of a knowledge base in the rag service: the requests that *)
(* upload, delete and retry them, and the Celery tasks that ingest them.   *)
(***************************************************************************)
EXTENDS Integers

CONSTANTS
  Doc, Worker, None,
  MaxTasks,  \* bound on the messages of one document in the queue
  MaxFaults  \* bound on failing storage, brokers, databases and workers

VARIABLES
  stored,  \* status of every document, "none" before its upload, "deleted"
  chunks,  \* the documents that have chunks
  tasks,   \* rag.ingest_document in the queue
  worker,  \* the document a worker ingests and how far it is
  faults   \* history: faults so far

serviceVars == <<stored, chunks, tasks, worker, faults>>

\* "chunking" lasts from one commit to the next and counts as "embedding".
Active == {"parsing", "embedding"}
Exists(d) == stored[d] \notin {"none", "deleted"}
NoTask == [doc |-> None, at |-> "idle"]

Fault == faults < MaxFaults /\ faults' = faults + 1
Set(d, status) == stored' = [stored EXCEPT ![d] = status]

-----------------------------------------------------------------------------
(* The worker.                                                             *)

\* Mutant: whatever is not ready is claimed.
ClaimableUnlessReady(d) == Exists(d) /\ stored[d] # "ready"
Claimable(d) == stored[d] = "pending"

\* A task that finds its document pending claims it; any other has nothing to do.
Claim(w, d) ==
  /\ worker[w] = NoTask /\ tasks[d] > 0
  /\ tasks' = [tasks EXCEPT ![d] = @ - 1]
  /\ IF Claimable(d)
     THEN Set(d, "parsing") /\ worker' = [worker EXCEPT ![w] = [doc |-> d, at |-> "parsing"]]
     ELSE UNCHANGED <<stored, worker>>
  /\ UNCHANGED <<chunks, faults>>

\* Downloaded and split, to be embedded: the transition expects its status.
Transition(w) ==
  /\ worker[w].at = "parsing" /\ stored[worker[w].doc] = "parsing"
  /\ Set(worker[w].doc, "embedding")
  /\ worker' = [worker EXCEPT ![w].at = "embedding"]
  /\ UNCHANGED <<chunks, tasks, faults>>

\* The chunks and the status are one transaction.
Complete(w) ==
  /\ worker[w].at = "embedding" /\ stored[worker[w].doc] = "embedding"
  /\ Set(worker[w].doc, "ready") /\ chunks' = chunks \cup {worker[w].doc}
  /\ worker' = [worker EXCEPT ![w] = NoTask]
  /\ UNCHANGED <<tasks, faults>>

\* Anything that fails, a status that changed included, ends in fail_ingestion,
\* which may fail itself.
Fail(w) ==
  /\ worker[w].at \in Active
  /\ stored[worker[w].doc] = worker[w].at => Fault
  /\ stored[worker[w].doc] # worker[w].at => UNCHANGED faults
  /\ IF stored[worker[w].doc] \in Active
     THEN Set(worker[w].doc, "failed") \/ UNCHANGED stored
     ELSE UNCHANGED stored
  /\ worker' = [worker EXCEPT ![w] = NoTask]
  /\ UNCHANGED <<chunks, tasks>>

\* task_acks_late: the broker still has the message, and gives it to another.
WorkerLost(w) ==
  /\ worker[w].at # "idle" /\ Fault /\ tasks[worker[w].doc] < MaxTasks
  /\ tasks' = [tasks EXCEPT ![worker[w].doc] = @ + 1]
  /\ worker' = [worker EXCEPT ![w] = NoTask]
  /\ UNCHANGED <<stored, chunks>>

IngestionStep ==
  \E w \in Worker : \/ \E d \in Doc : Claim(w, d)
                    \/ Transition(w) \/ Complete(w) \/ Fail(w)

-----------------------------------------------------------------------------
(* The requests; `answer` is what the client gets, "none" if it has to wait. *)

UploadBegins(d) == stored[d] = "none" /\ Set(d, "uploading") /\ UNCHANGED faults
UploadStored(d) == stored[d] = "uploading" /\ Set(d, "pending") /\ UNCHANGED faults

\* Without the broker the document stays pending and the client gets a 503.
Queued(d, answer) ==
  /\ stored' = stored
  /\ \/ /\ tasks[d] < MaxTasks /\ answer = "ok" /\ UNCHANGED faults
        /\ tasks' = [tasks EXCEPT ![d] = @ + 1]
     \/ answer = "error" /\ Fault /\ UNCHANGED tasks

DeletionBlocked == {"uploading"} \cup Active
DeleteRead(d, answer) ==
  /\ answer = IF Exists(d) /\ stored[d] \notin DeletionBlocked THEN "none" ELSE "error"
  /\ UNCHANGED <<stored, chunks, faults>>

\* The file is gone by now; the row goes with its chunks, or stays.
DeleteCommit(d, answer) ==
  \/ /\ Exists(d) /\ answer = "ok" /\ Set(d, "deleted") /\ chunks' = chunks \ {d}
     /\ UNCHANGED faults
  \/ answer = "error" /\ UNCHANGED <<stored, chunks>>
     /\ IF Exists(d) THEN Fault ELSE UNCHANGED faults

RetryReset(d, answer) ==
  /\ answer = IF stored[d] = "failed" THEN "none" ELSE "error"
  /\ stored' = [stored EXCEPT ![d] = IF @ = "failed" THEN "pending" ELSE @]
  /\ UNCHANGED faults

\* An error of the broker, which may have the message, makes a document that
\* is still pending fail again.
RetryQueued(d, answer) ==
  \/ /\ tasks[d] < MaxTasks /\ answer = "ok"
     /\ tasks' = [tasks EXCEPT ![d] = @ + 1] /\ UNCHANGED <<stored, faults>>
  \/ /\ Fault /\ answer = "error"
     /\ tasks' \in {tasks} \cup {[tasks EXCEPT ![d] = @ + 1] : x \in {y \in {d} : tasks[d] < MaxTasks}}
     /\ stored' \in {stored, [stored EXCEPT ![d] = IF @ = "pending" THEN "failed" ELSE @]}

\* One document may be from before, the others are to be uploaded.
ServiceInit ==
  /\ \E d \in Doc, s \in {"none", "failed", "pending"} :
       stored = [x \in Doc |-> IF x = d THEN s ELSE "none"]
  /\ chunks = {} /\ faults = 0
  /\ tasks = [d \in Doc |-> IF stored[d] = "pending" THEN 1 ELSE 0]
  /\ worker = [w \in Worker |-> NoTask]

-----------------------------------------------------------------------------
\* However often a document is queued, retried or redelivered, it is ingested by
\* one worker at a time, whose progress its status shows, and it has chunks
\* exactly while it is ready.
IngestedOnce ==
  /\ \A w, v \in Worker : worker[w].at \in Active /\ worker[v].at \in Active
                          /\ worker[w].doc = worker[v].doc => w = v
  /\ \A w \in Worker : worker[w].at \in Active =>
       stored[worker[w].doc] \in {worker[w].at, "deleted"}
  /\ \A d \in Doc : d \in chunks <=> stored[d] = "ready"

=============================================================================
