------------------------------- MODULE MCLists -------------------------------
\* The pages of the browser that list what the user has: one of them is open and
\* works alone.  Leaving it unmounts it, and with it all its state, so that the
\* behaviours of the module are those of its pages, one at a time; as React keeps
\* the state of a component in slots, in the order in which it asks for them, the
\* variables of the page that is open are kept in the slots of this module, and
\* what a page does not use is None.
EXTENDS Integers

CONSTANTS
  None,
  Approval, Conn, Ai, Hook, KB, Doc, Worker, Flow, Event,  \* what the pages list
  \* How often things happen on each page; see there.
  MaxRefreshes, MaxDecisions, MaxOthers,
  MaxConnCalls, MaxBaseCalls, MaxFlowCalls, MaxTrouble,
  MaxOpened, MaxSaves, MaxFails, MaxActs,
  MaxTasks, MaxFaults, MaxOperations, MaxLost,
  MaxHandled, MaxDeskTrouble

VARIABLES
  screen,  \* the page that is open
  slot1, slot2, slot3, slot4, slot5, slot6, slot7, slot8, slot9, slot10, slot11,
  slot12, slot13, slot14, slot15, slot16, slot17

-----------------------------------------------------------------------------
Inbox == INSTANCE ApprovalInbox WITH
  requests <- slot1, items <- slot2, loading <- slot3, loadError <- slot4,
  stored <- slot5, tab <- slot6, drawer <- slot7, details <- slot8, dialog <- slot9,
  posting <- slot10, heard <- slot11, spent <- slot12
Conns == INSTANCE ConnectionsPage WITH
  MaxCalls <- MaxConnCalls, requests <- slot1, items <- slot2, loading <- slot3,
  loadError <- slot4, stored <- slot5, modal <- slot6, selected <- slot7, form <- slot8,
  replace <- slot9, saving <- slot10, deleting <- slot11, tests <- slot12,
  testing <- slot13, result <- slot14, gone <- slot15, unsure <- slot16,
  effort <- slot17
AiConns == INSTANCE AiConnections WITH
  requests <- slot1, items <- slot2, loading <- slot3, loadError <- slot4,
  kept <- slot5, dialog <- slot6, draft <- slot7, requestId <- slot8,
  inspected <- slot9, answered <- slot10, write <- slot11, removed <- slot12,
  made <- slot13
Hooks == INSTANCE WebhooksPage WITH
  requests <- slot1, items <- slot2, loading <- slot3, loadError <- slot4,
  hooks <- slot5, panel <- slot6, chosen <- slot7, entry <- slot8, versions <- slot9,
  submitting <- slot10, acts <- slot11, credential <- slot12, told <- slot13,
  lapses <- slot14, turns <- slot15
Bases == INSTANCE KnowledgeBases WITH
  MaxCalls <- MaxBaseCalls, requests <- slot1, items <- slot2, loading <- slot3,
  loadError <- slot4, stored <- slot5, at <- slot6, modal <- slot7, write <- slot8,
  page <- slot9, gone <- slot10, missed <- slot11, calls <- slot12
Documents == INSTANCE KnowledgeDocuments WITH
  stored <- slot1, chunks <- slot2, tasks <- slot3, worker <- slot4, faults <- slot5,
  shown <- slot6, error <- slot7, refreshing <- slot8, waiting <- slot9,
  request <- slot10, op <- slot11, deleting <- slot12, upload <- slot13,
  gone <- slot14, did <- slot15
Flows == INSTANCE WorkflowsPage WITH
  MaxCalls <- MaxFlowCalls, requests <- slot1, items <- slot2, loading <- slot3,
  loadError <- slot4, stored <- slot5, filter <- slot6, dialog <- slot7, call <- slot8,
  opened <- slot9, gone <- slot10, missed <- slot11, calls <- slot12
Desk == INSTANCE DeadLetterDesk WITH
  requests <- slot1, items <- slot2, loading <- slot3, loadError <- slot4,
  stored <- slot5, unsafe <- slot6, query <- slot7, drawer <- slot8, read <- slot9,
  post <- slot10, changed <- slot11, blind <- slot12, missed <- slot13, desk <- slot14

ASSUME ListsAssumption ==
  /\ None \notin KB /\ None \notin Flow /\ None \notin Event /\ None \notin Conn
  /\ None \notin Ai /\ None \notin Approval
  /\ Hook # {} /\ Hook \cap {None, "none", "create", "404"} = {}
  /\ None \notin [id : Hook, token : Int]
  /\ None \notin Doc /\ MaxTasks \in Nat \ {0} /\ MaxFaults \in Nat

-----------------------------------------------------------------------------
\* The slots that a page with k variables does not use.
Free15 == slot16 = None /\ slot17 = None
Free14 == slot15 = None /\ Free15
Free13 == slot14 = None /\ Free14
Free12 == slot13 = None /\ Free13
Kept15 == UNCHANGED <<slot16, slot17>>
Kept14 == UNCHANGED slot15 /\ Kept15
Kept13 == UNCHANGED slot14 /\ Kept14
Kept12 == UNCHANGED slot13 /\ Kept13

Init ==
  \/ screen = "approvals" /\ Inbox!Init /\ Free12
  \/ screen = "connections" /\ Conns!Init
  \/ screen = "ai" /\ AiConns!Init /\ Free13
  \/ screen = "webhooks" /\ Hooks!Init /\ Free15
  \/ screen = "knowledge" /\ Bases!Init /\ Free12
  \/ screen = "documents" /\ Documents!Init /\ Free15
  \/ screen = "workflows" /\ Flows!Init /\ Free12
  \/ screen = "dead_letters" /\ Desk!Init /\ Free14

Step ==
  \/ screen = "approvals" /\ Inbox!Next /\ Kept12
  \/ screen = "connections" /\ Conns!Next
  \/ screen = "ai" /\ AiConns!Next /\ Kept13
  \/ screen = "webhooks" /\ Hooks!Next /\ Kept15
  \/ screen = "knowledge" /\ Bases!Next /\ Kept12
  \/ screen = "documents" /\ Documents!Next /\ Kept15
  \/ screen = "workflows" /\ Flows!Next /\ Kept12
  \/ screen = "dead_letters" /\ Desk!Next /\ Kept14

Next == Step /\ UNCHANGED screen

vars == <<
  screen, slot1, slot2, slot3, slot4, slot5, slot6, slot7, slot8, slot9, slot10,
  slot11, slot12, slot13, slot14, slot15, slot16, slot17 >>

\* On the page of the documents requests are answered, promises begin and the
\* timer fires; the service and the user owe nothing.
OnDocuments == screen = "documents" /\ Kept15 /\ UNCHANGED screen
Fairness ==
  /\ WF_vars(OnDocuments /\ Documents!BeginList)
  /\ WF_vars(OnDocuments /\ Documents!Poll)
  /\ WF_vars(OnDocuments /\ Documents!Answers)

Spec == Init /\ [][Next]_vars /\ Fairness

-----------------------------------------------------------------------------
\* What a page was told is decided or deleted does not come back: an answer to a
\* request that was sent before is thrown away (the request numbers of the lists),
\* or the row is taken out of what it brings.
DeletedStaysAway ==
  /\ screen = "approvals" => Inbox!DecidedStaysAway
  /\ screen = "connections" => Conns!DeletedStaysAway
  /\ screen = "ai" => AiConns!DeletedStaysAway
  /\ screen = "webhooks" => Hooks!DeletedStaysAway
  /\ screen = "knowledge" => Bases!DeletedStaysAway
  /\ screen = "documents" => Documents!DeletedStaysAway
  /\ screen = "workflows" => Flows!DeletedStaysAway

\* Once every call of the page was answered its list is what the service has:
\* each action that changes rows patches them or loads the list again, and of
\* several answers the last request decides.
ListIsCurrent ==
  /\ screen = "webhooks" => Hooks!ListIsCurrent
  /\ screen = "knowledge" => Bases!ListIsCurrent
  /\ screen = "workflows" => Flows!ListIsCurrent
  /\ screen = "dead_letters" => Desk!ListIsCurrent

\* What is shown, sent or stored with a row belongs to it: an answer enters only
\* the dialog it was asked for, a connection has the credential of its method,
\* and a webhook a version of its workflow.
FormsFit ==
  /\ screen = "ai" => AiConns!AnswerIsOfDialog
  /\ screen = "connections" => Conns!CredentialFits
  /\ screen = "webhooks" => Hooks!VersionFits

\* What must be handled once is: an event is handled again only after it was
\* read again, and a document, however often it is queued, retried or delivered
\* again, is ingested by one worker at a time and has its chunks exactly while
\* it is ready.
HandledOnce ==
  /\ screen = "dead_letters" => Desk!NoBlindRetry
  /\ screen = "documents" => Documents!IngestedOnce

\* A document shown as processing whose ingestion has ended is shown as ready
\* or failed in the end: no operation, upload or failing list ends the polling.
OutcomeIsShown ==
  \A d \in Doc : []<>~(screen = "documents" /\ Documents!Overdue(d))

=============================================================================
