------------------------------ MODULE MCConsole ------------------------------
\* The forms and panels of the browser: one of them is open and works alone.
\* Leaving it unmounts it, and with it all its state, so that the behaviours of
\* the module are those of its pages, one at a time; as React keeps the state of
\* a component in slots, in the order in which it asks for them, the
\* variables of the page that is open are kept in the slots of this module, and
\* what a page does not use is None.
EXTENDS Integers

CONSTANTS
  None,
  Email, Tested,
  Canvas,            \* versions of the workflow whose runs the panel shows
  ManualVersion,     \* versions of the workflow that is run by hand
  ScheduleVersion, Triggered, Draft,  \* those of the workflow with a schedule
  Run,
  \* How often things happen on each page; see there.
  MaxLinks, MaxPosts, MaxMoves, MaxOutages,
  MaxTestCalls, MaxSessions,
  MaxVersion, MaxToolbarCalls, MaxToolbarFails,
  MaxRuns, MaxChanges, MaxRunTrouble,
  MaxPanelRuns, MaxPanelTurns, MaxPanelTrouble,
  MaxPolls, MaxDetailTrouble, MaxScheduleEvents

ASSUME ConsoleAssumption ==
  /\ None \notin Nat /\ None \notin {"pending", "running", "waiting_for_approval"}
  /\ Email # {} /\ MaxPolls \in Nat /\ MaxLinks \in Nat

VARIABLES
  screen,  \* the page that is open
  slot1, slot2, slot3, slot4, slot5, slot6, slot7, slot8, slot9, slot10, slot11,
  slot12, slot13, slot14, slot15

-----------------------------------------------------------------------------
Accounts == INSTANCE AccountForms WITH
  account <- slot1, links <- slot2, place <- slot3, form <- slot4, post <- slot5,
  orphans <- slot6, modal <- slot7, promise <- slot8, spends <- slot9, did <- slot10
Tests == INSTANCE WebhookTest WITH
  MaxCalls <- MaxTestCalls, sessions <- slot1, subject <- slot2, generation <- slot3,
  watches <- slot4, stage <- slot5, sessionId <- slot6, shown <- slot7, calls <- slot8
Toolbar == INSTANCE WorkflowToolbar WITH
  workflow <- slot1, loads <- slot2, shown <- slot3, mounted <- slot4, dialog <- slot5,
  sent <- slot6, mounts <- slot7, unsure <- slot8, budget <- slot9
Manual == INSTANCE ManualRun WITH
  Version <- ManualVersion, flow <- slot1, manual <- slot2, row <- slot3,
  lookups <- slot4, info <- slot5, dialog <- slot6, posts <- slot7, started <- slot8,
  told <- slot9, unsure <- slot10, effort <- slot11
Panel == INSTANCE RunPanel WITH
  runs <- slot1, open <- slot2, panel <- slot3, discovery <- slot4, details <- slot5,
  timer <- slot6, last <- slot7, painted <- slot8, turns <- slot9
Detail == INSTANCE ExecutionDetail WITH
  status <- slot1, cancelRequested <- slot2, page <- slot3, cancellation <- slot4,
  load <- slot5, timer <- slot6, lastStatus <- slot7, post <- slot8, trouble <- slot9
Schedule == INSTANCE SchedulePanel WITH
  Version <- ScheduleVersion, flow <- slot1, ever <- slot2, row <- slot3, ids <- slot4,
  panel <- slot5,
  load <- slot6, draft <- slot7, kept <- slot8, ops <- slot9, warning <- slot10,
  typed <- slot11, served <- slot12, paused <- slot13, blind <- slot14, spent <- slot15

ASSUME ScheduleAssumption ==
  /\ None \notin Schedule!Row /\ None \notin BOOLEAN /\ None \notin Schedule!Text
  /\ ScheduleVersion \subseteq Int /\ Draft \in Int

-----------------------------------------------------------------------------
\* The slots that a page with k variables does not use.
Free11 == slot12 = None /\ slot13 = None /\ slot14 = None /\ slot15 = None
Free10 == slot11 = None /\ Free11
Free9 == slot10 = None /\ Free10
Free8 == slot9 = None /\ Free9
Kept11 == UNCHANGED <<slot12, slot13, slot14, slot15>>
Kept10 == UNCHANGED slot11 /\ Kept11
Kept9 == UNCHANGED slot10 /\ Kept10
Kept8 == UNCHANGED slot9 /\ Kept9

Init ==
  \/ screen = "accounts" /\ Accounts!Init /\ Free10
  \/ screen = "webhook_test" /\ Tests!Init /\ Free8
  \/ screen = "toolbar" /\ Toolbar!Init /\ Free9
  \/ screen = "manual_run" /\ Manual!Init /\ Free11
  \/ screen = "run_panel" /\ Panel!Init /\ Free9
  \/ screen = "execution" /\ Detail!Init /\ Free9
  \/ screen = "schedule" /\ Schedule!Init

Step ==
  \/ screen = "accounts" /\ Accounts!Next /\ Kept10
  \/ screen = "webhook_test" /\ Tests!Next /\ Kept8
  \/ screen = "toolbar" /\ Toolbar!Next /\ Kept9
  \/ screen = "manual_run" /\ Manual!Next /\ Kept11
  \/ screen = "run_panel" /\ Panel!Next /\ Kept9
  \/ screen = "execution" /\ Detail!Next /\ Kept9
  \/ screen = "schedule" /\ Schedule!Next

Next == Step /\ UNCHANGED screen

vars == <<
  screen, slot1, slot2, slot3, slot4, slot5, slot6, slot7, slot8, slot9, slot10,
  slot11, slot12, slot13, slot14, slot15 >>

Spec == Init /\ [][Next]_vars

-----------------------------------------------------------------------------
\* What is shown, sent or kept belongs together: an answer enters only the
\* version, the session or the run it was asked for, only a manual version is run
\* by hand, and a workflow keeps a version, which only the toolbar sees to.
AnswersFit ==
  /\ screen = "webhook_test" => Tests!ResultIsOfSession
  /\ screen = "manual_run" => Manual!OffersOnlyManual
  /\ screen = "toolbar" => Toolbar!OneVersionKept
  /\ screen = "run_panel" => Panel!PaintsSelected

\* What must happen once is asked for once: a link is presented once however
\* often its page mounts, an execution is started again only after the last one
\* was reported, and a schedule is written again only after it was read.
ActsOnce ==
  /\ screen = "accounts" => Accounts!LinkPresentedOnce
  /\ screen = "manual_run" => Manual!RunsOnce
  /\ screen = "schedule" => Schedule!NoBlindWrite

\* What a page reports has happened, and an older answer does not take it back:
\* the outcome of a link or a form, and a cancellation.
OutcomesAreTrue ==
  /\ screen = "accounts" => Accounts!OutcomeIsTrue
  /\ screen = "execution" => Detail!CancelledStays

\* An execution that is shown unfinished goes on being asked for, or the page
\* says why not: no failure, no selection and no dialog loses the timer.
KeepsFollowing ==
  /\ screen = "run_panel" => Panel!KeepsUp
  /\ screen = "execution" => Detail!Follows

\* What the user typed for the runs of a schedule is kept until the service has
\* it, as long as every published version has a trigger, and a schedule that was
\* paused is resumed only by the user: whatever saves, publishes or synchronises.
ScheduleIsAsLeft ==
  screen = "schedule" => Schedule!DraftKeptWithTrigger /\ Schedule!PauseKept

=============================================================================
