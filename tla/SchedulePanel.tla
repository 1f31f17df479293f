----------------------------- MODULE SchedulePanel -----------------------------
(***************************************************************************)
(* The schedule of a workflow in the inspector of its trigger: the draft   *)
(* of the payload that outlives the panel, the live schedule with its      *)
(* edits, and the sequences of calls that save, synchronise and publish.   *)
(* The schedule is the row of the integration service, one to a workflow,  *)
(* and others publish and change it too.                                   *)
(***************************************************************************)
EXTENDS Integers

CONSTANTS
  None,
  Version,         \* the versions of the workflow; 1 is published first
  Triggered,       \* the versions with a Scheduled Trigger
  Draft,           \* the version that is edited
  MaxScheduleEvents  \* bound on what the user types, saves, publishes and opens
                     \* anew, what others do, and the answers that are lost

VARIABLES
  flow,     \* published version of the workflow, and whether it is active
  ever,     \* versions that were published once
  row,      \* the stored schedule
  ids,      \* how many schedules there were
  panel,    \* the state of the panel, without the draft
  load,     \* what the effect has read so far
  draft,    \* payloadDraftRef
  kept,     \* the draft in payloadDrafts and in the storage of the tab
  ops,      \* calls under way: of the panel, of the one before, of the builder
  warning,  \* publicationWarning
  typed, served,  \* history: the payload typed last, and whether it was stored
  paused,   \* history: the schedule that is paused and nobody resumed
  blind,    \* history: a call failed and the schedule was not read since
  spent     \* how much of the bound is used up

service == <<flow, ever, row, ids>>
page == <<panel, load, draft, kept, warning>>
history == <<typed, paused, blind>>
vars == <<service, page, ops, history, served, spent>>

Spend == spent < MaxScheduleEvents /\ spent' = spent + 1

-----------------------------------------------------------------------------
(* The service.  A configuration is the version it comes from, or 0 when   *)
(* it was edited by hand; next tells whether the schedule is on the queue. *)

Text == {"empty", "typed", "invalid", "others"}
NoChanges == [config |-> None, enabled |-> None, input |-> None]
Changed(old, new) == IF new = None THEN old ELSE new

Compatible(r) == flow.active /\ flow.published = r.version /\ r.version \in Triggered
\* A schedule that was suspended is put back on the queue only when asked to.
Updated(r, c) ==
  LET enabled == Changed(r.enabled, c.enabled)
  IN  IF c = NoChanges THEN r
      ELSE [r EXCEPT !.config = Changed(@, c.config), !.enabled = enabled,
                     !.input = Changed(@, c.input),
                     !.next = Compatible(r) /\ enabled /\ (r.next \/ c.enabled = TRUE)]
Refused(r, c) == c.enabled = TRUE /\ ~Compatible(r)
Created(id, config, enabled, input) ==
  [id |-> id, version |-> flow.published, config |-> config, enabled |-> enabled,
   input |-> input, next |-> enabled]
Creatable == row = None /\ flow.active /\ flow.published \in Triggered
Synchronized(r, v) ==
  IF r = None THEN None
  ELSE IF v \in Triggered THEN [r EXCEPT !.version = v, !.next = r.enabled]
                          ELSE [r EXCEPT !.next = FALSE]
Publishable(v) == v \notin ever \/ flow = [published |-> v, active |-> TRUE]
Published(v) == flow' = [published |-> v, active |-> TRUE] /\ ever' = ever \cup {v}

-----------------------------------------------------------------------------
(* The panel.                                                              *)

NoOp == [kind |-> "none", at |-> "done", text |-> "empty", dirty |-> FALSE, config |-> None,
         enabled |-> TRUE, changes |-> NoChanges, id |-> 0, flow |-> [published |-> 1, active |-> TRUE],
         again |-> FALSE, warn |-> FALSE]
Publishing == ops["builder"] # NoOp
Pending == ops["panel"] # NoOp \/ Publishing
Valid(text) == text # "invalid"

Unread == [flow |-> None, row |-> None, rowRead |-> FALSE]
Fresh(readOnly) ==
  [readOnly |-> readOnly, loading |-> TRUE, needsRefresh |-> FALSE,
   shown |-> None, live |-> NoChanges, editing |-> FALSE, confirm |-> FALSE]
Read(text) == [text |-> IF text = None THEN "empty" ELSE text, dirty |-> text # None]

Trigger == panel.shown.flow.published \in Triggered
CanApply == Trigger /\ panel.shown.flow.active
Inconsistent ==
  panel.shown.row # None /\ Trigger /\ panel.shown.row.version # panel.shown.flow.published

\* A new key of the inspector unmounts the panel: its calls go on, their answers
\* are for nobody.
Mount(readOnly, opsLeft) ==
  /\ panel' = Fresh(readOnly) /\ load' = Unread /\ draft' = Read(kept')
  /\ ops' = [opsLeft EXCEPT !["panel"] = NoOp,
                            !["orphan"] = IF opsLeft["panel"] = NoOp THEN @ ELSE opsLeft["panel"]]
Remount ==
  /\ Spend /\ (ops["panel"] = NoOp \/ ops["orphan"] = NoOp)
  /\ UNCHANGED kept /\ Mount(panel.readOnly, ops)
  /\ UNCHANGED <<service, warning, history>>

LoadReadsFlow ==
  /\ panel.loading /\ load.flow = None /\ load' = [load EXCEPT !.flow = flow]
  /\ UNCHANGED <<service, panel, draft, kept, warning, ops, history, spent>>
LoadReadsRow ==
  /\ panel.loading /\ ~load.rowRead /\ load' = [load EXCEPT !.row = row, !.rowRead = TRUE]
  /\ UNCHANGED <<service, panel, draft, kept, warning, ops, history, spent>>
\* A payload that was typed is not overwritten by the one that is stored.
LoadAnswered ==
  /\ panel.loading /\ load.flow # None /\ load.rowRead
  /\ panel' = [panel EXCEPT !.shown = [flow |-> load.flow, row |-> load.row],
                            !.needsRefresh = FALSE, !.loading = FALSE]
  /\ IF draft.dirty \/ load.row = None THEN UNCHANGED draft
     ELSE draft' = [text |-> load.row.input, dirty |-> FALSE]
  /\ load' = Unread /\ blind' = FALSE
  /\ UNCHANGED <<service, kept, warning, ops, typed, paused, spent>>
\* Mutant: a load that failed allows to save again.
LoadFailsOpen ==
  /\ panel.loading /\ load' = Unread
  /\ panel' = [panel EXCEPT !.loading = FALSE, !.needsRefresh = FALSE]
  /\ UNCHANGED <<service, draft, kept, warning, ops, history, spent>>
LoadFails ==
  /\ panel.loading /\ load' = Unread
  /\ panel' = [panel EXCEPT !.loading = FALSE]
  /\ UNCHANGED <<service, draft, kept, warning, ops, history, spent>>
RefreshState ==
  /\ ~Pending /\ ~panel.loading
  /\ panel' = [panel EXCEPT !.loading = TRUE]
  /\ UNCHANGED <<service, load, draft, kept, warning, ops, history, spent>>

Type(text) ==
  /\ ~Pending /\ ~panel.readOnly /\ text # draft.text /\ Spend
  /\ draft' = [text |-> text, dirty |-> TRUE] /\ kept' = text /\ typed' = text
  /\ UNCHANGED <<service, panel, load, warning, ops, paused, blind>>

Usable == panel.shown # None /\ ~panel.loading /\ ~Pending /\ ~panel.readOnly
EditLive ==
  /\ Usable /\ panel.shown.row # None /\ CanApply /\ ~Inconsistent /\ ~panel.needsRefresh
  /\ panel' = [panel EXCEPT !.live = NoChanges, !.editing = ~@]
  /\ IF panel.editing THEN UNCHANGED spent ELSE Spend
  /\ UNCHANGED <<service, load, draft, kept, warning, ops, history>>
\* What is changed back to what is stored is no change.
ChangeField(field, value) ==
  /\ Usable /\ CanApply /\ ~Inconsistent /\ (panel.shown.row = None \/ panel.editing)
  /\ Spend
  /\ LET stored == IF panel.shown.row # None THEN panel.shown.row
                   ELSE [config |-> panel.shown.flow.published, enabled |-> TRUE]
         shown == Changed(stored[field], panel.live[field])
     IN  /\ value # shown
         /\ panel' = [panel EXCEPT !.live[field] = IF value = stored[field] THEN None ELSE value]
  /\ UNCHANGED <<service, load, draft, kept, warning, ops, history>>
AskDelete ==
  /\ Usable /\ panel.shown.row # None /\ ~panel.confirm /\ panel' = [panel EXCEPT !.confirm = TRUE]
  /\ UNCHANGED <<service, load, draft, kept, warning, ops, history, spent>>
CancelDelete ==
  /\ panel.confirm /\ ~Pending /\ panel' = [panel EXCEPT !.confirm = FALSE]
  /\ UNCHANGED <<service, load, draft, kept, warning, ops, history, spent>>

-----------------------------------------------------------------------------
(* What is saved, published and deleted: each a sequence of calls.         *)

Start(slot, op) ==
  /\ ops[slot] = NoOp /\ Spend /\ ops' = [ops EXCEPT ![slot] = op]
  /\ UNCHANGED <<service, load, draft, kept, warning, history>>
Op(kind, at) == [NoOp EXCEPT !.kind = kind, !.at = at, !.text = draft.text, !.dirty = draft.dirty]
Mutate(op) ==
  Usable /\ ~panel.needsRefresh /\ Start("panel", op) /\ UNCHANGED panel
Update(kind, changes) ==
  Mutate([Op(kind, "update") EXCEPT !.changes = changes, !.id = panel.shown.row.id])
DraftChange == IF draft.dirty THEN draft.text ELSE None

ToggleSchedule ==
  /\ panel.shown # None /\ panel.shown.row # None /\ CanApply /\ ~Inconsistent
  /\ LET r == panel.shown.row
     IN  Update("toggle", [NoChanges EXCEPT !.enabled = ~r.enabled \/ ~r.next])
SaveLive ==
  /\ panel.shown # None /\ panel.shown.row # None /\ panel.editing /\ CanApply /\ ~Inconsistent
  /\ Valid(draft.text) /\ Update("edit", [panel.live EXCEPT !.input = DraftChange])
SavePayload ==
  /\ panel.shown # None /\ panel.shown.row # None /\ ~panel.editing /\ ~Inconsistent
  /\ draft.dirty /\ Valid(draft.text)
  /\ Update("payload", [NoChanges EXCEPT !.input = draft.text])
\* There is no schedule yet: the one of the published version, as edited.
Activate ==
  /\ panel.shown # None /\ panel.shown.row = None /\ CanApply /\ Valid(draft.text)
  /\ Mutate([Op("activate", "workflow") EXCEPT
               !.config = Changed(panel.shown.flow.published, panel.live.config),
               !.enabled = Changed(TRUE, panel.live.enabled)])
RetryActivation ==
  panel.shown # None /\ Inconsistent /\ Mutate(Op("retry", "workflow"))
ConfirmDelete ==
  /\ panel.shown # None /\ panel.confirm
  /\ Mutate([Op("delete", "delete") EXCEPT
               !.id = IF panel.shown.row = None THEN 0 ELSE panel.shown.row.id])
\* The builder publishes the draft, and synchronises a schedule when told to.
BuilderStarts(op) == Start("builder", op) /\ UNCHANGED panel
PublishDraft == ~panel.readOnly /\ BuilderStarts(Op("publish", "publish"))
RetryFromWarning ==
  /\ warning
  /\ BuilderStarts([Op("builder", "workflow") EXCEPT !.text = Read(kept).text,
                                                     !.dirty = Read(kept).dirty])

-----------------------------------------------------------------------------
(* How a sequence ends.                                                    *)

\* The panel shows what was read after the write; a payload that was saved with
\* it is no draft any more.
Saves(kind) == kind \in {"edit", "payload", "activate", "retry"}
\* Mutant: every write that succeeds drops the draft.
PanelDoneDrops(op, result) ==
  /\ ops' = [ops EXCEPT !["panel"] = NoOp]
  /\ panel' = [panel EXCEPT !.shown.row = result, !.live = NoChanges, !.editing = FALSE,
                            !.confirm = FALSE]
  /\ draft' = Read(None) /\ kept' = None /\ UNCHANGED <<load, warning, blind>>
PanelDone(op, result) ==
  /\ ops' = [ops EXCEPT !["panel"] = NoOp]
  /\ panel' = [panel EXCEPT !.shown.row = result, !.live = NoChanges, !.editing = FALSE,
                            !.confirm = FALSE]
  /\ IF Saves(op.kind) /\ result # None
     THEN draft' = [text |-> result.input, dirty |-> FALSE] /\ kept' = None
     ELSE UNCHANGED <<draft, kept>>
  /\ UNCHANGED <<load, warning, blind>>
\* The builder drops the draft it has sent, unless another was typed since, and
\* opens the panel anew.
BuilderDone(op, result, failed) ==
  /\ kept' = IF result # None /\ op.dirty /\ kept = op.text THEN None ELSE kept
  /\ warning' = (failed \/ op.warn)
  /\ Mount(panel.readOnly, [ops EXCEPT !["builder"] = NoOp])
  /\ UNCHANGED blind
OrphanDone == ops' = [ops EXCEPT !["orphan"] = NoOp] /\ UNCHANGED <<page, blind>>
Done(s, result) ==
  CASE s = "panel" -> PanelDone(ops[s], result)
    [] s = "builder" -> BuilderDone(ops[s], result, FALSE)
    [] s = "orphan" -> OrphanDone
\* A write that failed may have happened.
PanelFails ==
  /\ ops' = [ops EXCEPT !["panel"] = NoOp] /\ blind' = TRUE
  /\ panel' = [panel EXCEPT !.needsRefresh = TRUE, !.confirm = FALSE]
  /\ UNCHANGED <<load, draft, kept, warning>>
Fail(s) ==
  CASE s = "panel" -> PanelFails
    [] s = "builder" ->
         IF ops[s].at \in {"publish", "check"}
         THEN ops' = [ops EXCEPT ![s] = NoOp] /\ UNCHANGED <<page, blind>>
         ELSE BuilderDone(ops[s], None, TRUE)
    [] s = "orphan" -> OrphanDone

-----------------------------------------------------------------------------
(* The calls of a sequence, one after the other.                           *)

Goto(s, op) == ops' = [ops EXCEPT ![s] = op] /\ UNCHANGED <<page, blind>>
At(s, at) == ops[s].at = at
Step(s, at) == Goto(s, [ops[s] EXCEPT !.at = at])
Reads == UNCHANGED <<service, typed, paused, spent>>

\* reconcilePublishedSchedule: the published trigger decides, a payload that
\* cannot be read is not sent.
ReadWorkflow(s) ==
  /\ At(s, "workflow") /\ Reads
  /\ LET op == ops[s]
     IN  IF flow.published \notin Triggered
         THEN IF op.kind \in {"activate", "retry"} THEN Step(s, "list") ELSE Done(s, None)
         ELSE IF ~flow.active \/ (op.dirty /\ ~Valid(op.text)) THEN Fail(s)
         ELSE Goto(s, [op EXCEPT !.at = "find", !.flow = flow,
                                 !.config = IF op.kind = "activate" THEN @ ELSE flow.published])

\* What differs from the row that was found is written, never whether it is
\* paused; a row of another version is synchronised first, once.
\* Mutant: the row gets the enabled of the trigger.
DesiredOfTrigger(op, r) ==
  [config |-> IF r.config = op.config THEN None ELSE op.config,
   enabled |-> IF r.enabled = op.enabled THEN None ELSE op.enabled,
   input |-> IF op.dirty /\ op.text # r.input THEN op.text ELSE None]
Desired(op, r) ==
  [config |-> IF r.config = op.config THEN None ELSE op.config, enabled |-> None,
   input |-> IF op.dirty /\ op.text # r.input THEN op.text ELSE None]
Found(s, r) ==
  LET op == [ops[s] EXCEPT !.id = r.id, !.changes = Desired(ops[s], r)]
  IN  IF r.version # op.flow.published
      THEN IF op.kind \in {"retry", "builder"} /\ ~op.again
           THEN Goto(s, [op EXCEPT !.at = "flow_again"]) ELSE Fail(s)
      ELSE Goto(s, [op EXCEPT !.at = IF op.changes = NoChanges THEN "confirm" ELSE "update"])
FindExisting(s) ==
  /\ At(s, "find") /\ Reads
  /\ IF row = None THEN Step(s, "create") ELSE Found(s, row)
\* An uncertain creation is looked up once, and never repeated.
FindAgain(s) ==
  /\ At(s, "find_again") /\ Reads
  /\ IF row = None THEN Fail(s) ELSE Found(s, row)
CreateRow(s) ==
  /\ At(s, "create")
  /\ LET op == ops[s]
         new == Created(1 + ids, op.config, op.enabled, IF op.dirty THEN op.text ELSE "empty")
     IN  IF ~Creatable THEN Step(s, "find_again") /\ UNCHANGED <<row, paused, ids>>
         ELSE /\ row' = new /\ ids' = ids + 1
              /\ paused' = IF op.enabled THEN paused ELSE new.id
              /\ \/ Found(s, new)
                 \/ Step(s, "find_again")
  /\ UNCHANGED <<flow, ever, typed, spent>>

\* Only the switch and the live edits ask for it.
Resumes(op) ==
  paused' = IF op.changes.enabled = FALSE THEN row.id
            ELSE IF op.changes.enabled = TRUE /\ op.kind \in {"toggle", "edit"} THEN 0
            ELSE paused
UpdateRow(s) ==
  /\ At(s, "update") /\ UNCHANGED <<flow, ever, ids, typed, spent>>
  /\ LET op == ops[s]
     IN  IF row = None \/ row.id # op.id \/ Refused(row, op.changes)
         THEN Fail(s) /\ UNCHANGED <<row, paused>>
         ELSE /\ row' = Updated(row, op.changes) /\ Resumes(op)
              /\ Step(s, IF op.kind \in {"toggle", "edit", "payload"} THEN "get" ELSE "confirm")
ConfirmRow(s) ==
  /\ At(s, "confirm") /\ Reads
  /\ LET op == ops[s]
     IN  IF row = None \/ row.id # op.id \/ row.version # op.flow.published
            \/ (row.enabled /\ ~row.next) THEN Fail(s)
         ELSE IF op.kind \in {"activate", "retry"} THEN Step(s, "get") ELSE Done(s, row)
\* retryScheduleActivation publishes what is published again, to synchronise it.
ReadAgain(s) ==
  /\ At(s, "flow_again") /\ Reads
  /\ IF flow.active THEN Goto(s, [ops[s] EXCEPT !.at = "publish_again", !.flow = flow]) ELSE Fail(s)
PublishAgain(s) ==
  /\ At(s, "publish_again") /\ UNCHANGED <<ids, typed, paused, spent>>
  /\ LET v == ops[s].flow.published
     IN  IF Publishable(v)
         THEN /\ Published(v) /\ row' = Synchronized(row, v)
              /\ Goto(s, [ops[s] EXCEPT !.at = "workflow", !.again = TRUE])
         ELSE Fail(s) /\ UNCHANGED <<flow, ever, row>>
DeleteRow(s) ==
  /\ At(s, "delete") /\ UNCHANGED <<flow, ever, ids, typed, paused, spent>>
  /\ IF row = None \/ row.id # ops[s].id THEN Fail(s) /\ UNCHANGED row
     ELSE row' = None /\ Step(s, "list")
GetRow(s) ==
  /\ At(s, "get") /\ Reads
  /\ IF row = None \/ row.id # ops[s].id THEN Fail(s) ELSE Done(s, row)
ListRows(s) == At(s, "list") /\ Reads /\ Done(s, row)

\* publishWithSchedule: an answer that is lost is made up for by reading the
\* workflow, and the draft is taken only then.
PublishCall(s) ==
  /\ At(s, "publish") /\ UNCHANGED <<ids, typed, paused>>
  /\ \/ /\ Publishable(Draft) /\ Published(Draft) /\ row' = Synchronized(row, Draft)
        /\ Step(s, "check") /\ UNCHANGED spent
     \/ /\ Publishable(Draft) /\ Published(Draft) /\ Spend
        /\ row' \in {row, Synchronized(row, Draft)} /\ Goto(s, [ops[s] EXCEPT !.at = "check", !.warn = TRUE])
     \/ /\ ~Publishable(Draft) /\ Goto(s, [ops[s] EXCEPT !.at = "check", !.warn = TRUE])
        /\ UNCHANGED <<flow, ever, row, spent>>
CheckPublished(s) ==
  /\ At(s, "check") /\ Reads
  /\ IF flow # [published |-> Draft, active |-> TRUE] THEN Fail(s)
     ELSE /\ UNCHANGED <<kept, warning, blind>>
          /\ Mount(TRUE, [ops EXCEPT ![s].at = "workflow", ![s].text = Read(kept).text,
                                     ![s].dirty = Read(kept).dirty])

\* A call has no answer; a write may have happened.
CallLost(s) ==
  /\ ops[s] # NoOp /\ ops[s].at # "publish" /\ Spend
  /\ IF At(s, "create") THEN Step(s, "find_again") ELSE Fail(s)
  /\ \/ UNCHANGED <<row, paused>>
     \/ /\ At(s, "update") /\ row # None /\ row.id = ops[s].id /\ ~Refused(row, ops[s].changes)
        /\ row' = Updated(row, ops[s].changes) /\ Resumes(ops[s])
     \/ At(s, "delete") /\ row # None /\ row.id = ops[s].id /\ row' = None /\ UNCHANGED paused
     \/ /\ At(s, "publish_again") /\ ops[s].flow = flow /\ UNCHANGED paused
        /\ row' = Synchronized(row, flow.published)
  /\ UNCHANGED <<flow, ever, ids, typed>>

-----------------------------------------------------------------------------
(* What others do: they publish, with or without the schedule being        *)
(* synchronised, deactivate, and create, change or delete the schedule.    *)

Others == Spend /\ UNCHANGED <<page, ops, typed, blind>>
OthersPublish(v) ==
  /\ Others /\ v \notin ever /\ Published(v) /\ row' \in {row, Synchronized(row, v)}
  /\ UNCHANGED <<ids, paused>>
OthersDeactivate ==
  /\ Others /\ flow.active /\ flow' = [flow EXCEPT !.active = FALSE]
  /\ row' = (IF row = None THEN None ELSE [row EXCEPT !.next = FALSE]) /\ UNCHANGED <<ever, ids, paused>>
OthersCreate ==
  /\ Others /\ Creatable /\ row' = Created(1 + ids, flow.published, TRUE, "others")
  /\ ids' = ids + 1 /\ UNCHANGED <<flow, ever, paused>>
OthersChange ==
  /\ Others /\ row # None /\ row' = [row EXCEPT !.input = "others"] /\ UNCHANGED <<flow, ever, ids, paused>>
OthersDelete == Others /\ row # None /\ row' = None /\ UNCHANGED <<flow, ever, ids, paused>>

-----------------------------------------------------------------------------
\* There may be a schedule already, also one of an earlier version, 0, that was
\* not synchronised when the workflow was published.
Init ==
  /\ flow = [published |-> 1, active |-> TRUE] /\ ever = {1}
  /\ \/ row = None /\ paused = 0
     \/ \E enabled \in BOOLEAN, v \in 0..1 :
          /\ row = [Created(1, v, enabled, "empty") EXCEPT !.version = v]
          /\ paused = IF enabled THEN 0 ELSE 1
  /\ panel = Fresh(FALSE) /\ load = Unread /\ draft = Read(None) /\ kept = None
  /\ ops = [s \in {"panel", "orphan", "builder"} |-> NoOp] /\ warning = FALSE
  /\ typed = None /\ served = FALSE /\ blind = FALSE
  /\ ids = 1 /\ spent = 0

\* What was typed is served once the row has it.
Served ==
  served' = ((served /\ typed' = typed) \/ (row' # None /\ row'.input = typed'))
Next ==
  /\ \/ Remount \/ LoadReadsFlow \/ LoadReadsRow \/ LoadAnswered \/ LoadFails \/ RefreshState
     \/ EditLive \/ AskDelete \/ CancelDelete \/ ToggleSchedule \/ SaveLive \/ SavePayload
     \/ Activate \/ RetryActivation \/ ConfirmDelete \/ PublishDraft \/ RetryFromWarning
     \/ \E text \in {"typed", "invalid"} : Type(text)
     \/ ChangeField("config", 0) \/ ChangeField("config", 1)
     \/ \E enabled \in BOOLEAN : ChangeField("enabled", enabled)
     \/ \E s \in DOMAIN ops :
          \/ ReadWorkflow(s) \/ FindExisting(s) \/ FindAgain(s) \/ CreateRow(s) \/ UpdateRow(s)
          \/ ConfirmRow(s) \/ ReadAgain(s) \/ PublishAgain(s) \/ DeleteRow(s) \/ GetRow(s)
          \/ ListRows(s) \/ PublishCall(s) \/ CheckPublished(s) \/ CallLost(s)
     \/ \E v \in Version : OthersPublish(v)
     \/ OthersDeactivate \/ OthersCreate \/ OthersChange \/ OthersDelete
  /\ Served

Spec == Init /\ [][Next]_vars

-----------------------------------------------------------------------------
\* What is stored, what a call changes of it, and the calls of a sequence.
WorkflowRow == [published : Int, active : BOOLEAN]
Row == [id : Nat, version : Int, config : Int \cup {None}, enabled : BOOLEAN, input : Text,
        next : BOOLEAN]
Changes == [config : Int \cup {None}, enabled : BOOLEAN \cup {None}, input : Text \cup {None}]
Kind == {"none", "toggle", "edit", "payload", "activate", "retry", "delete", "publish", "builder"}
Place == {"done", "workflow", "find", "create", "find_again", "update", "confirm", "get",
          "flow_again", "publish_again", "delete", "list", "publish", "check"}
Calls == [kind : Kind, at : Place, text : Text, dirty : BOOLEAN, config : Int \cup {None},
          enabled : BOOLEAN, changes : Changes, id : Nat, flow : WorkflowRow, again : BOOLEAN,
          warn : BOOLEAN]

\* A schedule has the number it was created with, and only the switch and the
\* live edits carry a change that resumes it.
NumbersFit ==
  /\ flow.published \in ever
  /\ row # None => row.id \in 1..ids
OnlyAskedResumes ==
  \A s \in DOMAIN ops : ops[s].changes.enabled = TRUE => ops[s].kind \in {"toggle", "edit"}

\* The panel knows that a call has failed, until it reads the schedule.
BlindIsSeen == blind => panel.needsRefresh \/ panel.shown = None
CallsAreOfShown == ops["panel"] # NoOp => panel.shown # None /\ ~panel.loading

\* The draft of the panel and the one that is kept are the same, and typed last.
DraftIsKept ==
  /\ draft.dirty <=> kept # None
  /\ kept # None => draft.text = kept /\ kept = typed

\* The calls of s carry the draft, as it was when they started or when the
\* draft was published, and they end with dropping it.
Takes(s) ==
  \/ s = "panel" /\ Saves(ops[s].kind)
  \/ s = "builder" /\ ops[s] # NoOp /\ ops[s].at \notin {"publish", "check"}
CarriesDraft(s) ==
  /\ s = "panel" => (ops[s].dirty <=> draft.dirty)
  /\ ops[s].dirty =>
       /\ ops[s].text # None /\ ops[s].text = typed
       /\ ops[s].at = "update" => ops[s].changes.input = typed \/ served
       /\ ops[s].at \in {"get", "confirm"} => served
OnlyDeleteLists ==
  /\ \A s \in DOMAIN ops : ops[s].at \in {"delete", "list"} => ops[s].kind = "delete"
  /\ ops["builder"].kind # "delete"
CallsCarryDraft ==
  OnlyDeleteLists /\ \A s \in DOMAIN ops : Takes(s) => CarriesDraft(s)

\* A payload that was typed is kept until the service has stored it
\* ("Keep unsaved payloads ... until the schedule API confirms a save").
DraftKept == typed # None => kept = typed \/ served

\* It is, as long as every published version has a trigger.
DraftKeptWithTrigger == ever \subseteq Triggered => DraftKept

\* A schedule that was paused is resumed only by who asks for it: publishing,
\* synchronising and editing leave it paused.
PauseKept == row # None /\ row.id = paused => ~row.enabled

\* After a write that failed nothing is written before the schedule was read
\* again.
NoBlindWrite == ops["panel"] # NoOp => ~blind

=============================================================================
