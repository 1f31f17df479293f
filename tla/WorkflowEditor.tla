--------------------------- MODULE WorkflowEditor ---------------------------
(***************************************************************************)
(* The workflow builder of the frontend: the canvas with its undo history, *)
(* the page that loads it, the save that brings the stored draft up to the *)
(* canvas one call at a time, validation, publication, and the ways the    *)
(* builder goes away while edits or calls are under way.  The store is the *)
(* node and edge API of the workflow service, as far as the builder sees   *)
(* it.  An id of the canvas is a temporary one (negative) until a save has *)
(* replaced it by the id of the row the service created.                   *)
(***************************************************************************)
EXTENDS Integers, Sequences, FiniteSets

CONSTANTS
  None,
  Decision,      \* names of the ai.decision nodes
  Contents,      \* what an edit can make a node say
  Starts,        \* drafts and retired versions to begin with: what each node
                 \* says, and how many events are left out
  HistoryLimit,  \* 50 in the code
  MaxNodes,      \* bound on the logical names given out
  MaxEdits, MaxSaves, MaxEvents \* bounds on what happens

ASSUME EditorAssumption ==
  /\ {HistoryLimit, MaxNodes, MaxEdits, MaxSaves, MaxEvents}
       \subseteq Nat
  /\ HistoryLimit > 0 /\ MaxNodes > 1 /\ Decision \subseteq 1..MaxNodes
  /\ None \notin STRING \cup Int

ASSUME ContentsAssumption ==
  /\ Contents \subseteq 0..(MaxNodes + 1)
  /\ \A start \in Starts :
       /\ start.says \in Seq(0..(MaxNodes + 2)) /\ Len(start.says) \in 2..MaxNodes
       /\ start.status \in {"draft", "published", "retired"} /\ start.spent \in Nat

VARIABLES
  stored,     \* the version in the service: rows of nodes and edges, and whether it
              \* is a draft, published, or retired: published once, and the
              \* workflow has no live version any more
  nextRow, nextTemp, nextName,
  page,       \* "loading", "builder" or "left"
  canvas,     \* nodes and edges React Flow shows
  known,      \* serverNodesRef and serverEdgesRef
  undo, redo, \* stacks of canvases
  frame,      \* historyFrameRef, while the 250 ms of recordHistory run
  saveState,
  save,       \* the handleSave under way
  orphan,     \* a handleSave whose builder was unmounted
  publishing, \* where handlePublish is
  status,     \* currentVersionStatus; "retired" as in the rows
  check,      \* the request of handleValidate, with what it judges
  verdict,    \* what the verdict of the open dialog is about
  leaving,    \* the dialog "Leave without saving?" is open
  fresh,      \* history: this builder has not saved yet
  unsure,     \* history: a call took effect and its answer reached no builder
  used        \* history: how much of each bound is used up

history == <<undo, redo, frame>>
saving == <<saveState, save, fresh>>
checking == <<check, verdict>>
ids == <<nextRow, nextTemp, nextName>>
builderVars == <<canvas, known, history, saving, publishing, status, checking,
                 leaving>>
vars == <<stored, ids, page, builderVars, orphan, unsure, used>>

Empty == [nodes |-> <<>>, edges |-> <<>>]
Put(f, k, v) == [x \in DOMAIN f \cup {k} |-> IF x = k THEN v ELSE f[x]]
Drop(f, S) == [x \in DOMAIN f \ S |-> f[x]]
Spend(kind, limit) == used[kind] < limit /\ used' = [used EXCEPT ![kind] = @ + 1]

IsTemp(id) == id < 0
readOnly == status # "draft"
Ref(c, id) == c.nodes[id].ref
\* A loaded connection without its node has the logical name for an id, which is
\* neither a row nor a temporary id.
LogicalId(name) == name - MaxNodes - 1
NameOf(c, id) ==
  IF id \in DOMAIN c.nodes THEN c.nodes[id].name ELSE id + MaxNodes + 1
Names(nodes) == {nodes[id].name : id \in DOMAIN nodes}

-----------------------------------------------------------------------------
(* What a node says (its "ref") is the name of the node it refers to, 0 for *)
(* nothing, or one of two contents that the builder converts.              *)

Example == MaxNodes + 1 \* a value, or a field name, of an example node
Raw == MaxNodes + 2     \* a configuration not in the form a save gives it

Without(nodes, ref) ==
  [id \in DOMAIN nodes |->
     [name |-> nodes[id].name,
      ref |-> IF nodes[id].ref = ref THEN 0 ELSE nodes[id].ref]]

\* clearExampleNodeConfig, which a canvas is built with, and the normalization
\* of the nodes a save writes and a validation judges.
Cleaned(nodes) == Without(nodes, Example)
Normalized(nodes) == Without(nodes, Raw)

-----------------------------------------------------------------------------
(* What a canvas, and what the rows of the service, say of the workflow,   *)
(* without ids: the nodes by name, and how often each connection occurs.   *)
(* A canvas says what a save of it would store.                            *)

Link(c, e) ==
  [from |-> NameOf(c, c.edges[e].from), to |-> NameOf(c, c.edges[e].to),
   cond |-> c.edges[e].cond]
Links(c) == [e \in DOMAIN c.edges |-> Link(c, e)]
Tally(links) ==
  [l \in {links[e] : e \in DOMAIN links} |->
     Cardinality({e \in DOMAIN links : links[e] = l})]

ByName(nodes) ==
  [n \in Names(nodes) |->
     nodes[CHOOSE id \in DOMAIN nodes : nodes[id].name = n].ref]

Definition(c) == [nodes |-> ByName(Normalized(c.nodes)), links |-> Tally(Links(c))]
StoredDefinition == [nodes |-> ByName(stored.nodes), links |-> Tally(stored.edges)]

-----------------------------------------------------------------------------
(* The builder is mounted with the rows the page loaded.  The canvas shows *)
(* them cleaned, the rows known stay as they are stored.                   *)

StoredRow(name) == {r \in DOMAIN stored.nodes : stored.nodes[r].name = name}
RowOf(name) == IF StoredRow(name) = {} THEN LogicalId(name)
               ELSE CHOOSE r \in StoredRow(name) : TRUE
BuildEdges ==
  [r \in DOMAIN stored.edges |->
     [from |-> RowOf(stored.edges[r].from), to |-> RowOf(stored.edges[r].to),
      cond |-> stored.edges[r].cond]]
KnownEdge(edge, from, to) ==
  [source |-> edge.from, target |-> edge.to, from |-> from, to |-> to,
   cond |-> edge.cond]
SeedCounter == 1 + CHOOSE n \in Names(stored.nodes) \cup {0} :
                     \A m \in Names(stored.nodes) : n >= m

Idle ==
  /\ undo' = <<>> /\ redo' = <<>> /\ frame' = None
  /\ saveState' = "saved" /\ save' = None /\ fresh' = TRUE /\ publishing' = "no"
  /\ check' = None /\ verdict' = None /\ leaving' = FALSE

Load ==
  /\ page = "loading" /\ page' = "builder"
  /\ canvas' = [nodes |-> Cleaned(stored.nodes), edges |-> BuildEdges]
  /\ known' = [nodes |-> stored.nodes,
               edges |-> [r \in DOMAIN stored.edges |->
                            KnownEdge(BuildEdges[r], stored.edges[r].from,
                                      stored.edges[r].to)]]
  /\ nextName' = SeedCounter
  /\ status' = stored.status
  /\ Idle
  /\ UNCHANGED <<stored, nextRow, nextTemp, orphan, unsure, used>>

\* What is left of the builder when it goes: a save and a publication that go
\* on without it.
Orphaned ==
  /\ orphan = None
  /\ orphan' = IF save = None /\ publishing = "no" THEN None
               ELSE [save |-> save, publishing |-> publishing # "no"]
Unmount(to) ==
  /\ page' = to /\ Orphaned
  /\ canvas' = Empty /\ known' = Empty /\ status' = "draft" /\ Idle
  /\ UNCHANGED <<stored, ids, unsure>>

-----------------------------------------------------------------------------
(* Edits.  Each is recorded in the history and marks the canvas unsaved.   *)

\* Mutant: the canvas stays open to edits while its version is published.
CanEditWhilePublishing == page = "builder" /\ ~readOnly

CanEdit == page = "builder" /\ ~readOnly /\ publishing = "no"

Push(stack, c) ==
  Append(IF Len(stack) < HistoryLimit THEN stack
         ELSE SubSeq(stack, Len(stack) - HistoryLimit + 2, Len(stack)), c)

RecordHistory ==
  /\ frame' = IF frame = None THEN canvas ELSE frame
  /\ UNCHANGED <<undo, redo>>

HistoryTimer ==
  /\ page = "builder" /\ frame # None
  /\ undo' = Push(undo, frame) /\ redo' = <<>> /\ frame' = None
  /\ UNCHANGED <<stored, ids, page, canvas, known, saving, orphan, publishing,
                 status, checking, leaving, unsure, used>>

\* Mutant: an edit does not outdate the validation.
MarkUnsavedOnly ==
  /\ saveState' = IF saveState = "saving" THEN "saving" ELSE "unsaved"
  /\ save' = IF save = None THEN None ELSE [save EXCEPT !.edited = TRUE]
  /\ UNCHANGED checking

MarkUnsaved ==
  /\ saveState' = IF saveState = "saving" THEN "saving" ELSE "unsaved"
  /\ save' = IF save = None THEN None ELSE [save EXCEPT !.edited = TRUE]
  /\ check' = IF check = None THEN None ELSE [check EXCEPT !.current = FALSE]
  /\ verdict' = None

ShowCanvas(c) ==
  /\ canvas' = c /\ MarkUnsaved
  /\ UNCHANGED <<stored, nextRow, page, known, fresh, orphan, publishing, status,
                 leaving, unsure>>

Edit(c) == CanEdit /\ RecordHistory /\ ShowCanvas(c) /\ Spend("edits", MaxEdits)
EditKeepingIds(c) == Edit(c) /\ UNCHANGED <<nextTemp, nextName>>

AddNode(ref) ==
  /\ nextName <= MaxNodes /\ nextName' = nextName + 1
  /\ nextTemp' = nextTemp - 1
  /\ Edit([canvas EXCEPT !.nodes =
             Put(@, nextTemp, [name |-> nextName, ref |-> ref])])

DropNode == AddNode(0)
DuplicateNode(id) == AddNode(Ref(canvas, id))

UpdateNode(id, ref) ==
  EditKeepingIds([canvas EXCEPT !.nodes[id].ref = ref])

\* A drag is recorded at once, over a frame that was still waiting.
DragNode(id, ref) ==
  /\ CanEdit /\ undo' = Push(undo, canvas) /\ redo' = <<>> /\ frame' = None
  /\ ShowCanvas([canvas EXCEPT !.nodes[id].ref = ref]) /\ Spend("edits", MaxEdits)
  /\ UNCHANGED <<nextTemp, nextName>>

RemoveReferences(node, name) ==
  IF node.ref = name /\ node.name \notin Decision THEN [node EXCEPT !.ref = 0]
  ELSE node

Attached(id) == {e \in DOMAIN canvas.edges :
                   id \in {canvas.edges[e].from, canvas.edges[e].to}}

DeleteNode(id) ==
  EditKeepingIds(
    [nodes |-> [n \in DOMAIN canvas.nodes \ {id} |->
                  RemoveReferences(canvas.nodes[n], NameOf(canvas, id))],
     edges |-> Drop(canvas.edges, Attached(id))])

\* addEdge leaves out a connection that is already there.
Connect(from, to) ==
  /\ ~\E e \in DOMAIN canvas.edges :
        canvas.edges[e].from = from /\ canvas.edges[e].to = to
  /\ nextTemp' = nextTemp - 1 /\ nextName' = nextName
  /\ Edit([canvas EXCEPT !.edges =
             Put(@, nextTemp, [from |-> from, to |-> to, cond |-> FALSE])])

Reconnect(e, from, to) ==
  EditKeepingIds([canvas EXCEPT !.edges[e].from = from, !.edges[e].to = to])

ChangeCondition(e) ==
  EditKeepingIds([canvas EXCEPT !.edges[e].cond = ~@])

DeleteEdge(e) ==
  EditKeepingIds([canvas EXCEPT !.edges = Drop(@, {e})])

Undo ==
  /\ CanEdit
  /\ LET past == IF frame = None THEN undo ELSE Append(undo, frame)
     IN /\ past # <<>>
        /\ undo' = SubSeq(past, 1, Len(past) - 1)
        /\ redo' = Append(redo, canvas) /\ frame' = None
        /\ ShowCanvas(past[Len(past)])
  /\ Spend("edits", MaxEdits) /\ UNCHANGED <<nextTemp, nextName>>

\* Not counted: there are no more of them than undos.
Redo ==
  /\ CanEdit /\ redo # <<>>
  /\ undo' = Append(undo, canvas) /\ redo' = SubSeq(redo, 1, Len(redo) - 1)
  /\ frame' = frame
  /\ ShowCanvas(redo[Len(redo)])
  /\ UNCHANGED <<nextTemp, nextName, used>>

Editing ==
  \/ DropNode \/ Undo \/ Redo
  \/ \E id \in DOMAIN canvas.nodes :
       \/ DuplicateNode(id) \/ DeleteNode(id)
       \/ \E ref \in Contents \ {Ref(canvas, id), NameOf(canvas, id)} :
            UpdateNode(id, ref) \/ DragNode(id, ref)
  \/ \E from, to \in DOMAIN canvas.nodes : from # to /\ Connect(from, to)
  \/ \E e \in DOMAIN canvas.edges :
       \/ ChangeCondition(e) \/ DeleteEdge(e)
       \/ \E from, to \in DOMAIN canvas.nodes : from # to /\ Reconnect(e, from, to)

-----------------------------------------------------------------------------
(* Saving: what differs between the canvas at the click and the rows known *)
(* is written in six stages, one call after the other.                     *)

NewNodes(c) == {i \in DOMAIN c.nodes : IsTemp(i)}
UpdatedNodes(c) ==
  {i \in DOMAIN c.nodes \cap DOMAIN known.nodes :
     Ref(c, i) # known.nodes[i].ref}
DeletedNodes(c) == DOMAIN known.nodes \ DOMAIN c.nodes
NewEdges(c) == {e \in DOMAIN c.edges : IsTemp(e)}
\* Mutant: a moved source is overlooked.
UpdatedEdgesOfTarget(c) ==
  {e \in DOMAIN c.edges \cap DOMAIN known.edges :
     \/ c.edges[e].to # known.edges[e].target
     \/ c.edges[e].cond # known.edges[e].cond}

UpdatedEdges(c) ==
  {e \in DOMAIN c.edges \cap DOMAIN known.edges :
     \/ c.edges[e].from # known.edges[e].source
     \/ c.edges[e].to # known.edges[e].target
     \/ c.edges[e].cond # known.edges[e].cond}
EdgesOfDeletedNodes(c) ==
  LET gone == {known.nodes[i].name : i \in DeletedNodes(c)}
  IN {e \in DOMAIN known.edges :
        gone \cap {known.edges[e].from, known.edges[e].to} # {}}
EdgesToDelete(c) ==
  (DOMAIN known.edges \ DOMAIN c.edges) \cup EdgesOfDeletedNodes(c)

Stages(c) == <<NewNodes(c), UpdatedNodes(c), EdgesToDelete(c),
               DeletedNodes(c), NewEdges(c), UpdatedEdges(c)>>

Snapshot(c) == [nodes |-> Normalized(c.nodes), edges |-> c.edges]

BeginSave ==
  /\ Spend("saves", MaxSaves)
  /\ saveState' = "saving" /\ fresh' = FALSE
  /\ save' = [snap |-> Snapshot(canvas), was |-> known,
              todo |-> Stages(Snapshot(canvas)),
              made |-> <<>>, edited |-> FALSE]

\* savingRef, which is set and cleared with the state the toolbar shows.
SavingRef == saveState = "saving"

Save ==
  /\ page = "builder" /\ ~readOnly /\ ~SavingRef /\ publishing = "no"
  /\ BeginSave
  /\ UNCHANGED <<stored, ids, page, canvas, known, history, orphan, publishing,
                 status, checking, leaving, unsure>>

\* Mutant: nodes are deleted before their connections.
StageNodesFirst(s) ==
  IF s.todo[4] # {} THEN 4
  ELSE CHOOSE k \in 1..6 : s.todo[k] # {} /\ \A j \in 1..(k-1) : s.todo[j] = {}

\* The call a save makes next: the first stage with something to do.
Stage(s) == CHOOSE k \in 1..6 : s.todo[k] # {} /\ \A j \in 1..(k-1) : s.todo[j] = {}
Done(s) == \A k \in 1..6 : s.todo[k] = {}

RealId(s, id) == IF id \in DOMAIN s.made THEN s.made[id] ELSE id
SnapEdge(s, e) == Link(s.snap, e)

\* Whether the service accepts the call, and the rows it leaves.
EndsStored(s, e) == {SnapEdge(s, e).from, SnapEdge(s, e).to} \subseteq Names(stored.nodes)
Accepts(s, k, i) ==
  /\ stored.status = "draft"
  /\ CASE k = 1 -> StoredRow(NameOf(s.snap, i)) = {}
       [] k = 2 -> StoredRow(NameOf(s.snap, i)) # {}
       [] k = 3 -> i \in DOMAIN stored.edges
       [] k = 4 -> StoredRow(s.was.nodes[i].name) # {}
       [] k = 5 -> EndsStored(s, i)
       [] k = 6 -> i \in DOMAIN stored.edges /\ EndsStored(s, i)

Perform(s, k, i) ==
  stored' =
    CASE k = 1 -> [stored EXCEPT !.nodes = Put(@, nextRow, s.snap.nodes[i])]
      [] k = 2 -> [stored EXCEPT !.nodes =
                     [r \in DOMAIN @ |-> IF r \in StoredRow(NameOf(s.snap, i))
                                         THEN s.snap.nodes[i] ELSE @[r]]]
      [] k = 3 -> [stored EXCEPT !.edges = Drop(@, {i})]
      [] k = 4 -> [stored EXCEPT !.nodes = Drop(@, StoredRow(s.was.nodes[i].name))]
      [] k = 5 -> [stored EXCEPT !.edges = Put(@, nextRow, SnapEdge(s, i))]
      [] k = 6 -> [stored EXCEPT !.edges = Put(@, i, SnapEdge(s, i))]

\* What the builder notes when the call is answered.
Note(s, k, i) ==
  LET edge == s.snap.edges[i]
      real == [edge EXCEPT !.from = RealId(s, @), !.to = RealId(s, @)]
      named == SnapEdge(s, i)
  IN CASE k = 1 -> [known EXCEPT !.nodes = Put(@, nextRow, s.snap.nodes[i])]
       [] k = 2 -> [known EXCEPT !.nodes = Put(@, i, s.snap.nodes[i])]
       [] k = 3 -> [known EXCEPT !.edges = Drop(@, {i})]
       [] k = 4 -> [known EXCEPT !.nodes = Drop(@, {i})]
       [] k = 5 -> [known EXCEPT !.edges =
                      Put(@, nextRow, KnownEdge(real, named.from, named.to))]
       [] k = 6 -> [known EXCEPT !.edges =
                      Put(@, i, KnownEdge(edge, named.from, named.to))]

Advance(s, k, i) ==
  [s EXCEPT !.todo[k] = @ \ {i},
            !.made = IF k \in {1, 5} THEN Put(@, i, nextRow) ELSE @]

TakesRow(k) == nextRow' = IF k \in {1, 5} THEN nextRow + 1 ELSE nextRow

SaveCall ==
  /\ save # None /\ ~Done(save)
  /\ LET k == Stage(save)
     IN \E i \in save.todo[k] :
          /\ Accepts(save, k, i) /\ Perform(save, k, i) /\ TakesRow(k)
          /\ known' = Note(save, k, i)
          /\ save' = Advance(save, k, i)
  /\ UNCHANGED <<nextTemp, nextName, page, canvas, history, saveState, fresh,
                 orphan, publishing, status, checking, leaving, unsure, used>>

\* The finally clause: the ids of the rows replace the temporary ones, on the
\* canvas and in both stacks, but not in the frame that waits for its timer.
Remap(s, c) ==
  [nodes |-> [i \in {RealId(s, j) : j \in DOMAIN c.nodes} |->
                c.nodes[CHOOSE j \in DOMAIN c.nodes : RealId(s, j) = i]],
   edges |-> [i \in {RealId(s, j) : j \in DOMAIN c.edges} |->
                LET e == c.edges[CHOOSE j \in DOMAIN c.edges : RealId(s, j) = i]
                IN [e EXCEPT !.from = RealId(s, @), !.to = RealId(s, @)]]]
RemapAll(s, stack) == [n \in DOMAIN stack |-> Remap(s, stack[n])]

EndSave(state) ==
  /\ saveState' = state /\ save' = None
  /\ canvas' = Remap(save, canvas)
  /\ undo' = RemapAll(save, undo) /\ redo' = RemapAll(save, redo)
  /\ publishing' = IF publishing # "saving" THEN publishing
                   ELSE IF state = "saved" THEN "validate" ELSE "no"
  /\ UNCHANGED <<ids, page, known, frame, fresh, orphan, status, checking, leaving>>

ChangedDuringSave ==
  save.edited \/ Definition(save.snap) # Definition(canvas)

SaveEnds ==
  /\ save # None /\ Done(save)
  /\ EndSave(IF ChangedDuringSave THEN "unsaved" ELSE "saved")
  /\ UNCHANGED <<stored, unsure, used>>

SaveRefused ==
  /\ save # None /\ ~Done(save)
  /\ \E i \in save.todo[Stage(save)] : ~Accepts(save, Stage(save), i)
  /\ EndSave("failed") /\ UNCHANGED <<stored, unsure, used>>

\* A call that did not reach the service, or whose answer did not come back.
SaveUnreached ==
  /\ save # None /\ ~Done(save) /\ Spend("events", MaxEvents)
  /\ EndSave("failed") /\ UNCHANGED <<stored, unsure>>

SaveUnanswered ==
  /\ save # None /\ ~Done(save) /\ Spend("events", MaxEvents)
  /\ LET k == Stage(save)
     IN \E i \in save.todo[k] :
          /\ Accepts(save, k, i) /\ Perform(save, k, i)
          /\ nextRow' = IF k \in {1, 5} THEN nextRow + 1 ELSE nextRow
  /\ unsure' = TRUE
  /\ saveState' = "failed" /\ save' = None
  /\ canvas' = Remap(save, canvas)
  /\ undo' = RemapAll(save, undo) /\ redo' = RemapAll(save, redo)
  /\ publishing' = "no"
  /\ UNCHANGED <<nextTemp, nextName, page, known, frame, fresh, orphan, status,
                 checking, leaving>>

\* What an unmounted builder still does, with the rows it knew.
OrphanCall ==
  /\ orphan # None /\ orphan.save # None /\ ~Done(orphan.save)
  /\ LET s == orphan.save
         k == Stage(s)
     IN \E i \in s.todo[k] :
          IF Accepts(s, k, i)
          THEN /\ Perform(s, k, i) /\ TakesRow(k) /\ unsure' = TRUE
               /\ orphan' = [orphan EXCEPT !.save = Advance(s, k, i)]
          ELSE orphan' = None /\ UNCHANGED <<stored, nextRow, unsure>>
  /\ UNCHANGED <<nextTemp, nextName, page, builderVars, used>>

OrphanEnds ==
  /\ orphan # None /\ (orphan.save # None => Done(orphan.save))
  /\ orphan' = None
  /\ \/ UNCHANGED <<stored, unsure>>
     \/ /\ orphan.publishing /\ unsure' = TRUE
        /\ stored' = [stored EXCEPT !.status = "published"]
  /\ UNCHANGED <<ids, page, builderVars, used>>

-----------------------------------------------------------------------------
(* Validation judges the canvas, saved or not.                             *)

Busy == SavingRef \/ publishing # "no"

Validate ==
  /\ page = "builder" /\ check = None /\ ~Busy /\ Spend("events", MaxEvents)
  /\ check' = [of |-> Definition(canvas), current |-> TRUE]
  /\ verdict' = None
  /\ UNCHANGED <<stored, ids, page, canvas, known, history, saving, orphan,
                 publishing, status, leaving, unsure>>

\* validateCanvas answers nothing for a request that is no longer current.
Validated ==
  /\ check # None /\ check' = None
  /\ verdict' = IF check.current THEN check.of ELSE verdict
  /\ UNCHANGED <<stored, ids, page, canvas, known, history, saving, orphan,
                 publishing, status, leaving, unsure, used>>

CloseValidation ==
  /\ verdict # None /\ verdict' = None
  /\ UNCHANGED <<stored, ids, page, canvas, known, history, saving, orphan,
                 publishing, status, check, leaving, unsure, used>>

-----------------------------------------------------------------------------
(* Publication: preflight on the canvas, save, validation and publication  *)
(* by the service, and a second look at what it did.                       *)

PublishStep ==
  UNCHANGED <<ids, page, canvas, known, history, orphan, leaving>>

\* A version published before is published again when no version is live.
Publish ==
  /\ page = "builder" /\ status # "published" /\ ~Busy
  /\ publishing' = "preflight"
  /\ check' = IF check = None THEN None ELSE [check EXCEPT !.current = FALSE]
  /\ PublishStep /\ UNCHANGED <<stored, saving, status, verdict, unsure, used>>

Judged(fit, next) ==
  /\ publishing' = IF fit THEN next ELSE "no"
  /\ verdict' = IF fit THEN verdict ELSE Definition(canvas)

Preflight ==
  /\ publishing = "preflight"
  /\ \E fit \in BOOLEAN :
       IF fit /\ saveState \in {"unsaved", "failed"}
       THEN BeginSave /\ Judged(fit, "saving")
       ELSE Judged(fit, "validate") /\ UNCHANGED <<saving, used>>
  /\ PublishStep /\ UNCHANGED <<stored, status, check, unsure>>

ServerValidates ==
  /\ publishing = "validate"
  /\ \E fit \in BOOLEAN : Judged(fit, "publish")
  /\ PublishStep /\ UNCHANGED <<stored, saving, status, check, unsure, used>>

PublishCall ==
  /\ publishing = "publish" /\ publishing' = "confirm"
  /\ \/ stored' = [stored EXCEPT !.status = "published"] /\ UNCHANGED used
     \/ Spend("events", MaxEvents) /\ UNCHANGED stored
  /\ PublishStep /\ UNCHANGED <<saving, status, checking, unsure>>

\* publishWithSchedule believes getWorkflow, whatever the call answered.
ConfirmPublication ==
  /\ publishing = "confirm" /\ publishing' = "no"
  /\ \/ /\ status' = IF stored.status = "published" THEN "published" ELSE status
        /\ UNCHANGED used
     \/ Spend("events", MaxEvents) /\ UNCHANGED status
  /\ PublishStep /\ UNCHANGED <<stored, saving, checking, unsure>>

\* createDraftVersion copies the rows, and the page is loaded again.  Whatever
\* publishes the version that is left goes on without the model.
NewRow(old) ==
  nextRow + Cardinality({r \in DOMAIN stored.nodes \cup DOMAIN stored.edges : r < old})
Copied(rows) ==
  [r \in {NewRow(old) : old \in DOMAIN rows} |->
     rows[CHOOSE old \in DOMAIN rows : NewRow(old) = r]]
EditWorkflow ==
  /\ page = "builder" /\ readOnly /\ Spend("events", MaxEvents)
  /\ stored' = [nodes |-> Copied(stored.nodes), edges |-> Copied(stored.edges),
                status |-> "draft"]
  /\ nextRow' = nextRow + Cardinality(DOMAIN stored.nodes \cup DOMAIN stored.edges)
  /\ page' = "loading" /\ orphan = None /\ UNCHANGED orphan
  /\ canvas' = Empty /\ known' = Empty /\ status' = "draft" /\ Idle
  /\ UNCHANGED <<nextTemp, nextName, unsure>>

-----------------------------------------------------------------------------
(* Ways out of the builder.                                                *)

HasUnsavedChanges == saveState \in {"unsaved", "failed"}

NavigateWithGuard ==
  /\ page = "builder" /\ ~leaving
  /\ IF HasUnsavedChanges
     THEN leaving' = TRUE
          /\ UNCHANGED <<stored, ids, page, canvas, known, history, saving,
                         orphan, publishing, status, checking, unsure, used>>
     ELSE Spend("events", MaxEvents) /\ Unmount("left")

ConfirmLeave == leaving /\ Spend("events", MaxEvents) /\ Unmount("left")

StayInBuilder ==
  /\ leaving /\ leaving' = FALSE
  /\ UNCHANGED <<stored, ids, page, canvas, known, history, saving, orphan,
                 publishing, status, checking, unsure, used>>

\* The page is loaded again after the details of the workflow were saved or
\* another version was deleted.
Refresh ==
  /\ page = "builder" /\ Spend("events", MaxEvents) /\ Unmount("loading")

SelectVersion ==
  /\ page = "builder" /\ saveState = "saved"
  /\ Spend("events", MaxEvents) /\ Unmount("loading")

OpenBuilder ==
  /\ page = "left" /\ page' = "loading"
  /\ UNCHANGED <<stored, ids, builderVars, orphan, unsure, used>>

-----------------------------------------------------------------------------
\* Rows made by an earlier builder or without one.
FirstRows(start) ==
  [nodes |-> [r \in DOMAIN start.says |-> [name |-> r, ref |-> start.says[r]]],
   edges |-> [r \in {Len(start.says) + 1} |-> [from |-> 1, to |-> 2, cond |-> FALSE]],
   status |-> start.status]

Init ==
  /\ \E start \in Starts :
       /\ stored = FirstRows(start) /\ nextRow = Len(start.says) + 2
       /\ used = [edits |-> 0, saves |-> 0, events |-> start.spent]
  /\ nextTemp = -MaxNodes - 1 /\ nextName = 1
  /\ page = "loading" /\ canvas = Empty /\ known = Empty
  /\ undo = <<>> /\ redo = <<>> /\ frame = None
  /\ saveState = "saved" /\ save = None /\ orphan = None
  /\ publishing = "no" /\ status = "draft" /\ check = None /\ verdict = None
  /\ leaving = FALSE /\ fresh = TRUE /\ unsure = FALSE

Calls ==
  \/ SaveCall \/ SaveEnds \/ SaveRefused
  \/ Preflight \/ ServerValidates \/ PublishCall \/ ConfirmPublication

Next ==
  \/ Load \/ HistoryTimer \/ Editing
  \/ Save \/ Calls \/ SaveUnreached \/ SaveUnanswered \/ OrphanCall \/ OrphanEnds
  \/ Validate \/ Validated \/ CloseValidation \/ Publish \/ EditWorkflow
  \/ NavigateWithGuard \/ ConfirmLeave \/ StayInBuilder \/ Refresh
  \/ SelectVersion \/ OpenBuilder

Spec == Init /\ [][Next]_vars

-----------------------------------------------------------------------------
(* Properties.                                                             *)

SaveStates == {"saved", "unsaved", "saving", "failed"}
Publishing == {"no", "preflight", "saving", "validate", "publish", "confirm"}

\* Every variable has its type, and a save is under way only while the toolbar
\* says "Saving".
TypeOK ==
  /\ {stored.status, status} \subseteq {"draft", "published", "retired"}
  /\ nextRow \in Nat /\ -nextTemp \in Nat /\ nextName \in Nat
  /\ page \in {"loading", "builder", "left"}
  /\ \A n \in DOMAIN undo : DOMAIN undo[n] = {"nodes", "edges"}
  /\ saveState \in SaveStates /\ (save # None => saveState = "saving")
  /\ publishing \in Publishing
  /\ leaving \in BOOLEAN /\ fresh \in BOOLEAN /\ unsure \in BOOLEAN

\* Rows of this version that a save of this builder deleted and the canvas
\* shows: undo or redo brought them back, or a connection was moved off a node
\* that the same save deleted with the connections it knew of the node.  A later
\* save takes them for neither new nor changed (lines 1173-1204).
ForgottenNodes == {i \in DOMAIN canvas.nodes :
                     ~IsTemp(i) /\ i \notin DOMAIN known.nodes}
ForgottenEdges == {e \in DOMAIN canvas.edges :
                     ~IsTemp(e) /\ e \notin DOMAIN known.edges}
Remembered == [nodes |-> Drop(canvas.nodes, ForgottenNodes),
               edges |-> Drop(canvas.edges, ForgottenEdges)]

\* What the builder makes of the rows until it saves.
LoadedDefinition ==
  [nodes |-> ByName(Normalized(Cleaned(stored.nodes))), links |-> Tally(stored.edges)]

\* The rows are what is shown, exactly once this builder has saved, and up to
\* the conversions of the load before.
StoredIsShown ==
  Definition(Remembered) = IF fresh THEN LoadedDefinition ELSE StoredDefinition

\* What the toolbar calls "Saved" is stored as it is shown, whatever was edited,
\* undone and saved in between, with two exceptions: the forgotten rows, and
\* before the first save of a builder the contents that its load converted.
SavedUpToForgotten ==
  page = "builder" /\ saveState = "saved" /\ ~unsure => StoredIsShown

\* At no moment of a save, and after none that failed half way, does the
\* service hold a connection of a node it does not hold: it deletes a node
\* without its connections, so the order of the calls has to see to it.
StoredEdgesAttached ==
  ~unsure => \A e \in DOMAIN stored.edges :
               {stored.edges[e].from, stored.edges[e].to} \subseteq Names(stored.nodes)

\* The verdict of the open dialog is about the definition on the canvas: an
\* edit made while the service judged discards the verdict.
VerdictIsCurrent == verdict # None => verdict = Definition(canvas)

\* Whoever publishes gets the canvas they looked at, with the same exceptions:
\* nothing is edited between the preflight and the answer, and everything edited
\* was saved.  A canvas that shows converted contents counts as saved (line 1579).
PublishedIsShown == readOnly /\ ~unsure => StoredIsShown

=============================================================================
