----------------------- MODULE WorkflowEditor_proofs -----------------------
(***************************************************************************)
(* TLAPS proofs about the workflow builder, for any length of the history, *)
(* any number of edits and saves, and whatever else happens to it: no      *)
(* save, however it ends, leaves a connection in the service whose node is *)
(* not there; what is called saved is stored as it is shown, and so is     *)
(* what is published; and a verdict is about the definition on the canvas. *)
(*                                                                         *)
(* Ids come and go: a save replaces temporary ids by those of rows.  The   *)
(* proofs rest on a naming N of the ids, which no step ever contradicts,   *)
(* so that canvases, the history, rows and saves can be compared.          *)
(***************************************************************************)
EXTENDS WorkflowEditor, FiniteSetTheorems, SequenceTheorems, WellFoundedInduction, TLAPS

Ends(edge) == {edge.from, edge.to}

Rows == DOMAIN stored.nodes \cup DOMAIN stored.edges

\* Rows are numbered as the service creates them.
Shapes ==
  /\ DOMAIN stored = {"nodes", "edges", "status"} /\ DOMAIN known = {"nodes", "edges"}
  /\ nextRow \in Nat \ {0} /\ Rows \subseteq 1..(nextRow - 1)

\* A save, or a publication, belongs to a builder that is there.
AtWork ==
  /\ publishing # "no" \/ save # None => page = "builder"
  /\ save # None => /\ DOMAIN save = {"snap", "was", "todo", "made", "edited"}
                    /\ DOMAIN save.todo = 1..6
                    /\ save.todo[2] \subseteq DOMAIN save.snap.nodes

\* The builder knows of every connection that is stored, and where it ends.
ConnectionsKnown ==
  page = "builder" /\ ~unsure =>
    \A e \in DOMAIN stored.edges :
      e \in DOMAIN known.edges /\ Ends(known.edges[e]) = Ends(stored.edges[e])

\* While a node waits to be deleted so does every connection of it.
DeletionPrepared ==
  save # None /\ ~unsure =>
    \A i \in save.todo[4], e \in DOMAIN stored.edges :
      save.was.nodes[i].name \in Ends(stored.edges[e]) => e \in save.todo[3]

Sound ==
  /\ Shapes /\ AtWork /\ ConnectionsKnown /\ DeletionPrepared
  /\ StoredEdgesAttached

-----------------------------------------------------------------------------
LEMMA InitRows ==
  ASSUME Init
  PROVE  \E size \in 2..MaxNodes :
           /\ DOMAIN stored = {"nodes", "edges", "status"}
           /\ DOMAIN stored.nodes = 1..size /\ DOMAIN stored.edges = {size + 1}
           /\ \A r \in 1..size : /\ DOMAIN stored.nodes[r] = {"name", "ref"}
                                 /\ stored.nodes[r].name = r
           /\ stored.edges[size + 1] = [from |-> 1, to |-> 2, cond |-> FALSE]
           /\ nextRow = size + 2
<1>1. PICK start \in Starts : stored = FirstRows(start) /\ nextRow = Len(start.says) + 2
  BY DEF Init
<1>2. PICK size : size = Len(start.says)
  OBVIOUS
<1>3. size \in 2..MaxNodes /\ DOMAIN start.says = 1..size
  BY <1>2, ContentsAssumption
<1>4. /\ DOMAIN stored = {"nodes", "edges", "status"}
      /\ stored.nodes = [r \in 1..size |-> [name |-> r, ref |-> start.says[r]]]
      /\ stored.edges = [r \in {size + 1} |-> [from |-> 1, to |-> 2, cond |-> FALSE]]
  BY <1>1, <1>2, <1>3 DEF FirstRows
<1> QED
  BY <1>1, <1>2, <1>3, <1>4

LEMMA InitSound == Init => Sound
<1> SUFFICES ASSUME Init PROVE Sound
  OBVIOUS
<1>1. PICK size \in 2..MaxNodes :
        /\ DOMAIN stored = {"nodes", "edges", "status"}
        /\ DOMAIN stored.nodes = 1..size /\ DOMAIN stored.edges = {size + 1}
        /\ \A r \in 1..size : stored.nodes[r].name = r
        /\ stored.edges[size + 1] = [from |-> 1, to |-> 2, cond |-> FALSE]
        /\ nextRow = size + 2
  BY InitRows
<1>2. size \in Nat /\ size >= 2
  BY EditorAssumption
<1>3. Shapes
  <2>1. nextRow \in Nat \ {0} /\ 1..size \cup {size + 1} \subseteq 1..(nextRow - 1)
    BY <1>1, <1>2
  <2>2. DOMAIN known = {"nodes", "edges"}
    BY DEF Init, Empty
  <2> QED
    BY <1>1, <2>1, <2>2 DEF Shapes, Rows
<1>4. StoredEdgesAttached
  <2>1. /\ \A e \in DOMAIN stored.edges : stored.edges[e].from = 1 /\ stored.edges[e].to = 2
        /\ 1 \in DOMAIN stored.nodes /\ 2 \in DOMAIN stored.nodes
        /\ stored.nodes[1].name = 1 /\ stored.nodes[2].name = 2
    BY <1>1, <1>2
  <2> QED
    BY <2>1 DEF StoredEdgesAttached, Names
<1> QED
  BY <1>3, <1>4 DEF Init, Sound, AtWork, ConnectionsKnown, DeletionPrepared

LEMMA Parts ==
  Sound => /\ Shapes /\ AtWork /\ ConnectionsKnown /\ DeletionPrepared
           /\ StoredEdgesAttached
BY DEF Sound

-----------------------------------------------------------------------------
(* Steps that make no call.                                                *)

\* The rows stay, and a save has the same to do or ends.
LEMMA AroundSound ==
  ASSUME Sound, UNCHANGED <<stored, nextRow, known, unsure, page>>,
         save' # None => /\ save # None /\ DOMAIN save' = DOMAIN save
                         /\ save'.todo = save.todo /\ save'.was = save.was
                         /\ save'.snap = save.snap,
         publishing' # "no" => page = "builder"
  PROVE  Sound'
BY DEF Sound, Shapes, Rows, AtWork, ConnectionsKnown, DeletionPrepared,
   StoredEdgesAttached

LEMMA MarksSave ==
  ASSUME Sound, MarkUnsaved, save' # None
  PROVE  /\ save # None /\ DOMAIN save' = DOMAIN save
         /\ save'.todo = save.todo /\ save'.was = save.was /\ save'.snap = save.snap
BY DEF Sound, AtWork, MarkUnsaved

LEMMA EditingSound ==
  ASSUME Sound, Editing
  PROVE  Sound'
<1>1. /\ CanEdit /\ MarkUnsaved
      /\ UNCHANGED <<stored, nextRow, page, known, publishing, unsure>>
  BY DEF Editing, DropNode, AddNode, Undo, Redo, DuplicateNode, DeleteNode, UpdateNode,
     DragNode, Connect, ChangeCondition, DeleteEdge, Reconnect, EditKeepingIds, Edit,
     ShowCanvas
<1> QED
  BY <1>1, MarksSave, AroundSound DEF CanEdit

LEMMA SaveOverSound ==
  ASSUME Sound, SaveEnds \/ SaveRefused \/ SaveUnreached
  PROVE  Sound'
<1>1. \E state : EndSave(state)
  BY DEF SaveEnds, SaveRefused, SaveUnreached
<1>2. save # None /\ UNCHANGED <<stored, unsure>>
  BY DEF SaveEnds, SaveRefused, SaveUnreached
<1>3. save' = None /\ UNCHANGED <<nextRow, page, known>>
  BY <1>1 DEF EndSave, ids
<1> QED
  BY <1>2, <1>3, Parts, AroundSound DEF AtWork

LEMMA WaitingSound ==
  ASSUME Sound,
         \/ HistoryTimer \/ Validate \/ Validated \/ CloseValidation \/ Publish
         \/ ServerValidates \/ ConfirmPublication \/ StayInBuilder
  PROVE  Sound'
<1>1. UNCHANGED <<stored, nextRow, known, unsure, page, save>>
  BY DEF HistoryTimer, Validate, Validated, CloseValidation, Publish, ServerValidates,
     ConfirmPublication, StayInBuilder, PublishStep, ids, saving
<1>2. publishing' # "no" => publishing # "no" \/ page = "builder"
  BY DEF HistoryTimer, Validate, Validated, CloseValidation, Publish, ServerValidates,
     ConfirmPublication, StayInBuilder, Judged
<1> QED
  BY <1>1, <1>2, Parts, AroundSound DEF AtWork

LEMMA PublishCallSound ==
  ASSUME Sound, PublishCall
  PROVE  Sound'
<1>1. UNCHANGED <<nextRow, known, unsure, page, save>> /\ page = "builder"
  BY Parts DEF PublishCall, PublishStep, ids, saving, AtWork
<1>2. UNCHANGED <<stored.nodes, stored.edges>> /\ DOMAIN stored' = DOMAIN stored
  BY Parts DEF PublishCall, Shapes
<1> QED
  BY <1>1, <1>2 DEF Sound, Shapes, Rows, AtWork, ConnectionsKnown, DeletionPrepared,
     StoredEdgesAttached

-----------------------------------------------------------------------------
(* A save.                                                                 *)

\* Whoever deletes a node deletes its connections first, and knows them all.
LEMMA BeginSaveSound ==
  ASSUME Sound, BeginSave, page = "builder",
         UNCHANGED <<stored, nextRow, known, unsure, page>>
  PROVE  Sound'
<1>0. PICK c : c = Snapshot(canvas)
  OBVIOUS
<1> DEFINE s == [snap |-> c, was |-> known, todo |-> Stages(c),
                 made |-> <<>>, edited |-> FALSE]
<1>1. save' = s
  BY <1>0 DEF BeginSave
<1>2. /\ DOMAIN Stages(c) = 1..6
      /\ Stages(c)[3] = EdgesToDelete(c)
      /\ Stages(c)[4] = DeletedNodes(c)
      /\ Stages(c)[2] \subseteq DOMAIN c.nodes
  BY DEF Stages, UpdatedNodes
<1>3. /\ DOMAIN s = {"snap", "was", "todo", "made", "edited"}
      /\ s.was = known /\ s.todo = Stages(c) /\ s.snap = c
  OBVIOUS
<1> HIDE DEF s
<1>4. ASSUME ~unsure,
             NEW i \in DeletedNodes(c), NEW e \in DOMAIN stored.edges,
             known.nodes[i].name \in Ends(stored.edges[e])
      PROVE  e \in EdgesToDelete(c)
  <2>1. e \in DOMAIN known.edges /\ Ends(known.edges[e]) = Ends(stored.edges[e])
    BY <1>4, Parts DEF ConnectionsKnown
  <2>2. e \in EdgesOfDeletedNodes(c)
    BY <1>4, <2>1 DEF EdgesOfDeletedNodes, Ends
  <2> QED
    BY <2>2 DEF EdgesToDelete
<1>5. DeletionPrepared'
  BY <1>1, <1>2, <1>3, <1>4 DEF DeletionPrepared
<1>6. AtWork'
  BY <1>1, <1>2, <1>3 DEF AtWork
<1> QED
  BY <1>5, <1>6 DEF Sound, Shapes, Rows, ConnectionsKnown, StoredEdgesAttached

\* The next call is of the first stage that is not over.
LEMMA StageFirst ==
  ASSUME NEW s, ~Done(s)
  PROVE  /\ Stage(s) \in 1..6 /\ s.todo[Stage(s)] # {}
         /\ \A j \in 1..(Stage(s) - 1) : s.todo[j] = {}
<1> DEFINE First(k) == s.todo[k] # {} /\ \A j \in 1..(k-1) : s.todo[j] = {}
<1>1. \E k \in 1..6 : First(k)
  <2>1. CASE First(1)
    BY <2>1
  <2>2. CASE First(2)
    BY <2>2
  <2>3. CASE First(3)
    BY <2>3
  <2>4. CASE First(4)
    BY <2>4
  <2>5. CASE First(5)
    BY <2>5
  <2>6. CASE First(6)
    BY <2>6
  <2> QED
    BY <2>1, <2>2, <2>3, <2>4, <2>5, <2>6 DEF Done
<1>2. Stage(s) = CHOOSE k \in 1..6 : First(k)
  BY DEF Stage
<1> HIDE DEF First
<1>3. Stage(s) \in 1..6 /\ First(Stage(s))
  BY <1>1, <1>2
<1> QED
  BY <1>3 DEF First

\* The rows after a call.
LEMMA PerformRows ==
  ASSUME Shapes, NEW s, NEW k \in 1..6, NEW i, Accepts(s, k, i), Perform(s, k, i),
         TakesRow(k)
  PROVE  /\ DOMAIN stored' = {"nodes", "edges", "status"}
         /\ nextRow' \in Nat \ {0} /\ Rows' \subseteq 1..(nextRow' - 1)
<1>1. CASE k = 1
  BY <1>1 DEF Shapes, Rows, Perform, TakesRow, Put
<1>2. CASE k = 2
  BY <1>2 DEF Shapes, Rows, Perform, TakesRow
<1>3. CASE k = 3
  BY <1>3 DEF Shapes, Rows, Perform, TakesRow, Drop
<1>4. CASE k = 4
  BY <1>4 DEF Shapes, Rows, Perform, TakesRow, Drop
<1>5. CASE k = 5
  BY <1>5 DEF Shapes, Rows, Perform, TakesRow, Put
<1>6. CASE k = 6
  BY <1>6 DEF Shapes, Rows, Perform, TakesRow, Put, Accepts
<1> QED
  BY <1>1, <1>2, <1>3, <1>4, <1>5, <1>6

LEMMA AdvanceFacts ==
  ASSUME NEW s, NEW k \in 1..6, NEW i,
         DOMAIN s = {"snap", "was", "todo", "made", "edited"}, DOMAIN s.todo = 1..6
  PROVE  /\ DOMAIN Advance(s, k, i) = DOMAIN s /\ DOMAIN Advance(s, k, i).todo = 1..6
         /\ Advance(s, k, i).was = s.was /\ Advance(s, k, i).snap = s.snap
         /\ Advance(s, k, i).todo[k] = s.todo[k] \ {i}
         /\ \A j \in (1..6) \ {k} : Advance(s, k, i).todo[j] = s.todo[j]
BY DEF Advance

\* What the call of stage k does to nodes and connections: none but the fourth
\* takes a node away, and the last two attach a connection to nodes that are there.
LEMMA PerformNames ==
  ASSUME Shapes, NEW s, NEW k \in 1..6, NEW i, Accepts(s, k, i), Perform(s, k, i),
         k # 4, k = 2 => i \in DOMAIN s.snap.nodes
  PROVE  Names(stored.nodes) \subseteq Names(stored'.nodes)
<1>1. CASE k = 1
  <2>1. stored'.nodes = Put(stored.nodes, nextRow, s.snap.nodes[i])
    BY <1>1 DEF Perform, Shapes
  <2>2. nextRow \notin DOMAIN stored.nodes
    BY DEF Shapes, Rows
  <2> QED
    BY <2>1, <2>2 DEF Names, Put
<1>2. CASE k = 2
  <2> DEFINE n == NameOf(s.snap, i)
  <2>1. stored'.nodes = [r \in DOMAIN stored.nodes |->
                           IF r \in StoredRow(n) THEN s.snap.nodes[i] ELSE stored.nodes[r]]
    BY <1>2 DEF Perform, Shapes
  <2>3. s.snap.nodes[i].name = n
    BY <1>2 DEF NameOf
  <2> HIDE DEF n
  <2>4. \A r \in DOMAIN stored.nodes : stored'.nodes[r].name = stored.nodes[r].name
    BY <2>1, <2>3 DEF StoredRow
  <2> QED
    BY <2>1, <2>4 DEF Names
<1>3. CASE k \in {3, 5, 6}
  BY <1>3 DEF Perform, Shapes
<1> QED
  BY <1>1, <1>2, <1>3

LEMMA PerformEdges ==
  ASSUME Shapes, NEW s, NEW k \in 1..6, NEW i, Accepts(s, k, i), Perform(s, k, i)
  PROVE  /\ k \in {1, 2, 4} => stored'.edges = stored.edges
         /\ k = 3 => stored'.edges = Drop(stored.edges, {i})
         /\ k = 5 => stored'.edges = Put(stored.edges, nextRow, SnapEdge(s, i))
         /\ k = 6 => stored'.edges = Put(stored.edges, i, SnapEdge(s, i))
         /\ k \in {3, 5, 6} => stored'.nodes = stored.nodes
         /\ k = 4 => stored'.nodes = Drop(stored.nodes, StoredRow(s.was.nodes[i].name))
BY DEF Perform, Shapes

LEMMA NoteEdges ==
  ASSUME Shapes, NEW s, NEW k \in 1..6, NEW i
  PROVE  /\ DOMAIN Note(s, k, i) = {"nodes", "edges"}
         /\ k \in {1, 2, 4} => Note(s, k, i).edges = known.edges
         /\ k = 3 => Note(s, k, i).edges = Drop(known.edges, {i})
         /\ k = 5 => \E edge : /\ Note(s, k, i).edges = Put(known.edges, nextRow, edge)
                               /\ Ends(edge) = Ends(SnapEdge(s, i))
         /\ k = 6 => \E edge : /\ Note(s, k, i).edges = Put(known.edges, i, edge)
                               /\ Ends(edge) = Ends(SnapEdge(s, i))
<1> DEFINE named == SnapEdge(s, i)
           edge == s.snap.edges[i]
           real == [edge EXCEPT !.from = RealId(s, @), !.to = RealId(s, @)]
<1>1. ASSUME NEW x
      PROVE  Ends(KnownEdge(x, named.from, named.to)) = Ends(named)
  BY DEF KnownEdge, Ends
<1> HIDE DEF named
<1>2. CASE k \in {1, 2, 3, 4}
  BY <1>2 DEF Note, Shapes
<1>3. CASE k = 5
  <2>1. Note(s, k, i) = [known EXCEPT !.edges =
                           Put(@, nextRow, KnownEdge(real, named.from, named.to))]
    BY <1>3 DEF Note, named
  <2> HIDE DEF real
  <2> QED
    BY <1>1, <1>3, <2>1 DEF Shapes, named
<1>4. CASE k = 6
  <2>1. Note(s, k, i) = [known EXCEPT !.edges =
                           Put(@, i, KnownEdge(edge, named.from, named.to))]
    BY <1>4 DEF Note, named
  <2> QED
    BY <1>1, <1>4, <2>1 DEF Shapes, named
<1> QED
  BY <1>2, <1>3, <1>4

\* A call of a save that is answered.
LEMMA SaveCallSound ==
  ASSUME Sound, SaveCall
  PROVE  Sound'
<1> DEFINE k == Stage(save)
<1>1. /\ Shapes /\ AtWork /\ save # None /\ ~Done(save)
      /\ UNCHANGED <<page, publishing, unsure>> /\ page = "builder"
  BY Parts DEF SaveCall, AtWork
<1>2. /\ k \in 1..6 /\ save.todo[k] # {} /\ \A j \in 1..(k - 1) : save.todo[j] = {}
  BY <1>1, StageFirst
<1> HIDE DEF k
<1>3. PICK i \in save.todo[k] :
        /\ Accepts(save, k, i) /\ Perform(save, k, i) /\ TakesRow(k)
        /\ known' = Note(save, k, i) /\ save' = Advance(save, k, i)
  BY DEF SaveCall, k
<1>4. Shapes'
  BY <1>1, <1>2, <1>3, PerformRows, NoteEdges DEF Shapes
<1>5. /\ DOMAIN save' = DOMAIN save /\ DOMAIN save'.todo = 1..6
      /\ save'.was = save.was /\ save'.snap = save.snap
      /\ save'.todo[k] = save.todo[k] \ {i}
      /\ \A j \in (1..6) \ {k} : save'.todo[j] = save.todo[j]
  BY <1>1, <1>2, <1>3, AdvanceFacts DEF AtWork
<1>6. AtWork'
  BY <1>1, <1>5, <1>2 DEF AtWork
<1>7. CASE unsure
  BY <1>1, <1>4, <1>6, <1>7
  DEF Sound, ConnectionsKnown, DeletionPrepared, StoredEdgesAttached
<1>8. CASE ~unsure
  <2>1. /\ \A e \in DOMAIN stored.edges :
             /\ e \in DOMAIN known.edges /\ Ends(known.edges[e]) = Ends(stored.edges[e])
             /\ Ends(stored.edges[e]) \subseteq Names(stored.nodes)
        /\ \A j \in save.todo[4], e \in DOMAIN stored.edges :
             save.was.nodes[j].name \in Ends(stored.edges[e]) => e \in save.todo[3]
    BY <1>1, <1>8, Parts
    DEF ConnectionsKnown, DeletionPrepared, StoredEdgesAttached, Ends
  <2>2. k # 4 => Names(stored.nodes) \subseteq Names(stored'.nodes)
    BY <1>1, <1>2, <1>3, PerformNames DEF AtWork
  <2>3. /\ k \in {1, 2, 4} => stored'.edges = stored.edges
        /\ k = 3 => stored'.edges = Drop(stored.edges, {i})
        /\ k = 5 => stored'.edges = Put(stored.edges, nextRow, SnapEdge(save, i))
        /\ k = 6 => stored'.edges = Put(stored.edges, i, SnapEdge(save, i))
        /\ k = 4 => stored'.nodes = Drop(stored.nodes, StoredRow(save.was.nodes[i].name))
    BY <1>1, <1>2, <1>3, PerformEdges
  <2>4. k \in {5, 6} => Ends(SnapEdge(save, i)) \subseteq Names(stored.nodes)
    <3>1. CASE k = 5
      BY <1>3, <3>1 DEF Accepts, EndsStored, Ends
    <3>2. CASE k = 6
      BY <1>3, <3>2 DEF Accepts, EndsStored, Ends
    <3> QED
      BY <3>1, <3>2
  <2> DEFINE Fits(e) ==
        /\ e \in DOMAIN known'.edges /\ Ends(known'.edges[e]) = Ends(stored'.edges[e])
        /\ Ends(stored'.edges[e]) \subseteq Names(stored'.nodes)
        /\ \A j \in save'.todo[4] :
             save.was.nodes[j].name \in Ends(stored'.edges[e]) => e \in save'.todo[3]
  <2>5. ASSUME NEW e \in DOMAIN stored'.edges PROVE Fits(e)
    <3>1. CASE k \in {1, 2}
      <4>1. /\ known'.edges = known.edges /\ stored'.edges = stored.edges
            /\ save'.todo[3] = save.todo[3] /\ save'.todo[4] = save.todo[4]
        BY <1>1, <1>2, <1>3, <1>5, <2>3, <3>1, NoteEdges
      <4> QED
        BY <2>1, <2>2, <3>1, <4>1
    <3>2. CASE k = 3
      <4>1. known'.edges = Drop(known.edges, {i}) /\ stored'.edges = Drop(stored.edges, {i})
        BY <1>1, <1>2, <1>3, <2>3, <3>2, NoteEdges
      <4>2. /\ e \in DOMAIN stored.edges /\ e # i /\ stored'.edges[e] = stored.edges[e]
            /\ e \in DOMAIN known'.edges /\ known'.edges[e] = known.edges[e]
        BY <2>1, <4>1 DEF Drop
      <4>3. save'.todo[3] = save.todo[3] \ {i} /\ save'.todo[4] = save.todo[4]
        BY <1>5, <3>2
      <4> QED
        BY <2>1, <2>2, <3>2, <4>2, <4>3
    <3>3. CASE k = 4
      <4>1. /\ known'.edges = known.edges /\ stored'.edges = stored.edges
            /\ stored'.nodes = Drop(stored.nodes, StoredRow(save.was.nodes[i].name))
        BY <1>1, <1>2, <1>3, <2>3, <3>3, NoteEdges
      <4>2. save.todo[3] = {} /\ i \in save.todo[4]
        BY <1>2, <1>3, <3>3
      <4>3. save.was.nodes[i].name \notin Ends(stored.edges[e])
        BY <2>1, <4>1, <4>2
      <4>4. \A n \in Names(stored.nodes) :
              n # save.was.nodes[i].name => n \in Names(stored'.nodes)
        BY <4>1 DEF Names, Drop, StoredRow
      <4>5. save'.todo[3] = {} /\ save'.todo[4] \subseteq save.todo[4]
        BY <1>5, <3>3, <4>2
      <4> QED
        BY <2>1, <4>1, <4>2, <4>3, <4>4, <4>5
    <3>4. CASE k \in {5, 6}
      <4>1. PICK row, edge :
              /\ stored'.edges = Put(stored.edges, row, SnapEdge(save, i))
              /\ known'.edges = Put(known.edges, row, edge)
              /\ Ends(edge) = Ends(SnapEdge(save, i))
        BY <1>1, <1>2, <1>3, <2>3, <3>4, NoteEdges
      <4>2. save.todo[4] = {} /\ save'.todo[4] = {}
        BY <1>2, <1>5, <3>4
      <4>3. CASE e = row
        BY <2>2, <2>4, <3>4, <4>1, <4>2, <4>3 DEF Put
      <4>4. CASE e # row
        <5>1. e \in DOMAIN stored.edges /\ stored'.edges[e] = stored.edges[e]
          BY <4>1, <4>4 DEF Put
        <5>2. e \in DOMAIN known'.edges /\ known'.edges[e] = known.edges[e]
          BY <2>1, <4>1, <4>4, <5>1 DEF Put
        <5> QED
          BY <2>1, <2>2, <3>4, <4>2, <5>1, <5>2
      <4> QED
        BY <4>3, <4>4
    <3> QED
      BY <1>2, <3>1, <3>2, <3>3, <3>4
  <2>6. ConnectionsKnown' /\ StoredEdgesAttached' /\ DeletionPrepared'
    BY <1>5, <2>5 DEF ConnectionsKnown, StoredEdgesAttached, DeletionPrepared, Ends
  <2> QED
    BY <1>4, <1>6, <2>6 DEF Sound
<1> QED
  BY <1>7, <1>8

LEMMA SaveSound ==
  ASSUME Sound, Save \/ Preflight
  PROVE  Sound'
<1>1. UNCHANGED <<stored, nextRow, known, unsure, page>> /\ page = "builder"
  BY Parts DEF Save, Preflight, PublishStep, ids, AtWork
<1>2. BeginSave \/ UNCHANGED save
  BY DEF Save, Preflight, saving
<1> QED
  BY <1>1, <1>2, BeginSaveSound, AroundSound

\* A call that was not answered leaves the builder in doubt.
LEMMA SaveUnansweredSound ==
  ASSUME Sound, SaveUnanswered
  PROVE  Sound'
<1>1. Shapes /\ Stage(save) \in 1..6
  BY Parts, StageFirst DEF SaveUnanswered
<1>2. PICK i \in save.todo[Stage(save)] :
        /\ Accepts(save, Stage(save), i) /\ Perform(save, Stage(save), i)
        /\ TakesRow(Stage(save))
  BY DEF SaveUnanswered, TakesRow
<1>3. Shapes'
  BY <1>1, <1>2, PerformRows DEF Shapes, SaveUnanswered
<1>4. unsure' /\ save' = None /\ publishing' = "no"
  BY DEF SaveUnanswered
<1> QED
  BY <1>3, <1>4
  DEF Sound, AtWork, ConnectionsKnown, DeletionPrepared, StoredEdgesAttached

LEMMA OrphanSound ==
  ASSUME Sound, OrphanCall \/ OrphanEnds
  PROVE  Sound'
<1>1. Shapes /\ AtWork /\ UNCHANGED <<known, page, save, publishing>>
  BY Parts DEF OrphanCall, OrphanEnds, builderVars, saving
<1>2. CASE UNCHANGED <<stored, nextRow, unsure>>
  BY <1>1, <1>2, AroundSound DEF AtWork
<1>3. CASE Shapes' /\ unsure'
  BY <1>1, <1>3
  DEF Sound, AtWork, ConnectionsKnown, DeletionPrepared, StoredEdgesAttached
<1>4. CASE OrphanCall /\ ~UNCHANGED <<stored, nextRow, unsure>>
  <2> DEFINE s == orphan.save
  <2>1. Stage(s) \in 1..6
    BY <1>4, StageFirst DEF OrphanCall
  <2>2. PICK i : Accepts(s, Stage(s), i) /\ Perform(s, Stage(s), i) /\ TakesRow(Stage(s))
                 /\ unsure'
    BY <1>4 DEF OrphanCall
  <2>3. Shapes'
    BY <1>1, <2>1, <2>2, PerformRows DEF Shapes
  <2> QED
    BY <1>3, <2>2, <2>3
<1>5. CASE OrphanEnds /\ ~UNCHANGED <<stored, nextRow, unsure>>
  <2>1. /\ unsure' /\ nextRow' = nextRow
        /\ stored' = [stored EXCEPT !.status = "published"]
    BY <1>5 DEF OrphanEnds, ids
  <2>2. Shapes'
    BY <1>1, <2>1 DEF Shapes, Rows
  <2> QED
    BY <1>3, <2>1, <2>2
<1> QED
  BY <1>2, <1>4, <1>5

-----------------------------------------------------------------------------
(* The builder comes and goes.                                             *)

LEMMA LoadSound ==
  ASSUME Sound, Load
  PROVE  Sound'
<1>1. UNCHANGED <<stored, nextRow, unsure>> /\ save' = None /\ page' = "builder"
  BY DEF Load, Idle
<1>2. DOMAIN known' = {"nodes", "edges"} /\ DOMAIN known'.edges = DOMAIN stored.edges
  BY DEF Load
<1>3. ASSUME NEW e \in DOMAIN stored.edges
      PROVE  Ends(known'.edges[e]) = Ends(stored.edges[e])
  BY DEF Load, KnownEdge, Ends
<1> QED
  BY <1>1, <1>2, <1>3 DEF Sound, Shapes, Rows, AtWork, ConnectionsKnown,
     DeletionPrepared, StoredEdgesAttached

LEMMA AwaySound ==
  ASSUME Sound, Shapes', page' # "builder", save' = None, publishing' = "no",
         unsure' = unsure, StoredEdgesAttached'
  PROVE  Sound'
BY DEF Sound, AtWork, ConnectionsKnown, DeletionPrepared

LEMMA UnmountSound ==
  ASSUME Sound, NEW to \in {"left", "loading"}, Unmount(to)
  PROVE  Sound'
<1>1. /\ UNCHANGED <<stored, nextRow, unsure>> /\ known' = Empty
      /\ page' = to /\ save' = None /\ publishing' = "no"
  BY DEF Unmount, Idle, ids
<1> QED
  BY <1>1, AwaySound DEF Sound, Shapes, Rows, Empty, StoredEdgesAttached

LEMMA GoesAwaySound ==
  ASSUME Sound, \/ NavigateWithGuard \/ ConfirmLeave \/ Refresh
                \/ SelectVersion \/ OpenBuilder
  PROVE  Sound'
<1>1. CASE \E to \in {"left", "loading"} : Unmount(to)
  BY <1>1, UnmountSound
<1>2. CASE NavigateWithGuard /\ ~Unmount("left")
  <2>1. UNCHANGED <<stored, nextRow, known, unsure, page, save, publishing>>
    BY <1>2 DEF NavigateWithGuard, ids, saving
  <2> QED
    BY <2>1, Parts, AroundSound DEF AtWork
<1>3. CASE OpenBuilder
  <2>1. /\ UNCHANGED <<stored, nextRow, known, unsure, save, publishing>>
        /\ page # "builder" /\ page' # "builder"
    BY <1>3 DEF OpenBuilder, ids, builderVars, saving
  <2> QED
    BY <2>1 DEF Sound, Shapes, Rows, AtWork, ConnectionsKnown, DeletionPrepared,
       StoredEdgesAttached
<1> QED
  BY <1>1, <1>2, <1>3 DEF NavigateWithGuard, ConfirmLeave, Refresh, SelectVersion

\* The rows of a new draft are numbered in the order of the old ones, so that no
\* two become one.
LEMMA NewRowsDiffer ==
  ASSUME Shapes
  PROVE  /\ Cardinality(Rows) \in Nat
         /\ \A a \in Rows : NewRow(a) \in nextRow..(nextRow + Cardinality(Rows) - 1)
         /\ \A a, b \in Rows : NewRow(a) = NewRow(b) => a = b
<1> DEFINE Below(a) == {r \in Rows : r < a}
<1>1. IsFiniteSet(Rows) /\ Cardinality(Rows) \in Nat
  <2>1. nextRow - 1 \in Int /\ 1 \in Int /\ Rows \subseteq 1..(nextRow - 1)
    BY DEF Shapes
  <2>2. IsFiniteSet(1..(nextRow - 1))
    BY <2>1, FS_Interval
  <2>3. IsFiniteSet(Rows)
    BY <2>1, <2>2, FS_Subset
  <2> QED
    BY <2>3, FS_CardinalityType
<1>2. \A a \in Rows : NewRow(a) = nextRow + Cardinality(Below(a))
  BY DEF NewRow, Rows
<1>3. \A a \in Rows : a \in Int
  BY DEF Shapes
<1> HIDE DEF Rows
<1>4. ASSUME NEW S, S \subseteq Rows, NEW a \in Rows, a \in S, ~(a < a)
      PROVE  /\ Cardinality(Below(a)) \in Nat /\ Cardinality(S) \in Nat
             /\ Below(a) \subseteq S => Cardinality(Below(a)) < Cardinality(S)
  <2>1. /\ IsFiniteSet(S) /\ IsFiniteSet(Below(a))
        /\ Cardinality(S) \in Nat /\ Cardinality(Below(a)) \in Nat
    BY <1>1, <1>4, FS_Subset, FS_CardinalityType
  <2>2. ASSUME Below(a) \subseteq S PROVE Cardinality(Below(a)) < Cardinality(S)
    <3>1. Below(a) # S
      BY <1>4
    <3>2. Cardinality(Below(a)) <= Cardinality(S) /\ Cardinality(Below(a)) # Cardinality(S)
      BY <2>1, <2>2, <3>1, FS_Subset
    <3> QED
      BY <2>1, <3>2
  <2> QED
    BY <2>1, <2>2
<1>5. ASSUME NEW a \in Rows
      PROVE  Cardinality(Below(a)) \in 0..(Cardinality(Rows) - 1)
  <2>1. ~(a < a) /\ Below(a) \subseteq Rows
    BY <1>3
  <2>2. Cardinality(Below(a)) \in Nat /\ Cardinality(Below(a)) < Cardinality(Rows)
    BY <1>4, <2>1
  <2> QED
    BY <1>1, <2>2
<1>6. ASSUME NEW a \in Rows, NEW b \in Rows, a < b
      PROVE  Cardinality(Below(a)) < Cardinality(Below(b))
  <2>1. ~(a < a) /\ Below(a) \subseteq Below(b) /\ a \in Below(b) /\ Below(b) \subseteq Rows
    BY <1>3, <1>6
  <2> QED
    BY <1>4, <2>1
<1>7. nextRow \in Nat
  BY DEF Shapes
<1> HIDE DEF Below
<1>8. ASSUME NEW a \in Rows, NEW b \in Rows, NewRow(a) = NewRow(b) PROVE a = b
  <2>1. Cardinality(Below(a)) = Cardinality(Below(b))
    BY <1>2, <1>5, <1>7, <1>8
  <2> QED
    BY <1>3, <1>5, <1>6, <2>1
<1>9. \A a \in Rows : NewRow(a) \in nextRow..(nextRow + Cardinality(Rows) - 1)
  BY <1>1, <1>2, <1>5, <1>7
<1> QED
  BY <1>1, <1>8, <1>9

LEMMA CopiedFacts ==
  ASSUME Shapes, NEW rows, DOMAIN rows \subseteq Rows
  PROVE  /\ DOMAIN Copied(rows) \subseteq nextRow..(nextRow + Cardinality(Rows) - 1)
         /\ \A r \in DOMAIN Copied(rows) : \E a \in DOMAIN rows : Copied(rows)[r] = rows[a]
         /\ \A a \in DOMAIN rows : \E r \in DOMAIN Copied(rows) : Copied(rows)[r] = rows[a]
<1> DEFINE Old(r) == CHOOSE a \in DOMAIN rows : NewRow(a) = r
<1>1. /\ DOMAIN Copied(rows) = {NewRow(a) : a \in DOMAIN rows}
      /\ \A r \in DOMAIN Copied(rows) : Copied(rows)[r] = rows[Old(r)]
  BY DEF Copied
<1>2. \A r \in DOMAIN Copied(rows) : Old(r) \in DOMAIN rows /\ NewRow(Old(r)) = r
  BY <1>1
<1> HIDE DEF Old
<1>3. \A a \in DOMAIN rows : NewRow(a) \in DOMAIN Copied(rows) /\ Old(NewRow(a)) = a
  BY <1>1, <1>2, NewRowsDiffer
<1>4. DOMAIN Copied(rows) \subseteq nextRow..(nextRow + Cardinality(Rows) - 1)
  BY <1>1, NewRowsDiffer
<1> QED
  BY <1>1, <1>2, <1>3, <1>4

\* A new draft has the connections of the published version, and their nodes.
LEMMA EditWorkflowSound ==
  ASSUME Sound, EditWorkflow
  PROVE  Sound'
<1>1. /\ Shapes /\ DOMAIN stored.nodes \subseteq Rows /\ DOMAIN stored.edges \subseteq Rows
      /\ Cardinality(Rows) \in Nat
  BY Parts, NewRowsDiffer DEF Rows
<1>2. /\ stored'.nodes = Copied(stored.nodes) /\ stored'.edges = Copied(stored.edges)
      /\ DOMAIN stored' = {"nodes", "edges", "status"}
      /\ nextRow' = nextRow + Cardinality(Rows) /\ known' = Empty
  BY DEF EditWorkflow, Rows
<1>3. Shapes'
  <2>1. Rows' \subseteq nextRow..(nextRow + Cardinality(Rows) - 1)
    BY <1>1, <1>2, CopiedFacts DEF Rows
  <2> QED
    BY <1>1, <1>2, <2>1 DEF Shapes, Empty
<1>4. ASSUME ~unsure, NEW e \in DOMAIN stored'.edges
      PROVE  {stored'.edges[e].from, stored'.edges[e].to} \subseteq Names(stored'.nodes)
  <2>1. PICK a \in DOMAIN stored.edges : stored'.edges[e] = stored.edges[a]
    BY <1>1, <1>2, <1>4, CopiedFacts
  <2>2. {stored.edges[a].from, stored.edges[a].to} \subseteq Names(stored.nodes)
    BY <1>4, Parts DEF StoredEdgesAttached
  <2>3. Names(stored.nodes) \subseteq Names(stored'.nodes)
    BY <1>1, <1>2, CopiedFacts DEF Names
  <2> QED
    BY <2>1, <2>2, <2>3
<1>5. StoredEdgesAttached' /\ unsure' = unsure
  BY <1>4 DEF StoredEdgesAttached, EditWorkflow
<1>6. page' # "builder" /\ save' = None /\ publishing' = "no"
  BY DEF EditWorkflow, Idle
<1> QED
  BY <1>3, <1>5, <1>6, AwaySound

-----------------------------------------------------------------------------
LEMMA NextSound == Sound /\ [Next]_vars => Sound'
<1> SUFFICES ASSUME Sound, [Next]_vars PROVE Sound'
  OBVIOUS
<1>1. CASE UNCHANGED vars
  BY <1>1, Parts, AroundSound DEF vars, ids, builderVars, saving, AtWork
<1> QED
  BY <1>1, LoadSound, EditingSound, SaveOverSound, WaitingSound, PublishCallSound,
     SaveCallSound, SaveSound, SaveUnansweredSound, OrphanSound, GoesAwaySound,
     EditWorkflowSound
  DEF Next, Calls

\* At no moment of a save, and however it was cut off, does the service hold a
\* connection of a node it does not hold: the calls of handleSave delete the
\* connections of a node before the node, and attach new ones after it.
THEOREM ConnectionsAttached == Spec => []StoredEdgesAttached
<1>1. Sound => StoredEdgesAttached
  BY DEF Sound
<1> QED
  BY <1>1, InitSound, NextSound, PTL DEF Spec

-----------------------------------------------------------------------------
(* The definition of a canvas does not depend on its ids.                  *)

\* No two nodes have one name.
Distinct(nodes) == \A i, j \in DOMAIN nodes : nodes[i].name = nodes[j].name => i = j

\* Every node of the one is found in the other, with what it refers to.
Covers(f, g) ==
  \A i \in DOMAIN f :
    \E j \in DOMAIN g : g[j].name = f[i].name /\ g[j].ref = f[i].ref

LEMMA SameNodes ==
  ASSUME NEW f, NEW g, Distinct(f), Distinct(g), Covers(f, g), Covers(g, f)
  PROVE  ByName(f) = ByName(g)
<1> DEFINE F(n) == CHOOSE i \in DOMAIN f : f[i].name = n
           G(n) == CHOOSE i \in DOMAIN g : g[i].name = n
<1>1. Names(f) = Names(g)
  BY DEF Covers, Names
<1>2. ASSUME NEW n \in Names(f)
      PROVE  f[F(n)].ref = g[G(n)].ref
  <2>1. F(n) \in DOMAIN f /\ f[F(n)].name = n
    BY DEF Names
  <2>2. G(n) \in DOMAIN g /\ g[G(n)].name = n
    BY <1>1 DEF Names
  <2> HIDE DEF F, G
  <2>3. PICK j \in DOMAIN g : g[j].name = n /\ g[j].ref = f[F(n)].ref
    BY <2>1 DEF Covers
  <2>4. j = G(n)
    BY <2>2, <2>3 DEF Distinct
  <2> QED
    BY <2>3, <2>4
<1>3. /\ ByName(f) = [n \in Names(f) |-> f[F(n)].ref]
      /\ ByName(g) = [n \in Names(g) |-> g[G(n)].ref]
  BY DEF ByName
<1> HIDE DEF F, G
<1> QED
  BY <1>1, <1>2, <1>3

\* Connections that correspond one to one are counted alike.
LEMMA SameTally ==
  ASSUME NEW f, NEW g, IsFiniteSet(DOMAIN f), NEW h \in Bijection(DOMAIN f, DOMAIN g),
         \A e \in DOMAIN f : g[h[e]] = f[e]
  PROVE  Tally(f) = Tally(g)
<1> DEFINE F(l) == {e \in DOMAIN f : f[e] = l}
           G(l) == {e \in DOMAIN g : g[e] = l}
<1>1. /\ h \in [DOMAIN f -> DOMAIN g]
      /\ \A a, b \in DOMAIN f : h[a] = h[b] => a = b
      /\ \A e \in DOMAIN g : \E a \in DOMAIN f : h[a] = e
  BY DEF Bijection, Injection, Surjection, IsInjective
<1>2. {f[e] : e \in DOMAIN f} = {g[e] : e \in DOMAIN g}
  BY <1>1
<1>3. ASSUME NEW l
      PROVE  Cardinality(F(l)) = Cardinality(G(l))
  <2> DEFINE r == [e \in F(l) |-> h[e]]
  <2>1. \A e \in F(l) : r[e] \in G(l)
    BY <1>1
  <2>2. r \in [F(l) -> G(l)]
    BY <2>1
  <2>3. \A a, b \in F(l) : r[a] = r[b] => a = b
    BY <1>1
  <2>4. \A e \in G(l) : \E a \in F(l) : r[a] = e
    BY <1>1
  <2>5. IsFiniteSet(F(l))
    BY FS_Subset
  <2> HIDE DEF r, F, G
  <2>6. r \in Bijection(F(l), G(l))
    BY <2>2, <2>3, <2>4 DEF Bijection, Injection, Surjection, IsInjective
  <2>7. ExistsBijection(F(l), G(l))
    BY <2>6 DEF ExistsBijection
  <2> QED
    BY <2>5, <2>7, FS_Bijection
<1>4. /\ Tally(f) = [l \in {f[e] : e \in DOMAIN f} |-> Cardinality(F(l))]
      /\ Tally(g) = [l \in {g[e] : e \in DOMAIN g} |-> Cardinality(G(l))]
  BY DEF Tally
<1> HIDE DEF F, G
<1> QED
  BY <1>2, <1>3, <1>4

\* A conversion of contents leaves the ids and the names.
LEMMA WithoutFacts ==
  ASSUME NEW nodes, NEW ref
  PROVE  /\ DOMAIN Without(nodes, ref) = DOMAIN nodes
         /\ \A i \in DOMAIN nodes :
              /\ DOMAIN Without(nodes, ref)[i] = {"name", "ref"}
              /\ Without(nodes, ref)[i].name = nodes[i].name
              /\ Without(nodes, ref)[i].ref = IF nodes[i].ref = ref THEN 0 ELSE nodes[i].ref
BY DEF Without

LEMMA NormalizedAlike ==
  ASSUME NEW f, NEW g, Covers(f, g)
  PROVE  Covers(Normalized(f), Normalized(g))
BY WithoutFacts DEF Covers, Normalized

LEMMA NormalizedDistinct ==
  ASSUME NEW f, Distinct(f)
  PROVE  Distinct(Normalized(f))
BY WithoutFacts DEF Distinct, Normalized

LEMMA SameDefinition ==
  ASSUME NEW c, NEW d, NEW h \in Bijection(DOMAIN c.edges, DOMAIN d.edges),
         Distinct(c.nodes), Distinct(d.nodes), Covers(c.nodes, d.nodes),
         Covers(d.nodes, c.nodes), IsFiniteSet(DOMAIN c.edges),
         \A e \in DOMAIN c.edges : Link(d, h[e]) = Link(c, e)
  PROVE  Definition(c) = Definition(d)
<1>1. ByName(Normalized(c.nodes)) = ByName(Normalized(d.nodes))
  BY SameNodes, NormalizedAlike, NormalizedDistinct
<1>2. /\ DOMAIN Links(c) = DOMAIN c.edges /\ DOMAIN Links(d) = DOMAIN d.edges
      /\ \A e \in DOMAIN c.edges : Links(c)[e] = Link(c, e)
      /\ \A e \in DOMAIN d.edges : Links(d)[e] = Link(d, e)
  BY DEF Links
<1>3. \A e \in DOMAIN c.edges : h[e] \in DOMAIN d.edges
  BY DEF Bijection, Injection
<1>4. Tally(Links(c)) = Tally(Links(d))
  BY <1>2, <1>3, SameTally
<1> QED
  BY <1>1, <1>4 DEF Definition

-----------------------------------------------------------------------------
(* One name goes with every id, for as long as anything has that id.       *)

Logical == -MaxNodes .. -1
Temps == (nextTemp + 1) .. (-MaxNodes - 1)
Ids == Temps \cup 1 .. (nextRow - 1)

\* The name of a node, and 0 for a connection.
Naming(N) ==
  /\ N \in [Int -> 0..MaxNodes]
  /\ \A l \in Logical : N[l] = l + MaxNodes + 1

NodesFit(nodes, N, I) ==
  /\ DOMAIN nodes \subseteq I /\ Distinct(nodes)
  /\ \A i \in DOMAIN nodes : /\ DOMAIN nodes[i] = {"name", "ref"}
                             /\ nodes[i].name = N[i] /\ N[i] \in 1..MaxNodes

\* A canvas.
Fits(c, N, I) ==
  /\ DOMAIN c = {"nodes", "edges"} /\ NodesFit(c.nodes, N, I)
  /\ DOMAIN c.edges \subseteq I
  /\ \A e \in DOMAIN c.edges :
       /\ N[e] = 0 /\ DOMAIN c.edges[e] = {"from", "to", "cond"}
       /\ {c.edges[e].from, c.edges[e].to} \subseteq DOMAIN c.nodes \cup Logical

\* The rows a save has made of temporary ids; the sheets of S have none of them.
MadeFits(s, N, I, S) ==
  /\ \A t \in DOMAIN s.made :
       /\ t \in I /\ t < -MaxNodes /\ s.made[t] \in I /\ s.made[t] > 0
       /\ N[s.made[t]] = N[t]
       /\ \A c \in S : s.made[t] \notin DOMAIN c.nodes \cup DOMAIN c.edges
  /\ \A t, u \in DOMAIN s.made : s.made[t] = s.made[u] => t = u

LEMMA NamedEnd ==
  ASSUME NEW N, Naming(N), NEW I, I \cap Logical = {}, NEW c, Fits(c, N, I),
         NEW id \in DOMAIN c.nodes \cup Logical
  PROVE  NameOf(c, id) = N[id] /\ N[id] \in 1..MaxNodes
<1>1. MaxNodes \in Nat
  BY EditorAssumption
<1>2. CASE id \in DOMAIN c.nodes
  BY <1>2 DEF NameOf, Fits, NodesFit
<1>3. CASE id \in Logical
  <2>1. id \notin DOMAIN c.nodes
    BY <1>3 DEF Fits, NodesFit
  <2> QED
    BY <1>1, <1>3, <2>1 DEF NameOf, Naming, Logical
<1> QED
  BY <1>2, <1>3

\* Ids that are new, and names for them, disturb nothing.
LEMMA FitsStill ==
  ASSUME NEW N, NEW M, NEW I, NEW J, I \subseteq J, \A i \in I : M[i] = N[i],
         NEW c, Fits(c, N, I)
  PROVE  Fits(c, M, J)
BY DEF Fits, NodesFit

\* Converted contents fit as well.
LEMMA WithoutFits ==
  ASSUME NEW nodes, NEW ref, NEW N, NEW I, NodesFit(nodes, N, I)
  PROVE  NodesFit(Without(nodes, ref), N, I)
BY WithoutFacts DEF NodesFit, Distinct

\* A snapshot fits, and links the same names.
LEMMA SnapshotFits ==
  ASSUME NEW c, NEW N, NEW I, Fits(c, N, I)
  PROVE  /\ Fits(Snapshot(c), N, I)
         /\ DOMAIN Snapshot(c).nodes = DOMAIN c.nodes /\ Snapshot(c).edges = c.edges
         /\ \A e \in DOMAIN c.edges : Link(Snapshot(c), e) = Link(c, e)
<1> DEFINE d == Snapshot(c)
<1>1. /\ DOMAIN d = {"nodes", "edges"} /\ d.edges = c.edges
      /\ d.nodes = Without(c.nodes, Raw)
  BY DEF Snapshot, Normalized
<1>2. /\ DOMAIN d.nodes = DOMAIN c.nodes
      /\ \A i \in DOMAIN c.nodes : d.nodes[i].name = c.nodes[i].name
  BY <1>1, WithoutFacts
<1> HIDE DEF d
<1>3. NodesFit(d.nodes, N, I)
  BY <1>1, WithoutFits DEF Fits
<1>4. Fits(d, N, I)
  BY <1>1, <1>2, <1>3 DEF Fits
<1>5. \A id : NameOf(d, id) = NameOf(c, id)
  BY <1>2 DEF NameOf
<1>6. \A e \in DOMAIN c.edges : Link(d, e) = Link(c, e)
  BY <1>1, <1>5 DEF Link
<1> QED
  BY <1>1, <1>2, <1>4, <1>6 DEF d

LEMMA MadeStill ==
  ASSUME NEW N, NEW M, NEW I, NEW J, I \subseteq J, \A i \in I : M[i] = N[i],
         NEW s, NEW S, MadeFits(s, N, I, S)
  PROVE  MadeFits(s, M, J, S)
BY DEF MadeFits

-----------------------------------------------------------------------------
(* The ids of the rows replace the temporary ones.                         *)

LEMMA RealIds ==
  ASSUME NEW s, NEW N, NEW I, NEW S, MadeFits(s, N, I, S), NEW c \in S,
         I \cap Logical = {}
  PROVE  /\ \A i \in I : RealId(s, i) \in I /\ N[RealId(s, i)] = N[i]
         /\ \A i \in Logical : RealId(s, i) = i
         /\ \A i, j \in DOMAIN c.nodes : RealId(s, i) = RealId(s, j) => i = j
         /\ \A i, j \in DOMAIN c.edges : RealId(s, i) = RealId(s, j) => i = j
<1>1. /\ \A i : i \in DOMAIN s.made => RealId(s, i) = s.made[i]
      /\ \A i : i \notin DOMAIN s.made => RealId(s, i) = i
  BY DEF RealId
<1> QED
  BY <1>1 DEF MadeFits

\* d is the canvas c with the ids of the rows.
Remapped(s, c, d) ==
  /\ DOMAIN d = {"nodes", "edges"}
  /\ DOMAIN d.nodes = {RealId(s, j) : j \in DOMAIN c.nodes}
  /\ DOMAIN d.edges = {RealId(s, j) : j \in DOMAIN c.edges}
  /\ \A j \in DOMAIN c.nodes : d.nodes[RealId(s, j)] = c.nodes[j]
  /\ \A j \in DOMAIN c.edges :
       /\ DOMAIN d.edges[RealId(s, j)] = {"from", "to", "cond"}
       /\ d.edges[RealId(s, j)].from = RealId(s, c.edges[j].from)
       /\ d.edges[RealId(s, j)].to = RealId(s, c.edges[j].to)
       /\ d.edges[RealId(s, j)].cond = c.edges[j].cond

LEMMA RemapShape ==
  ASSUME NEW s, NEW N, NEW I, NEW S, MadeFits(s, N, I, S), NEW c \in S,
         I \cap Logical = {}, Fits(c, N, I)
  PROVE  Remapped(s, c, Remap(s, c))
<1> DEFINE Of(i) == CHOOSE j \in DOMAIN c.nodes : RealId(s, j) = i
           By(i) == CHOOSE j \in DOMAIN c.edges : RealId(s, j) = i
           d == Remap(s, c)
<1>1. \A j \in DOMAIN c.nodes : Of(RealId(s, j)) = j
  <2> TAKE j \in DOMAIN c.nodes
  <2>1. Of(RealId(s, j)) \in DOMAIN c.nodes /\ RealId(s, Of(RealId(s, j))) = RealId(s, j)
    OBVIOUS
  <2> QED
    BY <2>1, RealIds
<1>2. \A j \in DOMAIN c.edges : By(RealId(s, j)) = j
  <2> TAKE j \in DOMAIN c.edges
  <2>1. By(RealId(s, j)) \in DOMAIN c.edges /\ RealId(s, By(RealId(s, j))) = RealId(s, j)
    OBVIOUS
  <2> QED
    BY <2>1, RealIds
<1>3. /\ DOMAIN d = {"nodes", "edges"}
      /\ d.nodes = [i \in {RealId(s, j) : j \in DOMAIN c.nodes} |-> c.nodes[Of(i)]]
      /\ d.edges = [i \in {RealId(s, j) : j \in DOMAIN c.edges} |->
                     [c.edges[By(i)] EXCEPT !.from = RealId(s, @), !.to = RealId(s, @)]]
  BY DEF Remap
<1> HIDE DEF Of, By, d
<1>4. \A j \in DOMAIN c.nodes : d.nodes[RealId(s, j)] = c.nodes[j]
  BY <1>1, <1>3
<1>5. ASSUME NEW j \in DOMAIN c.edges
      PROVE  /\ DOMAIN d.edges[RealId(s, j)] = {"from", "to", "cond"}
             /\ d.edges[RealId(s, j)].from = RealId(s, c.edges[j].from)
             /\ d.edges[RealId(s, j)].to = RealId(s, c.edges[j].to)
             /\ d.edges[RealId(s, j)].cond = c.edges[j].cond
  <2>1. d.edges[RealId(s, j)] =
          [c.edges[j] EXCEPT !.from = RealId(s, @), !.to = RealId(s, @)]
    BY <1>2, <1>3
  <2>2. DOMAIN c.edges[j] = {"from", "to", "cond"}
    BY DEF Fits
  <2> QED
    BY <2>1, <2>2
<1> QED
  BY <1>3, <1>4, <1>5 DEF d, Remapped

\* The canvas that results is as sound, and its connections link the same names.
LEMMA RemapFits ==
  ASSUME NEW s, NEW N, Naming(N), NEW I, NEW S, MadeFits(s, N, I, S), NEW c \in S,
         I \cap Logical = {}, Fits(c, N, I)
  PROVE  /\ Fits(Remap(s, c), N, I)
         /\ \A j \in DOMAIN c.edges : Link(Remap(s, c), RealId(s, j)) = Link(c, j)
<1> DEFINE d == Remap(s, c)
<1>1. Remapped(s, c, d)
  BY RemapShape
<1>2. /\ \A i \in I : RealId(s, i) \in I /\ N[RealId(s, i)] = N[i]
      /\ \A i \in Logical : RealId(s, i) = i
      /\ \A i, j \in DOMAIN c.nodes : RealId(s, i) = RealId(s, j) => i = j
  BY RealIds
<1> HIDE DEF d
<1>3. NodesFit(d.nodes, N, I)
  <2>1. NodesFit(c.nodes, N, I)
    BY DEF Fits
  <2>2. /\ DOMAIN d.nodes = {RealId(s, j) : j \in DOMAIN c.nodes}
        /\ \A j \in DOMAIN c.nodes : d.nodes[RealId(s, j)] = c.nodes[j]
    BY <1>1 DEF Remapped
  <2>3. ASSUME NEW i \in DOMAIN d.nodes
        PROVE  /\ i \in I /\ DOMAIN d.nodes[i] = {"name", "ref"}
               /\ d.nodes[i].name = N[i] /\ N[i] \in 1..MaxNodes
    <3>1. PICK j \in DOMAIN c.nodes : i = RealId(s, j)
      BY <2>2
    <3> QED
      BY <1>2, <2>1, <2>2, <3>1 DEF NodesFit
  <2>4. ASSUME NEW i \in DOMAIN d.nodes, NEW k \in DOMAIN d.nodes,
               d.nodes[i].name = d.nodes[k].name
        PROVE  i = k
    <3>1. PICK j \in DOMAIN c.nodes : i = RealId(s, j)
      BY <2>2
    <3>2. PICK l \in DOMAIN c.nodes : k = RealId(s, l)
      BY <2>2
    <3>3. c.nodes[j].name = c.nodes[l].name
      BY <2>2, <2>4, <3>1, <3>2
    <3> QED
      BY <2>1, <3>1, <3>2, <3>3 DEF NodesFit, Distinct
  <2> QED
    BY <2>3, <2>4 DEF NodesFit, Distinct
<1>4. \A x \in DOMAIN c.nodes \cup Logical : RealId(s, x) \in DOMAIN d.nodes \cup Logical
  BY <1>1, <1>2 DEF Remapped
<1>5. ASSUME NEW i \in DOMAIN d.edges
      PROVE  /\ i \in I /\ N[i] = 0 /\ DOMAIN d.edges[i] = {"from", "to", "cond"}
             /\ d.edges[i].from \in DOMAIN d.nodes \cup Logical
             /\ d.edges[i].to \in DOMAIN d.nodes \cup Logical
  <2>1. PICK j \in DOMAIN c.edges : i = RealId(s, j)
    BY <1>1 DEF Remapped
  <2>2. /\ j \in I /\ N[j] = 0
        /\ c.edges[j].from \in DOMAIN c.nodes \cup Logical
        /\ c.edges[j].to \in DOMAIN c.nodes \cup Logical
    BY DEF Fits
  <2>3. /\ DOMAIN d.edges[i] = {"from", "to", "cond"}
        /\ d.edges[i].from = RealId(s, c.edges[j].from)
        /\ d.edges[i].to = RealId(s, c.edges[j].to)
    BY <1>1, <2>1 DEF Remapped
  <2> QED
    BY <1>2, <1>4, <2>1, <2>2, <2>3
<1>6. Fits(d, N, I)
  <2>1. DOMAIN d = {"nodes", "edges"}
    BY <1>1 DEF Remapped
  <2> QED
    BY <1>3, <1>5, <2>1 DEF Fits
<1>7. \A x \in DOMAIN c.nodes \cup Logical : NameOf(d, RealId(s, x)) = NameOf(c, x)
  <2> TAKE x \in DOMAIN c.nodes \cup Logical
  <2>1. NameOf(c, x) = N[x]
    BY NamedEnd
  <2>2. NameOf(d, RealId(s, x)) = N[RealId(s, x)]
    BY <1>4, <1>6, NamedEnd
  <2>3. x \in I \cup Logical
    BY DEF Fits, NodesFit
  <2> QED
    BY <1>2, <2>1, <2>2, <2>3
<1>8. ASSUME NEW j \in DOMAIN c.edges
      PROVE  Link(d, RealId(s, j)) = Link(c, j)
  <2>1. c.edges[j].from \in DOMAIN c.nodes \cup Logical
    BY DEF Fits
  <2>2. c.edges[j].to \in DOMAIN c.nodes \cup Logical
    BY DEF Fits
  <2>3. /\ d.edges[RealId(s, j)].from = RealId(s, c.edges[j].from)
        /\ d.edges[RealId(s, j)].to = RealId(s, c.edges[j].to)
        /\ d.edges[RealId(s, j)].cond = c.edges[j].cond
    BY <1>1 DEF Remapped
  <2> QED
    BY <1>7, <2>1, <2>2, <2>3 DEF Link
<1> QED
  BY <1>6, <1>8 DEF d

LEMMA RemapDefinition ==
  ASSUME NEW s, NEW N, Naming(N), NEW I, NEW S, MadeFits(s, N, I, S), NEW c \in S,
         I \cap Logical = {}, Fits(c, N, I), IsFiniteSet(I)
  PROVE  Definition(Remap(s, c)) = Definition(c)
<1> DEFINE d == Remap(s, c)
           h == [j \in DOMAIN c.edges |-> RealId(s, j)]
<1>0. Remapped(s, c, d)
  BY RemapShape
<1>1. /\ DOMAIN d.nodes = {RealId(s, j) : j \in DOMAIN c.nodes}
      /\ DOMAIN d.edges = {RealId(s, j) : j \in DOMAIN c.edges}
      /\ \A j \in DOMAIN c.nodes : d.nodes[RealId(s, j)] = c.nodes[j]
  BY <1>0 DEF Remapped
<1>2. Fits(d, N, I) /\ \A j \in DOMAIN c.edges : Link(d, RealId(s, j)) = Link(c, j)
  BY RemapFits
<1>3. \A i, j \in DOMAIN c.edges : RealId(s, i) = RealId(s, j) => i = j
  BY RealIds
<1> HIDE DEF d
<1>4. h \in Bijection(DOMAIN c.edges, DOMAIN d.edges)
  BY <1>1, <1>3 DEF Bijection, Injection, Surjection, IsInjective
<1>5. Distinct(c.nodes) /\ Distinct(d.nodes)
  BY <1>2 DEF Fits, NodesFit
<1>6. Covers(c.nodes, d.nodes) /\ Covers(d.nodes, c.nodes)
  BY <1>1 DEF Covers
<1>7. IsFiniteSet(DOMAIN c.edges)
  BY FS_Subset DEF Fits
<1> QED
  BY <1>2, <1>4, <1>5, <1>6, <1>7, SameDefinition DEF d

-----------------------------------------------------------------------------
(* What has ids and names: the canvas and what it was and may become again *)
(* (the sheets of the builder, a set S), the rows, and the saves.          *)

Numbers ==
  nextTemp \in Int /\ nextTemp < -MaxNodes /\ nextName \in Nat \ {0}

SheetsFit(N, S) ==
  /\ canvas \in S /\ (frame = None \/ frame \in S)
  /\ undo \in Seq(S) /\ redo \in Seq(S)
  /\ save # None => save.snap \in S
  /\ \A c \in S : Fits(c, N, Ids) /\ \A i \in DOMAIN c.nodes : N[i] < nextName

\* The calls a save still makes are about what its snapshot has.
CallsFit(s) ==
  /\ \A k \in {1, 2} : s.todo[k] \subseteq DOMAIN s.snap.nodes
  /\ \A k \in {5, 6} : s.todo[k] \subseteq DOMAIN s.snap.edges
  /\ \A i \in s.todo[1] \cup s.todo[5] : i < 0

SaveFits(N, S) ==
  save # None => MadeFits(save, N, Ids, S) /\ CallsFit(save)

OrphanFits(N) ==
  orphan # None =>
    /\ DOMAIN orphan = {"save", "publishing"}
    /\ orphan.save # None =>
         /\ DOMAIN orphan.save = {"snap", "was", "todo", "made", "edited"}
         /\ DOMAIN orphan.save.todo = 1..6
         /\ Fits(orphan.save.snap, N, Ids) /\ CallsFit(orphan.save)

LinkOf(x) == [from |-> x.from, to |-> x.to, cond |-> x.cond]
IsLink(l) == l = LinkOf(l)

RowsFit(N) ==
  /\ NodesFit(stored.nodes, N, Ids)
  /\ \A e \in DOMAIN stored.edges :
       /\ N[e] = 0 /\ IsLink(stored.edges[e])
       /\ {stored.edges[e].from, stored.edges[e].to} \subseteq 1..MaxNodes

KnownFits(N) ==
  /\ \A i \in DOMAIN known.nodes : i \in Ids /\ known.nodes[i].name = N[i]
  /\ \A e \in DOMAIN known.edges :
       /\ e \in Ids /\ N[e] = 0
       /\ {known.edges[e].source, known.edges[e].target} \subseteq Ids \cup Logical
       /\ known.edges[e].from = N[known.edges[e].source]
       /\ known.edges[e].to = N[known.edges[e].target]

NamedBy(N, S) ==
  /\ Naming(N) /\ Numbers /\ SheetsFit(N, S) /\ SaveFits(N, S) /\ OrphanFits(N)
  /\ RowsFit(N) /\ KnownFits(N)

Named == \E N, S : NamedBy(N, S)

-----------------------------------------------------------------------------
LEMMA IdsFacts ==
  ASSUME Numbers, Shapes
  PROVE  /\ Ids \cap Logical = {} /\ IsFiniteSet(Ids) /\ Ids \subseteq Int
         /\ nextTemp \notin Ids \cup Logical /\ nextRow \notin Ids \cup Logical
         /\ nextTemp # nextRow /\ Rows \subseteq Ids
         /\ \A i \in Ids : i < 0 => i < -MaxNodes
<1>1. MaxNodes \in Nat /\ nextTemp \in Int /\ nextTemp < -MaxNodes /\ nextRow \in Nat \ {0}
  BY EditorAssumption DEF Numbers, Shapes
<1>2. IsFiniteSet(Temps) /\ IsFiniteSet(1 .. (nextRow - 1))
  BY <1>1, FS_Interval DEF Temps
<1>3. IsFiniteSet(Ids)
  BY <1>2, FS_Union DEF Ids
<1>4. Rows \subseteq Ids
  BY DEF Shapes, Ids
<1> QED
  BY <1>1, <1>3, <1>4 DEF Ids, Temps, Logical

LEMMA IntervalGrows ==
  ASSUME NEW m \in Int, NEW t \in Int, NEW t1 \in Int, t1 <= t,
         NEW r \in Nat \ {0}, NEW r1 \in Nat, r <= r1
  PROVE  /\ (t + 1)..m \subseteq (t1 + 1)..m
         /\ 1..(r - 1) \subseteq 1..(r1 - 1) /\ r..(r1 - 1) \subseteq 1..(r1 - 1)
OBVIOUS

LEMMA IdsGrow ==
  ASSUME Numbers, Shapes, nextTemp' \in {nextTemp, nextTemp - 1}, nextRow' \in Nat,
         nextRow' >= nextRow
  PROVE  /\ Ids \subseteq Ids'
         /\ nextTemp' = nextTemp - 1 => nextTemp \in Ids'
         /\ nextRow..(nextRow' - 1) \subseteq Ids'
         /\ nextTemp' = nextTemp /\ nextRow' = nextRow => Ids' = Ids
<1>1. MaxNodes \in Nat /\ nextTemp \in Int /\ nextTemp < -MaxNodes /\ nextRow \in Nat \ {0}
  BY EditorAssumption DEF Numbers, Shapes
<1>2. nextTemp' \in Int /\ nextTemp' <= nextTemp
  BY <1>1
<1>3. -MaxNodes - 1 \in Int
  BY <1>1
<1>4. nextRow <= nextRow'
  BY <1>1
<1>5. /\ Temps \subseteq Temps'
      /\ 1..(nextRow - 1) \subseteq 1..(nextRow' - 1)
      /\ nextRow..(nextRow' - 1) \subseteq 1..(nextRow' - 1)
  BY <1>1, <1>2, <1>3, <1>4, IntervalGrows DEF Temps
<1>6. nextTemp' = nextTemp - 1 => nextTemp \in Temps'
  BY <1>1 DEF Temps
<1> QED
  BY <1>5, <1>6 DEF Ids, Temps

\* A name for an id that nothing has yet.
LEMMA NewName ==
  ASSUME NEW N, Naming(N), NEW i \in Int, i \notin Logical, NEW n \in 0..MaxNodes
  PROVE  LET M == [N EXCEPT ![i] = n]
         IN  Naming(M) /\ M[i] = n /\ \A j \in Int : j # i => M[j] = N[j]
<1> DEFINE M == [N EXCEPT ![i] = n]
<1>1. N \in [Int -> 0..MaxNodes] /\ \A l \in Logical : N[l] = l + MaxNodes + 1
  BY DEF Naming
<1>2. M \in [Int -> 0..MaxNodes] /\ M[i] = n /\ \A j \in Int : j # i => M[j] = N[j]
  BY <1>1
<1>3. Logical \subseteq Int
  BY EditorAssumption DEF Logical
<1> QED
  BY <1>1, <1>2, <1>3 DEF Naming

-----------------------------------------------------------------------------
(* New ids and new names leave everything named that does not change.      *)

LEMMA RestFits ==
  ASSUME Numbers, Shapes, NEW N, NEW M, NEW S, Ids \subseteq Ids',
         \A i \in Ids : M[i] = N[i], \A i \in Logical : M[i] = N[i]
  PROVE  /\ RowsFit(N) /\ UNCHANGED stored => RowsFit(M)'
         /\ KnownFits(N) /\ UNCHANGED known => KnownFits(M)'
         /\ OrphanFits(N) /\ UNCHANGED orphan => OrphanFits(M)'
<1>1. Rows \subseteq Ids
  BY IdsFacts
<1>2. ASSUME RowsFit(N), UNCHANGED stored
      PROVE  RowsFit(M)'
  <2>1. NodesFit(stored.nodes, M, Ids')
    BY <1>2 DEF RowsFit, NodesFit
  <2>2. \A e \in DOMAIN stored.edges : M[e] = N[e]
    BY <1>1 DEF Rows
  <2> QED
    BY <1>2, <2>1, <2>2 DEF RowsFit
<1>3. ASSUME KnownFits(N), UNCHANGED known
      PROVE  KnownFits(M)'
  BY <1>3 DEF KnownFits
<1>4. ASSUME OrphanFits(N), UNCHANGED orphan
      PROVE  OrphanFits(M)'
  BY <1>4, FitsStill DEF OrphanFits
<1> QED
  BY <1>2, <1>3, <1>4

-----------------------------------------------------------------------------
(* Edits.                                                                  *)

\* What a save has made is not on the canvas c.
Unmade(c) ==
  save # None =>
    \A t \in DOMAIN save.made : save.made[t] \notin DOMAIN c.nodes \cup DOMAIN c.edges

LEMMA UnmadeSheets ==
  ASSUME NEW N, NEW S, NamedBy(N, S), NEW c \in S
  PROVE  Unmade(c)
BY DEF NamedBy, SaveFits, MadeFits, Unmade

LEMMA EditNamed ==
  ASSUME Sound, NEW N, NEW S, NamedBy(N, S), NEW M, Naming(M), Numbers',
         \A i \in Ids : M[i] = N[i], nextTemp' \in {nextTemp, nextTemp - 1},
         nextName' >= nextName,
         Fits(canvas', M, Ids'), \A i \in DOMAIN canvas'.nodes : M[i] < nextName',
         Unmade(canvas'), MarkUnsaved, UNCHANGED <<stored, nextRow, known, orphan>>,
         frame' \in {None, frame, canvas}, undo' \in Seq(S), redo' \in Seq(S)
  PROVE  Named'
<1>0. PICK T : T = S \cup {canvas'}
  OBVIOUS
<1>1. /\ Naming(N) /\ Numbers /\ SheetsFit(N, S) /\ SaveFits(N, S) /\ OrphanFits(N)
      /\ RowsFit(N) /\ KnownFits(N) /\ Shapes
  BY Parts DEF NamedBy
<1>2. Ids \subseteq Ids' /\ nextRow \in Nat
  BY <1>1, IdsGrow DEF Shapes
<1>3. \A i \in Logical : M[i] = N[i]
  BY <1>1 DEF Naming
<1>4. RowsFit(M)' /\ KnownFits(M)' /\ OrphanFits(M)'
  BY <1>1, <1>2, <1>3, RestFits
<1>5. ASSUME save' # None
      PROVE  /\ save # None /\ save'.snap = save.snap /\ save'.made = save.made
             /\ save'.todo = save.todo
  BY <1>5, Parts DEF AtWork, MarkUnsaved
<1>6. SheetsFit(M, T)'
  <2>1. undo' \in Seq(T) /\ redo' \in Seq(T)
    BY <1>0, SeqMonotonic
  <2>2. frame' = None \/ frame' \in T
    BY <1>0, <1>1 DEF SheetsFit
  <2>3. ASSUME NEW c \in S
        PROVE  Fits(c, M, Ids') /\ \A i \in DOMAIN c.nodes : M[i] < nextName'
    <3>1. Fits(c, N, Ids) /\ \A i \in DOMAIN c.nodes : N[i] < nextName
      BY <1>1 DEF SheetsFit
    <3>2. Fits(c, M, Ids')
      BY <1>2, <3>1, FitsStill
    <3>3. \A i \in DOMAIN c.nodes : M[i] = N[i] /\ N[i] \in Int
      BY <3>1 DEF Fits, NodesFit
    <3> QED
      BY <3>1, <3>2, <3>3, <1>1 DEF Numbers
  <2>4. save' # None => save'.snap \in T
    BY <1>0, <1>1, <1>5 DEF SheetsFit
  <2> QED
    BY <1>0, <2>1, <2>2, <2>3, <2>4 DEF SheetsFit
<1>7. SaveFits(M, T)'
  <2> SUFFICES ASSUME save' # None PROVE MadeFits(save', M, Ids', T) /\ CallsFit(save')
    BY DEF SaveFits
  <2>1. MadeFits(save, N, Ids, S) /\ CallsFit(save)
    BY <1>1, <1>5 DEF SaveFits
  <2>2. MadeFits(save, M, Ids', S)
    BY <1>2, <2>1, MadeStill
  <2>3. MadeFits(save', M, Ids', T)
    BY <1>0, <1>5, <2>2 DEF MadeFits, Unmade
  <2> QED
    BY <1>5, <2>1, <2>3 DEF CallsFit
<1>8. NamedBy(M, T)'
  BY <1>4, <1>6, <1>7 DEF NamedBy
<1> QED
  BY <1>8 DEF Named

\* What an edit takes away, and what it changes but the names.
Trimmed(c, d) ==
  /\ DOMAIN d = {"nodes", "edges"} /\ DOMAIN d.nodes \subseteq DOMAIN c.nodes
  /\ \A i \in DOMAIN d.nodes :
       DOMAIN d.nodes[i] = {"name", "ref"} /\ d.nodes[i].name = c.nodes[i].name
  /\ DOMAIN d.edges \subseteq DOMAIN c.edges
  /\ \A e \in DOMAIN d.edges :
       /\ DOMAIN d.edges[e] = {"from", "to", "cond"}
       /\ d.edges[e].from \in DOMAIN d.nodes \cup Logical
       /\ d.edges[e].to \in DOMAIN d.nodes \cup Logical

LEMMA TrimmedFits ==
  ASSUME NEW c, NEW d, Trimmed(c, d), NEW N, NEW I, Fits(c, N, I)
  PROVE  Fits(d, N, I)
<1>1. NodesFit(c.nodes, N, I) /\ DOMAIN c.edges \subseteq I /\ \A e \in DOMAIN c.edges : N[e] = 0
  BY DEF Fits
<1>2. NodesFit(d.nodes, N, I)
  BY <1>1 DEF NodesFit, Distinct, Trimmed
<1> QED
  BY <1>1, <1>2 DEF Fits, Trimmed

\* An edit that brings no new id.
LEMMA KeepingIdsNamed ==
  ASSUME Sound, NEW N, NEW S, NamedBy(N, S), MarkUnsaved,
         UNCHANGED <<stored, ids, known, orphan>>,
         frame' \in {None, frame, canvas}, undo' \in Seq(S), redo' \in Seq(S),
         canvas' \in S \/ Trimmed(canvas, canvas')
  PROVE  Named'
<1>1. Numbers /\ Naming(N) /\ SheetsFit(N, S) /\ Shapes
  BY Parts DEF NamedBy
<1>2. UNCHANGED <<nextRow, nextTemp, nextName>> /\ Ids' = Ids /\ Numbers' /\ nextName \in Nat
  BY <1>1 DEF ids, Ids, Temps, Numbers
<1>3. /\ Fits(canvas', N, Ids) /\ \A i \in DOMAIN canvas'.nodes : N[i] < nextName
      /\ Unmade(canvas')
  <2>1. CASE canvas' \in S
    BY <1>1, <2>1, UnmadeSheets DEF SheetsFit
  <2>2. CASE Trimmed(canvas, canvas')
    <3>1. /\ canvas \in S /\ Fits(canvas, N, Ids)
          /\ \A i \in DOMAIN canvas.nodes : N[i] < nextName
      BY <1>1 DEF SheetsFit
    <3>2. Unmade(canvas)
      BY <3>1, UnmadeSheets
    <3>3. Fits(canvas', N, Ids)
      BY <2>2, <3>1, TrimmedFits
    <3>4. DOMAIN canvas'.nodes \subseteq DOMAIN canvas.nodes /\ DOMAIN canvas'.edges \subseteq DOMAIN canvas.edges
      BY <2>2 DEF Trimmed
    <3> QED
      BY <3>1, <3>2, <3>3, <3>4 DEF Unmade
  <2> QED
    BY <2>1, <2>2
<1> QED
  BY <1>1, <1>2, <1>3, EditNamed

\* The stacks hold sheets.
LEMMA PushSheet ==
  ASSUME NEW S, NEW stack \in Seq(S), NEW c \in S
  PROVE  Push(stack, c) \in Seq(S)
<1>1. HistoryLimit \in Nat /\ Len(stack) \in Nat
  BY EditorAssumption
<1>2. CASE Len(stack) < HistoryLimit
  BY <1>2, AppendProperties DEF Push
<1>3. CASE ~(Len(stack) < HistoryLimit)
  <2> DEFINE m == Len(stack) - HistoryLimit + 2
  <2>1. m \in Int /\ \A i \in m..Len(stack) : stack[i] \in S
    <3>1. m \in Int /\ m >= 1
      BY <1>1, <1>3
    <3> QED
      BY <1>1, <3>1
  <2>2. SubSeq(stack, m, Len(stack)) \in Seq(S)
    BY <1>1, <2>1, SubSeqProperties
  <2> QED
    BY <1>3, <2>2, AppendProperties DEF Push
<1> QED
  BY <1>2, <1>3

LEMMA PoppedSheet ==
  ASSUME NEW S, NEW stack \in Seq(S), stack # <<>>
  PROVE  SubSeq(stack, 1, Len(stack) - 1) \in Seq(S) /\ stack[Len(stack)] \in S
<1>1. Len(stack) \in Nat /\ Len(stack) # 0
  BY EmptySeq
<1>2. \A i \in 1..(Len(stack) - 1) : stack[i] \in S
  BY <1>1
<1>3. SubSeq(stack, 1, Len(stack) - 1) \in Seq(S)
  BY <1>1, <1>2, SubSeqProperties
<1> QED
  BY <1>1, <1>3

LEMMA RecordedNamed ==
  ASSUME Sound, NEW N, NEW S, NamedBy(N, S), NEW c, EditKeepingIds(c), Trimmed(canvas, c)
  PROVE  Named'
<1>1. undo \in Seq(S) /\ redo \in Seq(S)
  BY DEF NamedBy, SheetsFit
<1>2. /\ MarkUnsaved /\ UNCHANGED <<stored, ids, known, orphan, undo, redo>>
      /\ frame' \in {frame, canvas} /\ canvas' = c
  BY DEF EditKeepingIds, Edit, ShowCanvas, RecordHistory, ids
<1> QED
  BY <1>1, <1>2, KeepingIdsNamed

LEMMA CanvasFits ==
  ASSUME NEW N, NEW S, NamedBy(N, S)
  PROVE  /\ canvas \in S /\ Fits(canvas, N, Ids)
         /\ DOMAIN canvas = {"nodes", "edges"}
         /\ \A i \in DOMAIN canvas.nodes : DOMAIN canvas.nodes[i] = {"name", "ref"}
         /\ \A e \in DOMAIN canvas.edges :
              /\ DOMAIN canvas.edges[e] = {"from", "to", "cond"}
              /\ canvas.edges[e].from \in DOMAIN canvas.nodes \cup Logical
              /\ canvas.edges[e].to \in DOMAIN canvas.nodes \cup Logical
BY DEF NamedBy, SheetsFit, Fits, NodesFit

LEMMA ChangedNode ==
  ASSUME NEW N, NEW S, NamedBy(N, S), NEW id \in DOMAIN canvas.nodes, NEW ref
  PROVE  Trimmed(canvas, [canvas EXCEPT !.nodes[id].ref = ref])
<1> DEFINE d == [canvas EXCEPT !.nodes[id].ref = ref]
<1>1. /\ DOMAIN d = {"nodes", "edges"} /\ d.edges = canvas.edges
      /\ d.nodes = [canvas.nodes EXCEPT ![id].ref = ref]
  BY CanvasFits
<1> HIDE DEF d
<1>2. DOMAIN d.nodes = DOMAIN canvas.nodes
  BY <1>1
<1>3. \A i \in DOMAIN d.nodes :
         DOMAIN d.nodes[i] = {"name", "ref"} /\ d.nodes[i].name = canvas.nodes[i].name
  BY <1>1, CanvasFits
<1>4. Trimmed(canvas, d)
  BY <1>1, <1>2, <1>3, CanvasFits DEF Trimmed
<1> QED
  BY <1>4 DEF d

LEMMA DragNamed ==
  ASSUME Sound, NEW N, NEW S, NamedBy(N, S), NEW id \in DOMAIN canvas.nodes, NEW ref,
         DragNode(id, ref)
  PROVE  Named'
<1>1. undo \in Seq(S) /\ canvas \in S
  BY DEF NamedBy, SheetsFit
<1>2. /\ undo' = Push(undo, canvas) /\ redo' = <<>> /\ frame' = None
      /\ MarkUnsaved /\ UNCHANGED <<stored, ids, known, orphan>>
      /\ canvas' = [canvas EXCEPT !.nodes[id].ref = ref]
  BY DEF DragNode, ShowCanvas, ids
<1>3. undo' \in Seq(S) /\ redo' \in Seq(S)
  BY <1>1, <1>2, PushSheet, EmptySeq
<1>4. Trimmed(canvas, canvas')
  BY <1>2, ChangedNode
<1> QED
  BY <1>2, <1>3, <1>4, KeepingIdsNamed

LEMMA DeletedNode ==
  ASSUME NEW N, NEW S, NamedBy(N, S), NEW id
  PROVE  Trimmed(canvas,
           [nodes |-> [n \in DOMAIN canvas.nodes \ {id} |->
                         RemoveReferences(canvas.nodes[n], NameOf(canvas, id))],
            edges |-> Drop(canvas.edges, Attached(id))])
<1> DEFINE d == [nodes |-> [n \in DOMAIN canvas.nodes \ {id} |->
                         RemoveReferences(canvas.nodes[n], NameOf(canvas, id))],
                 edges |-> Drop(canvas.edges, Attached(id))]
<1>1. /\ DOMAIN d = {"nodes", "edges"} /\ DOMAIN d.nodes = DOMAIN canvas.nodes \ {id}
      /\ \A n \in DOMAIN d.nodes :
           d.nodes[n] = RemoveReferences(canvas.nodes[n], NameOf(canvas, id))
      /\ d.edges = Drop(canvas.edges, Attached(id))
  OBVIOUS
<1> HIDE DEF d
<1>2. \A n \in DOMAIN d.nodes :
         DOMAIN d.nodes[n] = {"name", "ref"} /\ d.nodes[n].name = canvas.nodes[n].name
  BY <1>1, CanvasFits DEF RemoveReferences
<1>3. \A e \in DOMAIN d.edges :
         /\ e \in DOMAIN canvas.edges /\ d.edges[e] = canvas.edges[e]
         /\ id \notin {canvas.edges[e].from, canvas.edges[e].to}
  BY <1>1 DEF Drop, Attached
<1>4. Trimmed(canvas, d)
  BY <1>1, <1>2, <1>3, CanvasFits DEF Trimmed
<1> QED
  BY <1>4 DEF d

LEMMA ReconnectedEdge ==
  ASSUME NEW N, NEW S, NamedBy(N, S), NEW e \in DOMAIN canvas.edges,
         NEW from \in DOMAIN canvas.nodes, NEW to \in DOMAIN canvas.nodes
  PROVE  Trimmed(canvas, [canvas EXCEPT !.edges[e].from = from, !.edges[e].to = to])
<1> DEFINE d == [canvas EXCEPT !.edges[e].from = from, !.edges[e].to = to]
<1>1. /\ DOMAIN d = {"nodes", "edges"} /\ d.nodes = canvas.nodes
      /\ DOMAIN d.edges = DOMAIN canvas.edges
      /\ \A x \in DOMAIN canvas.edges : x # e => d.edges[x] = canvas.edges[x]
      /\ d.edges[e] = [canvas.edges[e] EXCEPT !.from = from, !.to = to]
  BY CanvasFits
<1> HIDE DEF d
<1>2. /\ DOMAIN d.edges[e] = {"from", "to", "cond"} /\ d.edges[e].from = from
      /\ d.edges[e].to = to
  BY <1>1, CanvasFits
<1>3. Trimmed(canvas, d)
  BY <1>1, <1>2, CanvasFits DEF Trimmed
<1> QED
  BY <1>3 DEF d

LEMMA ConditionEdge ==
  ASSUME NEW N, NEW S, NamedBy(N, S), NEW e \in DOMAIN canvas.edges
  PROVE  Trimmed(canvas, [canvas EXCEPT !.edges[e].cond = ~@])
<1> DEFINE d == [canvas EXCEPT !.edges[e].cond = ~@]
<1>1. /\ DOMAIN d = {"nodes", "edges"} /\ d.nodes = canvas.nodes
      /\ DOMAIN d.edges = DOMAIN canvas.edges
      /\ \A x \in DOMAIN canvas.edges : x # e => d.edges[x] = canvas.edges[x]
      /\ d.edges[e] = [canvas.edges[e] EXCEPT !.cond = ~@]
  BY CanvasFits
<1> HIDE DEF d
<1>2. /\ DOMAIN d.edges[e] = {"from", "to", "cond"}
      /\ d.edges[e].from = canvas.edges[e].from /\ d.edges[e].to = canvas.edges[e].to
  BY <1>1, CanvasFits
<1>3. Trimmed(canvas, d)
  BY <1>1, <1>2, CanvasFits DEF Trimmed
<1> QED
  BY <1>3 DEF d

LEMMA DroppedEdge ==
  ASSUME NEW N, NEW S, NamedBy(N, S), NEW e
  PROVE  Trimmed(canvas, [canvas EXCEPT !.edges = Drop(@, {e})])
<1> DEFINE d == [canvas EXCEPT !.edges = Drop(@, {e})]
<1>1. /\ DOMAIN d = {"nodes", "edges"} /\ d.nodes = canvas.nodes
      /\ d.edges = Drop(canvas.edges, {e})
  BY CanvasFits
<1> HIDE DEF d
<1>2. \A x \in DOMAIN d.edges : x \in DOMAIN canvas.edges /\ d.edges[x] = canvas.edges[x]
  BY <1>1 DEF Drop
<1>3. Trimmed(canvas, d)
  BY <1>1, <1>2, CanvasFits DEF Trimmed
<1> QED
  BY <1>3 DEF d

LEMMA UndoNamed ==
  ASSUME Sound, NEW N, NEW S, NamedBy(N, S), Undo
  PROVE  Named'
<1> DEFINE past == IF frame = None THEN undo ELSE Append(undo, frame)
<1>1. /\ undo \in Seq(S) /\ redo \in Seq(S) /\ canvas \in S
      /\ frame = None \/ frame \in S
  BY DEF NamedBy, SheetsFit
<1>2. past \in Seq(S)
  BY <1>1, AppendProperties
<1>3. /\ past # <<>> /\ undo' = SubSeq(past, 1, Len(past) - 1)
      /\ redo' = Append(redo, canvas) /\ frame' = None /\ canvas' = past[Len(past)]
      /\ MarkUnsaved /\ UNCHANGED <<stored, ids, known, orphan>>
  BY DEF Undo, ShowCanvas, ids
<1> HIDE DEF past
<1>4. undo' \in Seq(S) /\ canvas' \in S
  BY <1>2, <1>3, PoppedSheet
<1>5. redo' \in Seq(S)
  BY <1>1, <1>3, AppendProperties
<1> QED
  BY <1>3, <1>4, <1>5, KeepingIdsNamed

LEMMA RedoNamed ==
  ASSUME Sound, NEW N, NEW S, NamedBy(N, S), Redo
  PROVE  Named'
<1>1. undo \in Seq(S) /\ redo \in Seq(S) /\ canvas \in S
  BY DEF NamedBy, SheetsFit
<1>2. /\ redo # <<>> /\ redo' = SubSeq(redo, 1, Len(redo) - 1)
      /\ undo' = Append(undo, canvas) /\ frame' = frame /\ canvas' = redo[Len(redo)]
      /\ MarkUnsaved /\ UNCHANGED <<stored, ids, known, orphan>>
  BY DEF Redo, ShowCanvas, ids
<1>3. redo' \in Seq(S) /\ canvas' \in S
  BY <1>1, <1>2, PoppedSheet
<1>4. undo' \in Seq(S)
  BY <1>1, <1>2, AppendProperties
<1> QED
  BY <1>2, <1>3, <1>4, KeepingIdsNamed

LEMMA AddNodeNamed ==
  ASSUME Sound, NEW N, NEW S, NamedBy(N, S), NEW ref, AddNode(ref)
  PROVE  Named'
<1> DEFINE M == [N EXCEPT ![nextTemp] = nextName]
           node == [name |-> nextName, ref |-> ref]
<1>1. /\ Naming(N) /\ Numbers /\ SheetsFit(N, S) /\ Shapes
  BY Parts DEF NamedBy
<1>2. /\ nextName <= MaxNodes /\ nextName' = nextName + 1 /\ nextTemp' = nextTemp - 1
      /\ canvas' = [canvas EXCEPT !.nodes = Put(@, nextTemp, node)]
      /\ MarkUnsaved /\ UNCHANGED <<stored, nextRow, known, orphan, undo, redo>>
      /\ frame' \in {frame, canvas}
  BY DEF AddNode, Edit, ShowCanvas, RecordHistory
<1>3. /\ MaxNodes \in Nat /\ nextTemp \in Int /\ nextTemp < -MaxNodes
      /\ nextName \in Nat \ {0} /\ nextRow \in Nat
  BY <1>1, EditorAssumption DEF Numbers, Shapes
<1>4. nextTemp \notin Ids \cup Logical /\ Ids \subseteq Int
  BY <1>1, IdsFacts
<1>5. Naming(M) /\ M[nextTemp] = nextName /\ \A j \in Int : j # nextTemp => M[j] = N[j]
  <2>1. nextName \in 0..MaxNodes /\ nextTemp \notin Logical
    BY <1>2, <1>3, <1>4
  <2> QED
    BY <1>1, <1>3, <2>1, NewName
<1> HIDE DEF M
<1>6. Numbers'
  BY <1>2, <1>3 DEF Numbers
<1>7. Ids \subseteq Ids' /\ nextTemp \in Ids'
  BY <1>1, <1>2, <1>3, IdsGrow
<1>8. /\ Fits(canvas, N, Ids) /\ \A i \in DOMAIN canvas.nodes : N[i] < nextName
      /\ canvas \in S
  BY <1>1 DEF SheetsFit
<1>20. \A i \in Ids : M[i] = N[i]
  BY <1>4, <1>5
<1>9. Fits(canvas, M, Ids')
  BY <1>7, <1>8, <1>20, FitsStill
<1>10. DOMAIN canvas.nodes \subseteq Ids /\ DOMAIN canvas.edges \subseteq Ids
       /\ \A i \in DOMAIN canvas.nodes : N[i] \in 1..MaxNodes
  BY <1>8 DEF Fits, NodesFit
<1>11. /\ DOMAIN canvas' = {"nodes", "edges"} /\ canvas'.edges = canvas.edges
       /\ canvas'.nodes = Put(canvas.nodes, nextTemp, node)
  BY <1>2, CanvasFits
<1>12. /\ DOMAIN canvas'.nodes = DOMAIN canvas.nodes \cup {nextTemp}
       /\ canvas'.nodes[nextTemp] = node
       /\ \A i \in DOMAIN canvas.nodes : canvas'.nodes[i] = canvas.nodes[i]
  BY <1>4, <1>10, <1>11 DEF Put
<1>13. NodesFit(canvas'.nodes, M, Ids')
  <2>1. NodesFit(canvas.nodes, M, Ids')
    BY <1>9 DEF Fits
  <2>2. \A i \in DOMAIN canvas.nodes : canvas.nodes[i].name # nextName
    <3>1. \A i \in DOMAIN canvas.nodes : canvas.nodes[i].name = N[i] /\ N[i] < nextName
      BY <1>8 DEF Fits, NodesFit
    <3> QED
      BY <1>3, <1>10, <3>1
  <2>3. Distinct(canvas'.nodes)
    <3>1. Distinct(canvas.nodes)
      BY <2>1 DEF NodesFit
    <3>2. canvas'.nodes[nextTemp].name = nextName
      BY <1>12
    <3> QED
      BY <1>12, <2>2, <3>1, <3>2 DEF Distinct
  <2>4. DOMAIN node = {"name", "ref"} /\ node.name = nextName /\ nextName \in 1..MaxNodes
    BY <1>2, <1>3
  <2> HIDE DEF node
  <2>5. ASSUME NEW i \in DOMAIN canvas'.nodes
        PROVE  /\ i \in Ids' /\ DOMAIN canvas'.nodes[i] = {"name", "ref"}
               /\ canvas'.nodes[i].name = M[i] /\ M[i] \in 1..MaxNodes
    <3>1. CASE i = nextTemp
      BY <1>5, <1>7, <1>12, <2>4, <3>1
    <3>2. CASE i # nextTemp
      BY <1>12, <2>1, <3>2 DEF NodesFit
    <3> QED
      BY <3>1, <3>2
  <2> QED
    BY <2>3, <2>5 DEF NodesFit
<1>14. Fits(canvas', M, Ids')
  BY <1>9, <1>11, <1>12, <1>13 DEF Fits
<1>15. \A i \in DOMAIN canvas'.nodes : M[i] < nextName'
  <2> TAKE i \in DOMAIN canvas'.nodes
  <2>1. CASE i = nextTemp
    BY <1>2, <1>3, <1>5, <2>1
  <2>2. CASE i # nextTemp
    <3>1. i \in DOMAIN canvas.nodes /\ i \in Ids /\ N[i] < nextName /\ N[i] \in 1..MaxNodes
      BY <1>8, <1>10, <1>12, <2>2
    <3>2. M[i] = N[i]
      BY <1>4, <1>5, <2>2, <3>1
    <3> QED
      BY <1>2, <1>3, <3>1, <3>2
  <2> QED
    BY <2>1, <2>2
<1>16. Unmade(canvas')
  <2>1. Unmade(canvas)
    BY <1>8, UnmadeSheets
  <2>2. save # None => \A t \in DOMAIN save.made : save.made[t] \in Ids
    BY DEF NamedBy, SaveFits, MadeFits
  <2> QED
    BY <1>4, <1>11, <1>12, <2>1, <2>2 DEF Unmade
<1>18. undo' \in Seq(S) /\ redo' \in Seq(S)
  BY <1>1, <1>2 DEF SheetsFit
<1>19. nextName' >= nextName
  BY <1>2, <1>3
<1> QED
  BY <1>2, <1>5, <1>6, <1>14, <1>15, <1>16, <1>18, <1>19, <1>20, EditNamed

LEMMA ConnectNamed ==
  ASSUME Sound, NEW N, NEW S, NamedBy(N, S), NEW from \in DOMAIN canvas.nodes,
         NEW to \in DOMAIN canvas.nodes, Connect(from, to)
  PROVE  Named'
<1> DEFINE M == [N EXCEPT ![nextTemp] = 0]
           edge == [from |-> from, to |-> to, cond |-> FALSE]
<1>1. /\ Naming(N) /\ Numbers /\ SheetsFit(N, S) /\ Shapes
  BY Parts DEF NamedBy
<1>2. /\ nextName' = nextName /\ nextTemp' = nextTemp - 1
      /\ canvas' = [canvas EXCEPT !.edges = Put(@, nextTemp, edge)]
      /\ MarkUnsaved /\ UNCHANGED <<stored, nextRow, known, orphan, undo, redo>>
      /\ frame' \in {frame, canvas}
  BY DEF Connect, Edit, ShowCanvas, RecordHistory
<1>3. /\ MaxNodes \in Nat /\ nextTemp \in Int /\ nextTemp < -MaxNodes
      /\ nextName \in Nat \ {0} /\ nextRow \in Nat
  BY <1>1, EditorAssumption DEF Numbers, Shapes
<1>4. nextTemp \notin Ids \cup Logical /\ Ids \subseteq Int
  BY <1>1, IdsFacts
<1>5. Naming(M) /\ M[nextTemp] = 0 /\ \A j \in Int : j # nextTemp => M[j] = N[j]
  <2>1. 0 \in 0..MaxNodes /\ nextTemp \notin Logical
    BY <1>3, <1>4
  <2> QED
    BY <1>1, <1>3, <2>1, NewName
<1> HIDE DEF M
<1>6. Numbers'
  BY <1>2, <1>3 DEF Numbers
<1>7. Ids \subseteq Ids' /\ nextTemp \in Ids'
  BY <1>1, <1>2, <1>3, IdsGrow
<1>8. /\ Fits(canvas, N, Ids) /\ \A i \in DOMAIN canvas.nodes : N[i] < nextName
      /\ canvas \in S
  BY <1>1 DEF SheetsFit
<1>20. \A i \in Ids : M[i] = N[i]
  BY <1>4, <1>5
<1>9. Fits(canvas, M, Ids')
  BY <1>7, <1>8, <1>20, FitsStill
<1>10. DOMAIN canvas.nodes \subseteq Ids /\ DOMAIN canvas.edges \subseteq Ids
  BY <1>8 DEF Fits, NodesFit
<1>11. /\ DOMAIN canvas' = {"nodes", "edges"} /\ canvas'.nodes = canvas.nodes
       /\ canvas'.edges = Put(canvas.edges, nextTemp, edge)
  BY <1>2, CanvasFits
<1>12. /\ DOMAIN canvas'.edges = DOMAIN canvas.edges \cup {nextTemp}
       /\ canvas'.edges[nextTemp] = edge
       /\ \A e \in DOMAIN canvas.edges : canvas'.edges[e] = canvas.edges[e]
  BY <1>4, <1>10, <1>11 DEF Put
<1>13. DOMAIN edge = {"from", "to", "cond"} /\ edge.from = from /\ edge.to = to
  OBVIOUS
<1> HIDE DEF edge
<1>14. Fits(canvas', M, Ids')
  <2>1. ASSUME NEW e \in DOMAIN canvas'.edges
        PROVE  /\ e \in Ids' /\ M[e] = 0 /\ DOMAIN canvas'.edges[e] = {"from", "to", "cond"}
               /\ {canvas'.edges[e].from, canvas'.edges[e].to}
                    \subseteq DOMAIN canvas.nodes \cup Logical
    <3>1. CASE e = nextTemp
      BY <1>5, <1>7, <1>12, <1>13, <3>1
    <3>2. CASE e # nextTemp
      BY <1>9, <1>12, <3>2 DEF Fits
    <3> QED
      BY <3>1, <3>2
  <2> QED
    BY <1>9, <1>11, <2>1 DEF Fits
<1>16. Unmade(canvas')
  <2>1. Unmade(canvas)
    BY <1>8, UnmadeSheets
  <2>2. save # None => \A t \in DOMAIN save.made : save.made[t] \in Ids
    BY DEF NamedBy, SaveFits, MadeFits
  <2> QED
    BY <1>4, <1>11, <1>12, <2>1, <2>2 DEF Unmade
<1>17. undo' \in Seq(S) /\ redo' \in Seq(S)
  BY <1>1, <1>2 DEF SheetsFit
<1>18. nextName' >= nextName /\ \A i \in DOMAIN canvas'.nodes : M[i] < nextName'
  BY <1>2, <1>3, <1>8, <1>10, <1>11, <1>20
<1> QED
  BY <1>2, <1>5, <1>6, <1>14, <1>16, <1>17, <1>18, <1>20, EditNamed

LEMMA EditingNamed ==
  ASSUME Sound, Named, Editing
  PROVE  Named'
<1>1. PICK N, S : NamedBy(N, S)
  BY DEF Named
<1>2. CASE DropNode \/ \E id \in DOMAIN canvas.nodes : DuplicateNode(id)
  BY <1>1, <1>2, AddNodeNamed DEF DropNode, DuplicateNode
<1>3. CASE Undo \/ Redo
  BY <1>1, <1>3, UndoNamed, RedoNamed
<1>4. CASE \E id \in DOMAIN canvas.nodes :
             DeleteNode(id) \/ \E ref : UpdateNode(id, ref)
  BY <1>1, <1>4, RecordedNamed, DeletedNode, ChangedNode DEF DeleteNode, UpdateNode
<1>5. CASE \E id \in DOMAIN canvas.nodes : \E ref : DragNode(id, ref)
  BY <1>1, <1>5, DragNamed
<1>6. CASE \E from, to \in DOMAIN canvas.nodes : Connect(from, to)
  BY <1>1, <1>6, ConnectNamed
<1>7. CASE \E e \in DOMAIN canvas.edges :
             \/ ChangeCondition(e) \/ DeleteEdge(e)
             \/ \E from, to \in DOMAIN canvas.nodes : Reconnect(e, from, to)
  BY <1>1, <1>7, RecordedNamed, ConditionEdge, DroppedEdge, ReconnectedEdge
  DEF ChangeCondition, DeleteEdge, Reconnect
<1> QED
  BY <1>2, <1>3, <1>4, <1>5, <1>6, <1>7 DEF Editing

-----------------------------------------------------------------------------
(* Steps that show no other canvas.                                        *)

LEMMA SheetsStill ==
  ASSUME NEW N, NEW M, NEW S, Numbers, SheetsFit(N, S), SaveFits(N, S),
         Ids \subseteq Ids', \A i \in Ids : M[i] = N[i],
         UNCHANGED <<canvas, undo, redo, frame, save, nextName>>
  PROVE  SheetsFit(M, S)' /\ SaveFits(M, S)'
<1>1. ASSUME NEW c \in S
      PROVE  Fits(c, M, Ids') /\ \A i \in DOMAIN c.nodes : M[i] < nextName'
  <2>1. Fits(c, N, Ids) /\ \A i \in DOMAIN c.nodes : N[i] < nextName
    BY DEF SheetsFit
  <2>2. Fits(c, M, Ids')
    BY <2>1, FitsStill
  <2>3. \A i \in DOMAIN c.nodes : M[i] = N[i]
    BY <2>1 DEF Fits, NodesFit
  <2> QED
    BY <2>1, <2>2, <2>3
<1>2. SheetsFit(M, S)'
  BY <1>1 DEF SheetsFit
<1>3. SaveFits(M, S)'
  <2>1. save # None => MadeFits(save, M, Ids', S) /\ CallsFit(save)
    BY MadeStill DEF SaveFits
  <2> QED
    BY <2>1 DEF SaveFits
<1> QED
  BY <1>2, <1>3

LEMMA AroundNamed ==
  ASSUME Named, UNCHANGED <<stored.nodes, stored.edges, ids, canvas, known, save, orphan>>,
         \/ UNCHANGED history
         \/ undo' = Push(undo, frame) /\ frame # None /\ redo' = <<>> /\ frame' = None
  PROVE  Named'
<1>1. PICK N, S : NamedBy(N, S)
  BY DEF Named
<1>2. UNCHANGED <<nextRow, nextTemp, nextName>> /\ Ids' = Ids
  BY DEF ids, Ids, Temps
<1>3. undo' \in Seq(S) /\ redo' \in Seq(S) /\ frame' \in {None, frame}
  <2>1. undo \in Seq(S) /\ redo \in Seq(S) /\ (frame = None \/ frame \in S)
    BY <1>1 DEF NamedBy, SheetsFit
  <2>2. CASE UNCHANGED history
    BY <2>1, <2>2 DEF history
  <2>3. CASE undo' = Push(undo, frame) /\ frame # None /\ redo' = <<>> /\ frame' = None
    BY <2>1, <2>3, PushSheet, EmptySeq
  <2> QED
    BY <2>2, <2>3
<1>4. SheetsFit(N, S)'
  BY <1>1, <1>2, <1>3 DEF NamedBy, SheetsFit
<1>5. SaveFits(N, S)' /\ OrphanFits(N)' /\ RowsFit(N)' /\ KnownFits(N)' /\ Numbers'
  BY <1>1, <1>2 DEF NamedBy, SaveFits, OrphanFits, RowsFit, KnownFits, Numbers
<1>6. NamedBy(N, S)'
  BY <1>1, <1>4, <1>5 DEF NamedBy
<1> QED
  BY <1>6 DEF Named

LEMMA WaitingNamed ==
  ASSUME Sound, Named,
         \/ HistoryTimer \/ Validate \/ Validated \/ CloseValidation \/ Publish
         \/ ServerValidates \/ PublishCall \/ ConfirmPublication \/ StayInBuilder
         \/ OpenBuilder \/ UNCHANGED vars
         \/ NavigateWithGuard /\ ~Unmount("left")
         \/ Preflight /\ ~BeginSave
         \/ OrphanEnds /\ UNCHANGED orphan
  PROVE  Named'
<1>1. UNCHANGED <<ids, canvas, known, save, orphan>>
  BY DEF HistoryTimer, Validate, Validated, CloseValidation, Publish, ServerValidates,
     ConfirmPublication, PublishCall, StayInBuilder, OpenBuilder, NavigateWithGuard,
     Preflight, OrphanEnds, PublishStep, saving, builderVars, vars
<1>2. UNCHANGED stored \/ stored' = [stored EXCEPT !.status = "published"]
  BY DEF HistoryTimer, Validate, Validated, CloseValidation, Publish, ServerValidates,
     ConfirmPublication, PublishCall, StayInBuilder, OpenBuilder, NavigateWithGuard,
     Preflight, OrphanEnds, vars
<1>3. UNCHANGED <<stored.nodes, stored.edges>>
  BY <1>2, Parts DEF Shapes
<1>4. CASE HistoryTimer
  BY <1>1, <1>3, <1>4, AroundNamed DEF HistoryTimer
<1>5. CASE ~HistoryTimer
  <2>1. UNCHANGED history
    BY <1>5 DEF Validate, Validated, CloseValidation, Publish, ServerValidates,
       ConfirmPublication, PublishCall, StayInBuilder, OpenBuilder, NavigateWithGuard,
       Preflight, OrphanEnds, PublishStep, builderVars, vars
  <2> QED
    BY <1>1, <1>3, <2>1, AroundNamed
<1> QED
  BY <1>4, <1>5

-----------------------------------------------------------------------------
(* A save.                                                                 *)

LEMMA BeginSaveNamed ==
  ASSUME Named, BeginSave, UNCHANGED <<stored, ids, canvas, known, history, orphan>>
  PROVE  Named'
<1>1. PICK N, S : NamedBy(N, S)
  BY DEF Named
<1>2. UNCHANGED <<nextRow, nextTemp, nextName, undo, redo, frame>> /\ Ids' = Ids
  BY DEF ids, history, Ids, Temps
<1>3. PICK c : c = Snapshot(canvas)
  OBVIOUS
<1>4. /\ save'.snap = c /\ save'.todo = Stages(c) /\ save'.made = <<>>
  BY <1>3 DEF BeginSave
<1>5. canvas \in S /\ Fits(canvas, N, Ids)
  BY <1>1, CanvasFits
<1>6. Fits(c, N, Ids) /\ DOMAIN c.nodes = DOMAIN canvas.nodes
  BY <1>3, <1>5, SnapshotFits
<1>7. PICK T : T = S \cup {c}
  OBVIOUS
<1>8. SheetsFit(N, T)'
  <2>1. SheetsFit(N, S)
    BY <1>1 DEF NamedBy
  <2>2. undo \in Seq(T) /\ redo \in Seq(T)
    <3>1. \A s : s \in Seq(S) => s \in Seq(T)
      BY <1>7
    <3> QED
      BY <2>1, <3>1 DEF SheetsFit
  <2>3. \A d \in T : Fits(d, N, Ids) /\ \A i \in DOMAIN d.nodes : N[i] < nextName
    BY <1>5, <1>6, <1>7, <2>1 DEF SheetsFit
  <2> QED
    BY <1>2, <1>4, <1>7, <2>1, <2>2, <2>3 DEF SheetsFit
<1>9. CallsFit(save')
  <2>1. /\ Stages(c)[1] = NewNodes(c) /\ Stages(c)[2] = UpdatedNodes(c)
        /\ Stages(c)[5] = NewEdges(c) /\ Stages(c)[6] = UpdatedEdges(c)
    BY DEF Stages
  <2>2. /\ NewNodes(c) \subseteq DOMAIN c.nodes
        /\ UpdatedNodes(c) \subseteq DOMAIN c.nodes
        /\ NewEdges(c) \subseteq DOMAIN c.edges
        /\ UpdatedEdges(c) \subseteq DOMAIN c.edges
        /\ \A i \in NewNodes(c) \cup NewEdges(c) : i < 0
    BY DEF NewNodes, UpdatedNodes, NewEdges, UpdatedEdges, IsTemp
  <2> QED
    BY <1>4, <2>1, <2>2 DEF CallsFit
<1>10. MadeFits(save', N, Ids', T)
  <2>1. DOMAIN save'.made = {}
    BY <1>4
  <2> QED
    BY <2>1 DEF MadeFits
<1>11. SaveFits(N, T)'
  BY <1>9, <1>10 DEF SaveFits
<1>12. OrphanFits(N)' /\ RowsFit(N)' /\ KnownFits(N)' /\ Numbers'
  BY <1>1, <1>2 DEF NamedBy, OrphanFits, RowsFit, KnownFits, Numbers
<1>13. NamedBy(N, T)'
  BY <1>1, <1>8, <1>11, <1>12 DEF NamedBy
<1> QED
  BY <1>13 DEF Named

\* The rows a call leaves have the names they had, and a new row that of what it
\* is made of.
LEMMA CallNames ==
  ASSUME Numbers, Shapes, NEW N, Naming(N), NEW i \in Ids, NEW k \in 1..6,
         TakesRow(k), UNCHANGED nextTemp
  PROVE  \E M : /\ Naming(M) /\ \A j \in Ids : M[j] = N[j]
                /\ k \in {1, 5} => M[nextRow] = N[i]
<1>1. nextRow \notin Ids \cup Logical /\ nextRow \in Int /\ Ids \subseteq Int
  BY IdsFacts DEF Shapes
<1>2. N[i] \in 0..MaxNodes
  BY <1>1 DEF Naming
<1> DEFINE M == [N EXCEPT ![nextRow] = N[i]]
<1>3. Naming(M) /\ M[nextRow] = N[i] /\ \A j \in Int : j # nextRow => M[j] = N[j]
  BY <1>1, <1>2, NewName
<1> HIDE DEF M
<1>4. \A j \in Ids : M[j] = N[j]
  BY <1>1, <1>3
<1> QED
  BY <1>3, <1>4

LEMMA LinkNames ==
  ASSUME Numbers, Shapes, NEW N, Naming(N), NEW c, Fits(c, N, Ids), NEW e \in DOMAIN c.edges
  PROVE  /\ IsLink(Link(c, e))
         /\ Link(c, e).from = N[c.edges[e].from] /\ Link(c, e).to = N[c.edges[e].to]
         /\ {Link(c, e).from, Link(c, e).to} \subseteq 1..MaxNodes
         /\ {c.edges[e].from, c.edges[e].to} \subseteq Ids \cup Logical
<1>1. /\ c.edges[e].from \in DOMAIN c.nodes \cup Logical
      /\ c.edges[e].to \in DOMAIN c.nodes \cup Logical
      /\ DOMAIN c.nodes \subseteq Ids
  BY DEF Fits, NodesFit
<1>2. Ids \cap Logical = {}
  BY IdsFacts
<1>3. \A id \in DOMAIN c.nodes \cup Logical : NameOf(c, id) = N[id] /\ N[id] \in 1..MaxNodes
  BY <1>2, NamedEnd
<1>4. Link(c, e) = [from |-> NameOf(c, c.edges[e].from), to |-> NameOf(c, c.edges[e].to),
                    cond |-> c.edges[e].cond]
  BY DEF Link
<1> QED
  BY <1>1, <1>3, <1>4 DEF IsLink, LinkOf

LEMMA Dropped ==
  ASSUME NEW f, NEW D, NEW g, g = Drop(f, D)
  PROVE  \A x \in DOMAIN g : x \in DOMAIN f /\ x \notin D /\ g[x] = f[x]
BY DEF Drop

LEMMA CallRows ==
  ASSUME Numbers, Shapes, NEW N, Naming(N), RowsFit(N), NEW s, Fits(s.snap, N, Ids),
         CallsFit(s), NEW k \in 1..6, NEW i \in s.todo[k], Accepts(s, k, i),
         Perform(s, k, i), TakesRow(k), UNCHANGED nextTemp,
         NEW M, Naming(M), \A j \in Ids : M[j] = N[j], k \in {1, 5} => M[nextRow] = N[i]
  PROVE  RowsFit(M)'
<1>1. /\ nextRow \notin Ids \cup Logical /\ Rows \subseteq Ids /\ nextRow \in Nat \ {0}
  BY IdsFacts DEF Shapes
<1>2. Ids \subseteq Ids' /\ (k \in {1, 5} => nextRow \in Ids')
  <2>1. nextRow' \in Nat /\ nextRow' >= nextRow
    BY <1>1 DEF TakesRow
  <2>2. k \in {1, 5} => nextRow \in nextRow..(nextRow' - 1)
    BY <1>1 DEF TakesRow
  <2> QED
    BY <2>1, <2>2, IdsGrow
<1>3. NodesFit(stored.nodes, M, Ids')
  <2>1. NodesFit(stored.nodes, N, Ids)
    BY DEF RowsFit
  <2> QED
    BY <1>2, <2>1 DEF NodesFit
<1>4. \A e \in DOMAIN stored.edges :
         /\ e \in Ids' /\ M[e] = 0 /\ IsLink(stored.edges[e])
         /\ {stored.edges[e].from, stored.edges[e].to} \subseteq 1..MaxNodes
  BY <1>1, <1>2 DEF RowsFit, Rows
<1>5. k \in {1, 2} => /\ i \in DOMAIN s.snap.nodes
                      /\ DOMAIN s.snap.nodes[i] = {"name", "ref"}
                      /\ s.snap.nodes[i].name = N[i] /\ N[i] \in 1..MaxNodes
                      /\ NameOf(s.snap, i) = N[i]
  BY DEF CallsFit, Fits, NodesFit, NameOf
<1>6. k \in {5, 6} =>
        /\ i \in DOMAIN s.snap.edges /\ N[i] = 0
        /\ IsLink(SnapEdge(s, i))
        /\ {SnapEdge(s, i).from, SnapEdge(s, i).to} \subseteq 1..MaxNodes
  <2>1. k \in {5, 6} => i \in DOMAIN s.snap.edges
    BY DEF CallsFit
  <2>2. k \in {5, 6} => N[i] = 0
    BY <2>1 DEF Fits
  <2> QED
    BY <2>1, <2>2, LinkNames DEF SnapEdge
<1>7. CASE k = 1
  <2>1. /\ stored'.nodes = Put(stored.nodes, nextRow, s.snap.nodes[i])
        /\ stored'.edges = stored.edges
    BY <1>7 DEF Perform, Shapes
  <2>2. \A r \in DOMAIN stored.nodes : stored.nodes[r].name # N[i]
    BY <1>5, <1>7 DEF Accepts, StoredRow
  <2>3. /\ DOMAIN stored'.nodes = DOMAIN stored.nodes \cup {nextRow}
        /\ stored'.nodes[nextRow] = s.snap.nodes[i]
        /\ \A r \in DOMAIN stored.nodes : stored'.nodes[r] = stored.nodes[r]
    BY <1>1, <2>1 DEF Put, Rows
  <2>4. NodesFit(stored'.nodes, M, Ids')
    BY <1>2, <1>3, <1>5, <1>7, <2>2, <2>3 DEF NodesFit, Distinct
  <2> QED
    BY <1>4, <2>1, <2>4 DEF RowsFit
<1>8. CASE k = 2
  <2>1. /\ stored'.nodes = [r \in DOMAIN stored.nodes |->
                              IF r \in StoredRow(NameOf(s.snap, i)) THEN s.snap.nodes[i]
                              ELSE stored.nodes[r]]
        /\ stored'.edges = stored.edges
    BY <1>8 DEF Perform, Shapes
  <2>2. \A r \in DOMAIN stored.nodes :
           /\ stored'.nodes[r].name = stored.nodes[r].name
           /\ DOMAIN stored'.nodes[r] = {"name", "ref"}
    BY <1>3, <1>5, <1>8, <2>1 DEF StoredRow, NodesFit
  <2>3. /\ DOMAIN stored'.nodes = DOMAIN stored.nodes /\ DOMAIN stored.nodes \subseteq Ids'
        /\ \A r \in DOMAIN stored.nodes : stored.nodes[r].name = M[r] /\ M[r] \in 1..MaxNodes
    BY <1>3, <2>1 DEF NodesFit
  <2>4. Distinct(stored'.nodes)
    BY <1>3, <2>2, <2>3 DEF NodesFit, Distinct
  <2>5. NodesFit(stored'.nodes, M, Ids')
    BY <2>2, <2>3, <2>4 DEF NodesFit
  <2> QED
    BY <1>4, <2>1, <2>5 DEF RowsFit
<1>9. CASE k = 3
  <2>1. /\ stored'.edges = Drop(stored.edges, {i}) /\ stored'.nodes = stored.nodes
    BY <1>9 DEF Perform, Shapes
  <2>2. \A e \in DOMAIN stored'.edges :
           e \in DOMAIN stored.edges /\ stored'.edges[e] = stored.edges[e]
    BY <2>1 DEF Drop
  <2>3. NodesFit(stored'.nodes, M, Ids')
    BY <1>3, <2>1
  <2>4. \A e \in DOMAIN stored'.edges :
           /\ M[e] = 0 /\ IsLink(stored'.edges[e])
           /\ {stored'.edges[e].from, stored'.edges[e].to} \subseteq 1..MaxNodes
    BY <1>4, <2>2
  <2> QED
    BY <2>3, <2>4 DEF RowsFit
<1>10. CASE k = 4
  <2>1. /\ stored'.nodes = Drop(stored.nodes, StoredRow(s.was.nodes[i].name))
        /\ stored'.edges = stored.edges
    BY <1>10 DEF Perform, Shapes
  <2>2. \A r \in DOMAIN stored'.nodes :
           r \in DOMAIN stored.nodes /\ stored'.nodes[r] = stored.nodes[r]
    BY <2>1 DEF Drop
  <2>3. NodesFit(stored'.nodes, M, Ids')
    BY <1>3, <2>2 DEF NodesFit, Distinct
  <2> QED
    BY <1>4, <2>1, <2>3 DEF RowsFit
<1>11. CASE k \in {5, 6}
  <2>1. PICK row \in Ids' :
          /\ stored'.edges = Put(stored.edges, row, SnapEdge(s, i)) /\ M[row] = 0
          /\ stored'.nodes = stored.nodes
    <3>1. CASE k = 5
      BY <1>2, <1>6, <3>1 DEF Perform, Shapes
    <3>2. CASE k = 6
      BY <1>4, <3>2 DEF Perform, Shapes, Accepts
    <3> QED
      BY <1>11, <3>1, <3>2
  <2>2. \A e \in DOMAIN stored'.edges :
           \/ e = row /\ stored'.edges[e] = SnapEdge(s, i)
           \/ e \in DOMAIN stored.edges /\ stored'.edges[e] = stored.edges[e]
    BY <2>1 DEF Put
  <2>3. NodesFit(stored'.nodes, M, Ids')
    BY <1>3, <2>1
  <2>4. \A e \in DOMAIN stored'.edges :
           /\ M[e] = 0 /\ IsLink(stored'.edges[e])
           /\ {stored'.edges[e].from, stored'.edges[e].to} \subseteq 1..MaxNodes
    <3> TAKE e \in DOMAIN stored'.edges
    <3>1. CASE e = row /\ stored'.edges[e] = SnapEdge(s, i)
      BY <1>6, <1>11, <2>1, <3>1
    <3>2. CASE e \in DOMAIN stored.edges /\ stored'.edges[e] = stored.edges[e]
      BY <1>4, <3>2
    <3> QED
      BY <2>2, <3>1, <3>2
  <2> QED
    BY <2>3, <2>4 DEF RowsFit
<1> QED
  BY <1>7, <1>8, <1>9, <1>10, <1>11

\* What the builder notes of a call.
LEMMA NoteNodes ==
  ASSUME Shapes, NEW s, NEW k \in 1..6, NEW i
  PROVE  /\ k \in {3, 5, 6} => Note(s, k, i).nodes = known.nodes
         /\ k = 1 => Note(s, k, i).nodes = Put(known.nodes, nextRow, s.snap.nodes[i])
         /\ k = 2 => Note(s, k, i).nodes = Put(known.nodes, i, s.snap.nodes[i])
         /\ k = 4 => Note(s, k, i).nodes = Drop(known.nodes, {i})
<1> DEFINE e == s.snap.edges[i]
           l == SnapEdge(s, i)
           real == [e EXCEPT !.from = RealId(s, @), !.to = RealId(s, @)]
<1>1. CASE k \in {1, 2, 3, 4}
  BY <1>1 DEF Note, Shapes
<1>2. CASE k = 5
  <2>1. Note(s, k, i) =
          [known EXCEPT !.edges = Put(@, nextRow, KnownEdge(real, l.from, l.to))]
    BY <1>2 DEF Note
  <2> HIDE DEF real, l, e
  <2> QED
    BY <1>2, <2>1 DEF Shapes
<1>3. CASE k = 6
  <2>1. Note(s, k, i) = [known EXCEPT !.edges = Put(@, i, KnownEdge(e, l.from, l.to))]
    BY <1>3 DEF Note
  <2> HIDE DEF real, l, e
  <2> QED
    BY <1>3, <2>1 DEF Shapes
<1> QED
  BY <1>1, <1>2, <1>3

LEMMA NoteLinks ==
  ASSUME Shapes, NEW s, NEW i, DOMAIN s.snap.edges[i] = {"from", "to", "cond"}
  PROVE  LET e == s.snap.edges[i]
             l == SnapEdge(s, i)
         IN  /\ \E edge : /\ Note(s, 5, i).edges = Put(known.edges, nextRow, edge)
                          /\ edge.source = RealId(s, e.from)
                          /\ edge.target = RealId(s, e.to)
                          /\ edge.from = l.from /\ edge.to = l.to /\ edge.cond = e.cond
             /\ \E edge : /\ Note(s, 6, i).edges = Put(known.edges, i, edge)
                          /\ edge.source = e.from /\ edge.target = e.to
                          /\ edge.from = l.from /\ edge.to = l.to /\ edge.cond = e.cond
<1> DEFINE e == s.snap.edges[i]
           l == SnapEdge(s, i)
           real == [e EXCEPT !.from = RealId(s, @), !.to = RealId(s, @)]
<1>1. /\ real.from = RealId(s, e.from) /\ real.to = RealId(s, e.to) /\ real.cond = e.cond
  OBVIOUS
<1>2. ASSUME NEW x, NEW a, NEW b
      PROVE  /\ KnownEdge(x, a, b).source = x.from /\ KnownEdge(x, a, b).target = x.to
             /\ KnownEdge(x, a, b).from = a /\ KnownEdge(x, a, b).to = b
             /\ KnownEdge(x, a, b).cond = x.cond
  BY DEF KnownEdge
<1>3. /\ Note(s, 5, i) = [known EXCEPT !.edges = Put(@, nextRow, KnownEdge(real, l.from, l.to))]
      /\ Note(s, 6, i) = [known EXCEPT !.edges = Put(@, i, KnownEdge(e, l.from, l.to))]
  BY DEF Note
<1> HIDE DEF real, l, e
<1>4. /\ Note(s, 5, i).edges = Put(known.edges, nextRow, KnownEdge(real, l.from, l.to))
      /\ Note(s, 6, i).edges = Put(known.edges, i, KnownEdge(e, l.from, l.to))
  BY <1>3 DEF Shapes
<1> QED
  BY <1>1, <1>2, <1>4 DEF e, l

LEMMA CallKnown ==
  ASSUME Numbers, Shapes, NEW N, Naming(N), KnownFits(N), NEW S, NEW s, s.snap \in S,
         Fits(s.snap, N, Ids), MadeFits(s, N, Ids, S),
         CallsFit(s), NEW k \in 1..6, NEW i \in s.todo[k], TakesRow(k), UNCHANGED nextTemp,
         known' = Note(s, k, i),
         NEW M, Naming(M), \A j \in Ids : M[j] = N[j], k \in {1, 5} => M[nextRow] = N[i]
  PROVE  KnownFits(M)'
<1>1. /\ nextRow \notin Ids \cup Logical /\ nextRow \in Nat \ {0} /\ Ids \cap Logical = {}
  BY IdsFacts DEF Shapes
<1>2. Ids \subseteq Ids' /\ (k \in {1, 5} => nextRow \in Ids')
  <2>1. nextRow' \in Nat /\ nextRow' >= nextRow
    BY <1>1 DEF TakesRow
  <2>2. k \in {1, 5} => nextRow \in nextRow..(nextRow' - 1)
    BY <1>1 DEF TakesRow
  <2> QED
    BY <2>1, <2>2, IdsGrow
<1>3. \A j \in Logical : M[j] = N[j]
  BY DEF Naming
<1> DEFINE NodeFits(j, x) == j \in Ids' /\ x.name = M[j]
           EdgeFits(j, x) == /\ j \in Ids' /\ M[j] = 0
                             /\ {x.source, x.target} \subseteq Ids' \cup Logical
                             /\ x.from = M[x.source] /\ x.to = M[x.target]
<1>4. /\ \A j \in DOMAIN known.nodes : NodeFits(j, known.nodes[j])
      /\ \A j \in DOMAIN known.edges : EdgeFits(j, known.edges[j])
  BY <1>2, <1>3 DEF KnownFits
<1>5. \A j \in DOMAIN known'.nodes : NodeFits(j, known'.nodes[j])
  <2>1. k \in {1, 2} => i \in Ids /\ s.snap.nodes[i].name = N[i]
    BY DEF CallsFit, Fits, NodesFit
  <2>2. CASE k \in {3, 5, 6}
    BY <1>4, <2>2, NoteNodes
  <2>3. CASE k = 4
    <3>1. known'.nodes = Drop(known.nodes, {i})
      BY <2>3, NoteNodes
    <3>2. \A j \in DOMAIN known'.nodes : j \in DOMAIN known.nodes /\ known'.nodes[j] = known.nodes[j]
      BY <3>1, Dropped
    <3> QED
      BY <1>4, <3>2
  <2>4. CASE k \in {1, 2}
    <3>1. PICK row : /\ known'.nodes = Put(known.nodes, row, s.snap.nodes[i])
                     /\ row \in Ids' /\ M[row] = N[i]
      BY <1>2, <2>1, <2>4, NoteNodes
    <3>2. \A j \in DOMAIN known'.nodes :
             \/ j = row /\ known'.nodes[j] = s.snap.nodes[i]
             \/ j \in DOMAIN known.nodes /\ known'.nodes[j] = known.nodes[j]
      BY <3>1 DEF Put
    <3> QED
      BY <1>4, <2>1, <2>4, <3>1, <3>2
  <2> QED
    BY <2>2, <2>3, <2>4
<1>6. \A j \in DOMAIN known'.edges : EdgeFits(j, known'.edges[j])
  <2>1. CASE k \in {1, 2, 4}
    BY <1>4, <2>1, NoteEdges
  <2>2. CASE k = 3
    <3>1. known'.edges = Drop(known.edges, {i})
      BY <2>2, NoteEdges
    <3>2. \A j \in DOMAIN known'.edges : j \in DOMAIN known.edges /\ known'.edges[j] = known.edges[j]
      BY <3>1, Dropped
    <3> QED
      BY <1>4, <3>2
  <2>3. CASE k \in {5, 6}
    <3> DEFINE e == s.snap.edges[i]
               l == SnapEdge(s, i)
    <3>1. i \in DOMAIN s.snap.edges
      BY <2>3 DEF CallsFit
    <3>2. /\ i \in Ids /\ N[i] = 0 /\ DOMAIN e = {"from", "to", "cond"}
      BY <3>1 DEF Fits
    <3>3. /\ l.from = N[e.from] /\ l.to = N[e.to] /\ {e.from, e.to} \subseteq Ids \cup Logical
      BY <3>1, LinkNames DEF SnapEdge
    <3>4. \A j \in Ids \cup Logical : RealId(s, j) \in Ids \cup Logical /\ N[RealId(s, j)] = N[j]
      <4>1. /\ \A j \in Ids : RealId(s, j) \in Ids /\ N[RealId(s, j)] = N[j]
            /\ \A j \in Logical : RealId(s, j) = j
        BY <1>1, RealIds
      <4> QED
        BY <4>1
    <3>5. PICK row, edge :
            /\ row \in Ids' /\ M[row] = 0
            /\ known'.edges = Put(known.edges, row, edge)
            /\ edge.source \in {e.from, RealId(s, e.from)}
            /\ edge.target \in {e.to, RealId(s, e.to)}
            /\ edge.from = l.from /\ edge.to = l.to
      <4>1. CASE k = 5
        BY <1>2, <3>2, <4>1, NoteLinks
      <4>2. CASE k = 6
        BY <1>2, <3>2, <4>2, NoteLinks
      <4> QED
        BY <2>3, <4>1, <4>2
    <3>6. EdgeFits(row, edge)
      BY <1>2, <1>3, <3>3, <3>4, <3>5
    <3>7. \A j \in DOMAIN known'.edges :
             \/ j = row /\ known'.edges[j] = edge
             \/ j \in DOMAIN known.edges /\ known'.edges[j] = known.edges[j]
      BY <3>5 DEF Put
    <3> QED
      BY <1>4, <3>6, <3>7
  <2> QED
    BY <2>1, <2>2, <2>3
<1> QED
  BY <1>5, <1>6 DEF KnownFits

LEMMA AdvanceMade ==
  ASSUME NEW s, NEW k \in 1..6, NEW i,
         DOMAIN s = {"snap", "was", "todo", "made", "edited"}, DOMAIN s.todo = 1..6
  PROVE  Advance(s, k, i).made = IF k \in {1, 5} THEN Put(s.made, i, nextRow) ELSE s.made
BY DEF Advance

LEMMA AdvanceCalls ==
  ASSUME NEW s, NEW k \in 1..6, NEW i, CallsFit(s),
         DOMAIN s = {"snap", "was", "todo", "made", "edited"}, DOMAIN s.todo = 1..6
  PROVE  CallsFit(Advance(s, k, i))
<1> DEFINE t == Advance(s, k, i)
<1>1. /\ t.snap = s.snap /\ t.todo[k] = s.todo[k] \ {i}
      /\ \A j \in (1..6) \ {k} : t.todo[j] = s.todo[j]
  BY AdvanceFacts
<1> HIDE DEF t
<1>2. \A j \in 1..6 : t.todo[j] \subseteq s.todo[j]
  BY <1>1
<1>3. CallsFit(t)
  BY <1>1, <1>2 DEF CallsFit
<1> QED
  BY <1>3 DEF t

LEMMA SaveCallNamed ==
  ASSUME Sound, Named, SaveCall
  PROVE  Named'
<1> DEFINE k == Stage(save)
<1>1. PICK N, S : NamedBy(N, S)
  BY DEF Named
<1>2. /\ Shapes /\ AtWork /\ save # None /\ ~Done(save)
      /\ UNCHANGED <<nextTemp, nextName, canvas, undo, redo, frame, orphan>>
  BY Parts DEF SaveCall, history
<1>3. k \in 1..6
  BY <1>2, StageFirst
<1> HIDE DEF k
<1>4. PICK i \in save.todo[k] :
        /\ Accepts(save, k, i) /\ Perform(save, k, i) /\ TakesRow(k)
        /\ known' = Note(save, k, i) /\ save' = Advance(save, k, i)
  BY DEF SaveCall, k
<1>5. /\ Naming(N) /\ Numbers /\ SheetsFit(N, S) /\ OrphanFits(N)
      /\ RowsFit(N) /\ KnownFits(N) /\ MadeFits(save, N, Ids, S) /\ CallsFit(save)
      /\ save.snap \in S /\ Fits(save.snap, N, Ids)
  BY <1>1, <1>2 DEF NamedBy, SaveFits, SheetsFit
<1>6. k \in {1, 2, 5, 6} => i \in Ids
  <2>1. k \in {1, 2} => i \in DOMAIN save.snap.nodes
    BY <1>5 DEF CallsFit
  <2>2. k \in {5, 6} => i \in DOMAIN save.snap.edges
    BY <1>5 DEF CallsFit
  <2> QED
    BY <1>5, <2>1, <2>2 DEF Fits, NodesFit
<1>7. PICK M : /\ Naming(M) /\ \A j \in Ids : M[j] = N[j]
               /\ k \in {1, 5} => M[nextRow] = N[i]
  <2>1. CASE i \in Ids
    BY <1>2, <1>3, <1>4, <1>5, <2>1, CallNames
  <2>2. CASE k \notin {1, 5}
    BY <1>5, <2>2
  <2> QED
    BY <1>6, <2>1, <2>2
<1>8. RowsFit(M)'
  BY <1>2, <1>3, <1>4, <1>5, <1>7, CallRows
<1>9. KnownFits(M)'
  BY <1>2, <1>3, <1>4, <1>5, <1>7, CallKnown
<1>10. /\ Ids \subseteq Ids' /\ (k \in {1, 5} => nextRow \in Ids')
       /\ nextRow \notin Ids /\ nextRow \in Nat \ {0}
       /\ \A j \in Ids : j < 0 => j < -MaxNodes
  <2>1. nextRow \in Nat \ {0}
    BY <1>2 DEF Shapes
  <2>2. nextRow' \in Nat /\ nextRow' >= nextRow
    BY <1>4, <2>1 DEF TakesRow
  <2>3. k \in {1, 5} => nextRow \in nextRow..(nextRow' - 1)
    BY <1>4, <2>1 DEF TakesRow
  <2> QED
    BY <1>2, <1>5, <2>1, <2>2, <2>3, IdsGrow, IdsFacts
<1>11. /\ DOMAIN save = {"snap", "was", "todo", "made", "edited"} /\ DOMAIN save.todo = 1..6
  BY <1>2 DEF AtWork
<1>12. /\ save'.snap = save.snap
       /\ save'.made = IF k \in {1, 5} THEN Put(save.made, i, nextRow) ELSE save.made
       /\ CallsFit(save')
  BY <1>3, <1>4, <1>5, <1>11, AdvanceFacts, AdvanceMade, AdvanceCalls
<1>13. MadeFits(save', M, Ids', S)
  <2>1. MadeFits(save, M, Ids', S)
    BY <1>5, <1>7, <1>10, MadeStill
  <2>2. CASE k \notin {1, 5}
    BY <1>12, <2>1, <2>2 DEF MadeFits
  <2>3. CASE k \in {1, 5}
    <3>1. /\ DOMAIN save'.made = DOMAIN save.made \cup {i} /\ save'.made[i] = nextRow
          /\ \A t \in DOMAIN save.made : t # i => save'.made[t] = save.made[t]
      BY <1>12, <2>3 DEF Put
    <3>2. i \in Ids /\ i < 0
      BY <1>4, <1>5, <1>6, <2>3 DEF CallsFit
    <3>3. \A c \in S : nextRow \notin DOMAIN c.nodes \cup DOMAIN c.edges
      BY <1>5, <1>10 DEF SheetsFit, Fits, NodesFit
    <3>4. \A t \in DOMAIN save.made : save.made[t] # nextRow
      BY <1>5, <1>10 DEF MadeFits
    <3>5. /\ i \in Ids' /\ i < -MaxNodes /\ nextRow \in Ids' /\ nextRow > 0
          /\ M[nextRow] = M[i]
      BY <1>7, <1>10, <2>3, <3>2
    <3> QED
      BY <2>1, <3>1, <3>3, <3>4, <3>5 DEF MadeFits
  <2> QED
    BY <2>2, <2>3
<1>14. SheetsFit(M, S)'
  <2>1. ASSUME NEW c \in S
        PROVE  Fits(c, M, Ids') /\ \A j \in DOMAIN c.nodes : M[j] < nextName'
    <3>1. Fits(c, N, Ids) /\ \A j \in DOMAIN c.nodes : N[j] < nextName
      BY <1>5 DEF SheetsFit
    <3>2. Fits(c, M, Ids')
      BY <1>7, <1>10, <3>1, FitsStill
    <3>3. \A j \in DOMAIN c.nodes : M[j] = N[j]
      BY <1>7, <3>1 DEF Fits, NodesFit
    <3> QED
      BY <1>2, <3>1, <3>2, <3>3
  <2> QED
    BY <1>2, <1>5, <1>12, <2>1 DEF SheetsFit
<1>15. SaveFits(M, S)'
  BY <1>12, <1>13 DEF SaveFits
<1>16. OrphanFits(M)'
  <2>1. \A j \in Logical : M[j] = N[j]
    BY <1>5, <1>7 DEF Naming
  <2> QED
    BY <1>2, <1>5, <1>7, <1>10, <2>1, RestFits
<1>17. Numbers'
  BY <1>2, <1>5 DEF Numbers
<1>18. NamedBy(M, S)'
  BY <1>7, <1>8, <1>9, <1>14, <1>15, <1>16, <1>17 DEF NamedBy
<1> QED
  BY <1>18 DEF Named

-----------------------------------------------------------------------------
(* The end of a save.                                                      *)

LEMMA RemapNamed ==
  ASSUME Sound, NEW N, NEW S, NamedBy(N, S), save # None, save' = None,
         canvas' = Remap(save, canvas), undo' = RemapAll(save, undo),
         redo' = RemapAll(save, redo),
         UNCHANGED <<nextTemp, nextName, known, frame, orphan>>, Ids \subseteq Ids',
         NEW M, Naming(M), \A j \in Ids : M[j] = N[j], RowsFit(M)'
  PROVE  Named'
<1>1. /\ Shapes /\ Naming(N) /\ Numbers /\ SheetsFit(N, S) /\ OrphanFits(N)
      /\ KnownFits(N) /\ MadeFits(save, N, Ids, S)
  BY Parts DEF NamedBy, SaveFits
<1>2. Ids \cap Logical = {}
  BY <1>1, IdsFacts
<1>3. PICK T : T = S \cup {Remap(save, c) : c \in S}
  OBVIOUS
<1>4. ASSUME NEW stack \in Seq(S)
      PROVE  RemapAll(save, stack) \in Seq(T)
  <2>1. Len(stack) \in Nat /\ DOMAIN stack = 1..Len(stack)
        /\ \A n \in 1..Len(stack) : stack[n] \in S
    OBVIOUS
  <2>2. \A n \in 1..Len(stack) : Remap(save, stack[n]) \in T
    BY <1>3, <2>1
  <2>3. RemapAll(save, stack) = [n \in 1..Len(stack) |-> Remap(save, stack[n])]
    BY <2>1 DEF RemapAll
  <2> QED
    BY <2>1, <2>2, <2>3, SeqDef
<1>5. ASSUME NEW d \in T
      PROVE  Fits(d, M, Ids') /\ \A i \in DOMAIN d.nodes : M[i] < nextName'
  <2>1. ASSUME NEW c \in S
        PROVE  /\ Fits(c, N, Ids) /\ \A i \in DOMAIN c.nodes : i \in Ids /\ N[i] < nextName
    BY <1>1 DEF SheetsFit, Fits, NodesFit
  <2>2. Fits(d, N, Ids) /\ \A i \in DOMAIN d.nodes : i \in Ids /\ N[i] < nextName
    <3>1. CASE d \in S
      BY <2>1, <3>1
    <3>2. CASE d \notin S
      <4>1. PICK c \in S : d = Remap(save, c)
        BY <1>3, <3>2
      <4>2. Fits(d, N, Ids)
        BY <1>1, <1>2, <2>1, <4>1, RemapFits
      <4>3. DOMAIN d.nodes = {RealId(save, j) : j \in DOMAIN c.nodes}
        BY <1>1, <1>2, <2>1, <4>1, RemapShape DEF Remapped
      <4>4. \A i \in Ids : RealId(save, i) \in Ids /\ N[RealId(save, i)] = N[i]
        BY <1>1, <1>2, RealIds
      <4> QED
        BY <2>1, <4>2, <4>3, <4>4
    <3> QED
      BY <3>1, <3>2
  <2>3. Fits(d, M, Ids')
    BY <2>2, FitsStill
  <2> QED
    BY <2>2, <2>3
<1>6. SheetsFit(M, T)'
  <2>1. canvas' \in T /\ undo' \in Seq(T) /\ redo' \in Seq(T) /\ (frame' = None \/ frame' \in T)
    BY <1>1, <1>3, <1>4 DEF SheetsFit
  <2> QED
    BY <1>5, <2>1 DEF SheetsFit
<1>7. SaveFits(M, T)' /\ Numbers'
  BY <1>1 DEF SaveFits, Numbers
<1>8. OrphanFits(M)' /\ KnownFits(M)'
  <2>1. \A j \in Logical : M[j] = N[j]
    BY <1>1 DEF Naming
  <2> QED
    BY <1>1, <2>1, RestFits
<1>9. NamedBy(M, T)'
  BY <1>6, <1>7, <1>8 DEF NamedBy
<1> QED
  BY <1>9 DEF Named

LEMMA SaveOverNamed ==
  ASSUME Sound, Named, SaveEnds \/ SaveRefused \/ SaveUnreached
  PROVE  Named'
<1>1. \E state : EndSave(state)
  BY DEF SaveEnds, SaveRefused, SaveUnreached
<1>2. save # None /\ UNCHANGED stored
  BY DEF SaveEnds, SaveRefused, SaveUnreached
<1>3. /\ save' = None /\ canvas' = Remap(save, canvas) /\ undo' = RemapAll(save, undo)
      /\ redo' = RemapAll(save, redo)
      /\ UNCHANGED <<nextRow, nextTemp, nextName, known, frame, orphan>>
  BY <1>1 DEF EndSave, ids
<1>4. PICK N, S : NamedBy(N, S)
  BY DEF Named
<1>5. Ids' = Ids
  BY <1>3 DEF Ids, Temps
<1>6. Naming(N) /\ RowsFit(N)'
  BY <1>2, <1>4, <1>5 DEF NamedBy, RowsFit
<1> QED
  BY <1>2, <1>3, <1>4, <1>5, <1>6, RemapNamed

LEMMA SaveUnansweredNamed ==
  ASSUME Sound, Named, SaveUnanswered
  PROVE  Named'
<1> DEFINE k == Stage(save)
<1>1. PICK N, S : NamedBy(N, S)
  BY DEF Named
<1>2. /\ Shapes /\ save # None /\ ~Done(save) /\ save' = None
      /\ canvas' = Remap(save, canvas) /\ undo' = RemapAll(save, undo)
      /\ redo' = RemapAll(save, redo)
      /\ UNCHANGED <<nextTemp, nextName, known, frame, orphan>>
  BY Parts DEF SaveUnanswered
<1>3. k \in 1..6
  BY <1>2, StageFirst
<1>4. PICK i \in save.todo[k] : Accepts(save, k, i) /\ Perform(save, k, i) /\ TakesRow(k)
  BY DEF SaveUnanswered, TakesRow
<1> HIDE DEF k
<1>5. /\ Naming(N) /\ Numbers /\ RowsFit(N) /\ CallsFit(save) /\ Fits(save.snap, N, Ids)
  BY <1>1, <1>2 DEF NamedBy, SaveFits, SheetsFit
<1>6. k \in {1, 5} => i \in Ids
  BY <1>5 DEF CallsFit, Fits, NodesFit
<1>7. PICK M : /\ Naming(M) /\ \A j \in Ids : M[j] = N[j]
               /\ k \in {1, 5} => M[nextRow] = N[i]
  <2>1. CASE i \in Ids
    BY <1>2, <1>3, <1>4, <1>5, <2>1, CallNames
  <2>2. CASE k \notin {1, 5}
    BY <1>5, <2>2
  <2> QED
    BY <1>6, <2>1, <2>2
<1>8. RowsFit(M)'
  BY <1>2, <1>3, <1>4, <1>5, <1>7, CallRows
<1>9. Ids \subseteq Ids'
  <2>1. nextRow' \in Nat /\ nextRow' >= nextRow
    BY <1>2, <1>4 DEF TakesRow, Shapes
  <2> QED
    BY <1>2, <1>5, <2>1, IdsGrow
<1> QED
  BY <1>1, <1>2, <1>7, <1>8, <1>9, RemapNamed

-----------------------------------------------------------------------------
(* What an unmounted builder still does.                                   *)

LEMMA OrphanCallNamed ==
  ASSUME Sound, Named, OrphanCall
  PROVE  Named'
<1> DEFINE s == orphan.save
           k == Stage(s)
<1>1. PICK N, S : NamedBy(N, S)
  BY DEF Named
<1>2. /\ Shapes /\ orphan # None /\ s # None /\ ~Done(s)
      /\ UNCHANGED <<nextTemp, nextName, canvas, known, undo, redo, frame, save>>
  BY Parts DEF OrphanCall, builderVars, history, saving
<1>3. k \in 1..6
  BY <1>2, StageFirst
<1>4. PICK i \in s.todo[k] :
        \/ /\ Accepts(s, k, i) /\ Perform(s, k, i) /\ TakesRow(k)
           /\ orphan' = [orphan EXCEPT !.save = Advance(s, k, i)]
        \/ orphan' = None /\ UNCHANGED <<stored, nextRow>>
  BY DEF OrphanCall
<1> HIDE DEF k
<1>5. /\ Naming(N) /\ Numbers /\ RowsFit(N) /\ SheetsFit(N, S) /\ SaveFits(N, S)
      /\ KnownFits(N) /\ OrphanFits(N)
  BY <1>1 DEF NamedBy
<1>6. /\ DOMAIN orphan = {"save", "publishing"} /\ CallsFit(s) /\ Fits(s.snap, N, Ids)
      /\ DOMAIN s = {"snap", "was", "todo", "made", "edited"} /\ DOMAIN s.todo = 1..6
  BY <1>2, <1>5 DEF OrphanFits
<1>7. CASE orphan' = None /\ UNCHANGED <<stored, nextRow>>
  <2>1. Ids' = Ids
    BY <1>2, <1>7 DEF Ids, Temps
  <2>2. NamedBy(N, S)'
    BY <1>2, <1>5, <1>7, <2>1
    DEF NamedBy, Numbers, RowsFit, SheetsFit, SaveFits, KnownFits, OrphanFits
  <2> QED
    BY <2>2 DEF Named
<1>8. CASE /\ Accepts(s, k, i) /\ Perform(s, k, i) /\ TakesRow(k)
           /\ orphan' = [orphan EXCEPT !.save = Advance(s, k, i)]
  <2>1. k \in {1, 5} => i \in Ids
    BY <1>6 DEF CallsFit, Fits, NodesFit
  <2>2. PICK M : /\ Naming(M) /\ \A j \in Ids : M[j] = N[j]
                 /\ k \in {1, 5} => M[nextRow] = N[i]
    <3>1. CASE i \in Ids
      BY <1>2, <1>3, <1>5, <1>8, <3>1, CallNames
    <3>2. CASE k \notin {1, 5}
      BY <1>5, <3>2
    <3> QED
      BY <2>1, <3>1, <3>2
  <2>3. RowsFit(M)'
    BY <1>2, <1>3, <1>5, <1>6, <1>8, <2>2, CallRows
  <2>4. Ids \subseteq Ids'
    <3>1. nextRow' \in Nat /\ nextRow' >= nextRow
      BY <1>2, <1>8 DEF TakesRow, Shapes
    <3> QED
      BY <1>2, <1>5, <3>1, IdsGrow
  <2>5. SheetsFit(M, S)' /\ SaveFits(M, S)'
    BY <1>2, <1>5, <2>2, <2>4, SheetsStill
  <2>6. KnownFits(M)'
    <3>1. \A j \in Logical : M[j] = N[j]
      BY <1>5, <2>2 DEF Naming
    <3> QED
      BY <1>2, <1>5, <2>2, <2>4, <3>1, RestFits
  <2>7. OrphanFits(M)'
    <3>1. PICK t : t = Advance(s, k, i)
      OBVIOUS
    <3>2. /\ t.snap = s.snap /\ CallsFit(t) /\ DOMAIN t.todo = 1..6
          /\ DOMAIN t = {"snap", "was", "todo", "made", "edited"}
      BY <1>3, <1>6, <3>1, AdvanceFacts, AdvanceCalls
    <3>3. Fits(t.snap, M, Ids')
      BY <1>6, <2>2, <2>4, <3>2, FitsStill
    <3>4. orphan'.save = t /\ DOMAIN orphan' = {"save", "publishing"}
      BY <1>6, <1>8, <3>1
    <3> QED
      BY <3>2, <3>3, <3>4 DEF OrphanFits
  <2>8. NamedBy(M, S)'
    BY <1>2, <1>5, <2>2, <2>3, <2>5, <2>6, <2>7 DEF NamedBy, Numbers
  <2> QED
    BY <2>8 DEF Named
<1> QED
  BY <1>4, <1>7, <1>8

LEMMA OrphanEndsNamed ==
  ASSUME Sound, Named, OrphanEnds
  PROVE  Named'
<1>1. PICK N, S : NamedBy(N, S)
  BY DEF Named
<1>2. /\ orphan' = None
      /\ UNCHANGED <<nextRow, nextTemp, nextName, canvas, known, undo, redo, frame, save>>
      /\ UNCHANGED stored \/ stored' = [stored EXCEPT !.status = "published"]
  BY DEF OrphanEnds, builderVars, ids, history, saving
<1>3. UNCHANGED <<stored.nodes, stored.edges>>
  BY <1>2, Parts DEF Shapes
<1>4. Ids' = Ids
  BY <1>2 DEF Ids, Temps
<1>5. NamedBy(N, S)'
  BY <1>1, <1>2, <1>3, <1>4
  DEF NamedBy, Numbers, RowsFit, SheetsFit, SaveFits, KnownFits, OrphanFits
<1> QED
  BY <1>5 DEF Named

-----------------------------------------------------------------------------
(* The builder comes and goes.                                             *)

\* A set of numbers up to n has a greatest one.
LEMMA GreatestOfMany ==
  ASSUME NEW n \in Nat, NEW S \in SUBSET (0..n), S # {}
  PROVE  \E i \in S : \A j \in S : j <= i
<1> DEFINE T == {n - i : i \in S}
<1>1. T \subseteq Nat /\ T # {}
  <2>1. \A i \in S : i \in 0..n /\ n - i \in Nat
    OBVIOUS
  <2> QED
    BY <2>1
<1>2. PICK m \in T : \A k \in T : ~(<<k, m>> \in OpToRel(<, Nat))
  <2> HIDE DEF T
  <2> QED
    BY <1>1, NatLessThanWellFounded, WFMin
<1>3. PICK i \in S : m = n - i
  BY <1>2
<1>4. \A j \in S : j <= i
  <2> TAKE j \in S
  <2>1. n - j \in T /\ n - j \in Nat /\ m \in Nat
    BY <1>1, <1>2
  <2>2. ~(n - j < m)
    BY <1>2, <2>1 DEF OpToRel
  <2> QED
    BY <1>3, <2>2
<1> QED
  BY <1>3, <1>4

\* New nodes are named after those there are.
LEMMA SeedFacts ==
  ASSUME NEW N, RowsFit(N)
  PROVE  /\ SeedCounter \in Nat \ {0}
         /\ \A i \in DOMAIN stored.nodes : N[i] < SeedCounter
<1> DEFINE A == Names(stored.nodes) \cup {0}
           g == CHOOSE n \in Names(stored.nodes) \cup {0} :
                  \A m \in Names(stored.nodes) : n >= m
<1>1. MaxNodes \in Nat
  BY EditorAssumption
<1>2. \A i \in DOMAIN stored.nodes : stored.nodes[i].name = N[i] /\ N[i] \in 1..MaxNodes
  BY DEF RowsFit, NodesFit
<1>3. A \in SUBSET (0..MaxNodes) /\ A # {}
  BY <1>1, <1>2 DEF Names
<1>4. \E n \in A : \A m \in A : m <= n
  BY <1>1, <1>3, GreatestOfMany
<1>5. \A n, m \in A : m <= n <=> n >= m
  BY <1>1, <1>3
<1>6. g \in A /\ \A m \in Names(stored.nodes) : g >= m
  <2>1. \E n \in A : \A m \in Names(stored.nodes) : n >= m
    BY <1>4, <1>5
  <2> QED
    BY <2>1
<1>7. SeedCounter = 1 + g
  BY DEF SeedCounter
<1>8. \A i \in DOMAIN stored.nodes : N[i] \in Names(stored.nodes) /\ N[i] \in A
  BY <1>2 DEF Names
<1> HIDE DEF A, g
<1>9. g \in 0..MaxNodes
  BY <1>3, <1>6
<1>10. \A i \in DOMAIN stored.nodes : N[i] \in 0..MaxNodes /\ g >= N[i]
  BY <1>3, <1>6, <1>8
<1> QED
  BY <1>1, <1>7, <1>9, <1>10

\* A name is the name of its row, or of none.
LEMMA RowNames ==
  ASSUME NEW N, Naming(N), RowsFit(N), NEW n \in 1..MaxNodes
  PROVE  RowOf(n) \in DOMAIN stored.nodes \cup Logical /\ N[RowOf(n)] = n
<1>1. CASE StoredRow(n) = {}
  <2>1. RowOf(n) = n - MaxNodes - 1 /\ MaxNodes \in Nat
    BY <1>1, EditorAssumption DEF RowOf, LogicalId
  <2>2. RowOf(n) \in Logical
    BY <2>1 DEF Logical
  <2>3. N[RowOf(n)] = RowOf(n) + MaxNodes + 1
    BY <2>2 DEF Naming
  <2> QED
    BY <2>1, <2>2, <2>3
<1>2. CASE StoredRow(n) # {}
  <2>1. RowOf(n) \in StoredRow(n)
    BY <1>2 DEF RowOf
  <2> QED
    BY <2>1 DEF StoredRow, RowsFit, NodesFit
<1> QED
  BY <1>1, <1>2

LEMMA LoadNamed ==
  ASSUME Sound, Named, Load
  PROVE  Named'
<1>1. PICK N, S : NamedBy(N, S)
  BY DEF Named
<1>2. /\ Naming(N) /\ Numbers /\ RowsFit(N) /\ OrphanFits(N) /\ Shapes
  BY <1>1, Parts DEF NamedBy
<1>3. /\ UNCHANGED <<stored, nextRow, nextTemp, orphan>>
      /\ canvas' = [nodes |-> Cleaned(stored.nodes), edges |-> BuildEdges]
      /\ nextName' = SeedCounter /\ save' = None
      /\ undo' = <<>> /\ redo' = <<>> /\ frame' = None
      /\ known'.nodes = stored.nodes
      /\ known'.edges = [r \in DOMAIN stored.edges |->
                            KnownEdge(BuildEdges[r], stored.edges[r].from,
                                      stored.edges[r].to)]
  BY DEF Load, Idle
<1>4. Ids' = Ids /\ Rows \subseteq Ids
  BY <1>2, <1>3, IdsFacts DEF Ids, Temps
<1>5. /\ DOMAIN BuildEdges = DOMAIN stored.edges
      /\ \A r \in DOMAIN stored.edges :
           /\ DOMAIN BuildEdges[r] = {"from", "to", "cond"}
           /\ BuildEdges[r].from = RowOf(stored.edges[r].from)
           /\ BuildEdges[r].to = RowOf(stored.edges[r].to)
  BY DEF BuildEdges
<1>6. \A r \in DOMAIN stored.edges :
         /\ r \in Ids /\ N[r] = 0
         /\ stored.edges[r].from \in 1..MaxNodes /\ stored.edges[r].to \in 1..MaxNodes
  BY <1>2, <1>4 DEF RowsFit, Rows
<1>7. \A n \in 1..MaxNodes : RowOf(n) \in DOMAIN stored.nodes \cup Logical /\ N[RowOf(n)] = n
  BY <1>2, RowNames
<1>8. Fits(canvas', N, Ids')
  <2>1. /\ DOMAIN canvas' = {"nodes", "edges"} /\ canvas'.nodes = Cleaned(stored.nodes)
        /\ canvas'.edges = BuildEdges /\ DOMAIN canvas'.nodes = DOMAIN stored.nodes
    BY <1>3, WithoutFacts DEF Cleaned
  <2>2. NodesFit(stored.nodes, N, Ids)
    BY <1>2 DEF RowsFit
  <2>3. \A e \in DOMAIN stored.edges :
           {BuildEdges[e].from, BuildEdges[e].to} \subseteq DOMAIN stored.nodes \cup Logical
    BY <1>5, <1>6, <1>7
  <2>4. ASSUME NEW e \in DOMAIN canvas'.edges
        PROVE  /\ e \in Ids' /\ N[e] = 0 /\ DOMAIN canvas'.edges[e] = {"from", "to", "cond"}
               /\ {canvas'.edges[e].from, canvas'.edges[e].to}
                    \subseteq DOMAIN canvas'.nodes \cup Logical
    <3>1. e \in DOMAIN stored.edges /\ canvas'.edges[e] = BuildEdges[e]
      BY <1>5, <2>1
    <3>2. e \in Ids' /\ N[e] = 0 /\ DOMAIN canvas'.edges[e] = {"from", "to", "cond"}
      BY <1>4, <1>5, <1>6, <3>1
    <3>3. {canvas'.edges[e].from, canvas'.edges[e].to} \subseteq DOMAIN canvas'.nodes \cup Logical
      BY <2>1, <2>3, <3>1
    <3> QED
      BY <3>2, <3>3
  <2>5. NodesFit(canvas'.nodes, N, Ids')
    BY <1>4, <2>1, <2>2, WithoutFits DEF Cleaned
  <2> QED
    BY <2>1, <2>4, <2>5 DEF Fits
<1>9. \A i \in DOMAIN canvas'.nodes : N[i] < nextName'
  BY <1>2, <1>3, SeedFacts, WithoutFacts DEF Cleaned
<1>10. PICK T : T = {canvas'}
  OBVIOUS
<1>11. SheetsFit(N, T)'
  BY <1>3, <1>8, <1>9, <1>10, EmptySeq DEF SheetsFit
<1>12. Numbers'
  BY <1>2, <1>3, SeedFacts DEF Numbers
<1>13. KnownFits(N)'
  <2>1. \A x, a, b : /\ KnownEdge(x, a, b).source = x.from /\ KnownEdge(x, a, b).target = x.to
                     /\ KnownEdge(x, a, b).from = a /\ KnownEdge(x, a, b).to = b
    BY DEF KnownEdge
  <2>2. \A e \in DOMAIN known'.edges :
          /\ e \in DOMAIN stored.edges
          /\ known'.edges[e].source = RowOf(stored.edges[e].from)
          /\ known'.edges[e].target = RowOf(stored.edges[e].to)
          /\ known'.edges[e].from = stored.edges[e].from
          /\ known'.edges[e].to = stored.edges[e].to
    BY <1>3, <1>5, <2>1
  <2>3. DOMAIN stored.nodes \subseteq Ids /\ \A i \in DOMAIN stored.nodes : stored.nodes[i].name = N[i]
    BY <1>2 DEF RowsFit, NodesFit
  <2>4. \A i \in DOMAIN known'.nodes : i \in Ids' /\ known'.nodes[i].name = N[i]
    BY <1>3, <1>4, <2>3
  <2>5. \A n \in 1..MaxNodes : RowOf(n) \in Ids' \cup Logical
    BY <1>4, <1>7, <2>3
  <2>6. ASSUME NEW e \in DOMAIN known'.edges
        PROVE  /\ e \in Ids' /\ N[e] = 0
               /\ {known'.edges[e].source, known'.edges[e].target} \subseteq Ids' \cup Logical
               /\ known'.edges[e].from = N[known'.edges[e].source]
               /\ known'.edges[e].to = N[known'.edges[e].target]
    <3>1. e \in DOMAIN stored.edges
      BY <2>2
    <3>2. stored.edges[e].from \in 1..MaxNodes /\ stored.edges[e].to \in 1..MaxNodes
      BY <1>6, <3>1
    <3> QED
      BY <1>4, <1>6, <1>7, <2>2, <2>5, <3>1, <3>2
  <2> QED
    BY <2>4, <2>6 DEF KnownFits
<1>14. SaveFits(N, T)' /\ OrphanFits(N)' /\ RowsFit(N)'
  BY <1>2, <1>3, <1>4 DEF SaveFits, OrphanFits, RowsFit
<1>15. NamedBy(N, T)'
  BY <1>2, <1>11, <1>12, <1>13, <1>14 DEF NamedBy
<1> QED
  BY <1>15 DEF Named

\* What goes on without the builder is what it was at.
LEMMA OrphanedFits ==
  ASSUME Sound, NEW N, NEW S, NamedBy(N, S), Orphaned
  PROVE  orphan' # None =>
           /\ DOMAIN orphan' = {"save", "publishing"}
           /\ orphan'.save # None =>
                /\ DOMAIN orphan'.save = {"snap", "was", "todo", "made", "edited"}
                /\ DOMAIN orphan'.save.todo = 1..6
                /\ Fits(orphan'.save.snap, N, Ids) /\ CallsFit(orphan'.save)
<1> SUFFICES ASSUME orphan' # None
             PROVE  /\ DOMAIN orphan' = {"save", "publishing"}
                    /\ orphan'.save # None =>
                         /\ DOMAIN orphan'.save = {"snap", "was", "todo", "made", "edited"}
                         /\ DOMAIN orphan'.save.todo = 1..6
                         /\ Fits(orphan'.save.snap, N, Ids) /\ CallsFit(orphan'.save)
  OBVIOUS
<1>1. DOMAIN orphan' = {"save", "publishing"} /\ orphan'.save = save
  BY DEF Orphaned
<1>2. save # None =>
        /\ DOMAIN save = {"snap", "was", "todo", "made", "edited"} /\ DOMAIN save.todo = 1..6
        /\ Fits(save.snap, N, Ids) /\ CallsFit(save)
  BY Parts DEF AtWork, NamedBy, SheetsFit, SaveFits
<1> QED
  BY <1>1, <1>2

\* A page without a builder has nothing to name.
LEMMA AwayNamed ==
  ASSUME NEW M, Naming(M), RowsFit(M)', OrphanFits(M)', Numbers',
         canvas' = Empty, known' = Empty, Idle
  PROVE  Named'
<1>1. /\ DOMAIN Empty = {"nodes", "edges"}
      /\ DOMAIN Empty.nodes = {} /\ DOMAIN Empty.edges = {}
  BY DEF Empty
<1>2. Fits(Empty, M, Ids')
  BY <1>1 DEF Fits, NodesFit, Distinct
<1>3. PICK T : T = {Empty}
  OBVIOUS
<1>4. SheetsFit(M, T)'
  BY <1>1, <1>2, <1>3, EmptySeq DEF SheetsFit, Idle
<1>5. SaveFits(M, T)' /\ KnownFits(M)'
  BY <1>1 DEF SaveFits, KnownFits, Idle
<1>6. NamedBy(M, T)'
  BY <1>4, <1>5 DEF NamedBy
<1> QED
  BY <1>6 DEF Named

LEMMA UnmountNamed ==
  ASSUME Sound, Named, NEW to, Unmount(to)
  PROVE  Named'
<1>1. PICK N, S : NamedBy(N, S)
  BY DEF Named
<1>2. /\ UNCHANGED <<stored, nextRow, nextTemp, nextName>> /\ Orphaned /\ Idle
      /\ canvas' = Empty /\ known' = Empty
  BY DEF Unmount, ids
<1>3. Ids' = Ids
  BY <1>2 DEF Ids, Temps
<1>4. Naming(N) /\ RowsFit(N)' /\ Numbers'
  BY <1>1, <1>2, <1>3 DEF NamedBy, RowsFit, Numbers
<1>5. OrphanFits(N)'
  BY <1>1, <1>2, <1>3, OrphanedFits DEF OrphanFits
<1> QED
  BY <1>2, <1>4, <1>5, AwayNamed

\* The rows of the new draft have the names of the old ones.
LEMMA CopyNames ==
  ASSUME Numbers, Shapes, NEW N, Naming(N), RowsFit(N)
  PROVE  \E M : /\ Naming(M) /\ \A j \in Ids : M[j] = N[j]
                /\ \A a \in Rows : M[NewRow(a)] = N[a]
<1>1. /\ nextRow \in Nat \ {0} /\ Rows \subseteq Ids /\ Ids \subseteq Int
      /\ MaxNodes \in Nat /\ Logical \subseteq Int /\ \A j \in Ids \cup Logical : j < nextRow
  <2>1. MaxNodes \in Nat /\ nextRow \in Nat \ {0} /\ nextTemp \in Int
    BY EditorAssumption DEF Shapes, Numbers
  <2>2. Rows \subseteq Ids /\ Ids \subseteq Int
    BY IdsFacts
  <2>3. \A j \in Ids \cup Logical : j < nextRow
    BY <2>1 DEF Ids, Temps, Logical
  <2> QED
    BY <2>1, <2>2, <2>3 DEF Logical
<1>2. /\ \A a \in Rows : NewRow(a) \in Int /\ NewRow(a) >= nextRow
      /\ \A a, b \in Rows : NewRow(a) = NewRow(b) => a = b
  BY <1>1, NewRowsDiffer
<1> DEFINE Old(r) == CHOOSE a \in Rows : NewRow(a) = r
           M == [r \in Int |-> IF \E a \in Rows : NewRow(a) = r THEN N[Old(r)] ELSE N[r]]
<1>3. \A a \in Rows : Old(NewRow(a)) = a
  <2> TAKE a \in Rows
  <2>1. Old(NewRow(a)) \in Rows /\ NewRow(Old(NewRow(a))) = NewRow(a)
    OBVIOUS
  <2> QED
    BY <1>2, <2>1
<1>4. \A r : (\E a \in Rows : NewRow(a) = r) => Old(r) \in Rows
  OBVIOUS
<1> HIDE DEF Old
<1>5. \A r \in Int : N[r] \in 0..MaxNodes
  BY DEF Naming
<1>6. M \in [Int -> 0..MaxNodes]
  BY <1>1, <1>4, <1>5
<1>7. \A a \in Rows : M[NewRow(a)] = N[a]
  BY <1>2, <1>3
<1>8. \A j \in Ids \cup Logical : M[j] = N[j]
  <2> TAKE j \in Ids \cup Logical
  <2>1. j \in Int /\ j < nextRow
    BY <1>1
  <2>2. ~\E a \in Rows : NewRow(a) = j
    BY <1>1, <1>2, <2>1
  <2> QED
    BY <2>1, <2>2
<1> HIDE DEF M
<1>9. Naming(M)
  BY <1>6, <1>8 DEF Naming
<1> QED
  BY <1>7, <1>8, <1>9

LEMMA CopiedRow ==
  ASSUME Shapes, NEW rows, DOMAIN rows \subseteq Rows
  PROVE  \A r \in DOMAIN Copied(rows) :
           \E a \in DOMAIN rows : NewRow(a) = r /\ Copied(rows)[r] = rows[a]
<1> DEFINE Old(r) == CHOOSE a \in DOMAIN rows : NewRow(a) = r
<1>1. /\ DOMAIN Copied(rows) = {NewRow(a) : a \in DOMAIN rows}
      /\ \A r \in DOMAIN Copied(rows) : Copied(rows)[r] = rows[Old(r)]
  BY DEF Copied
<1>2. \A r \in DOMAIN Copied(rows) : Old(r) \in DOMAIN rows /\ NewRow(Old(r)) = r
  BY <1>1
<1> HIDE DEF Old
<1> QED
  BY <1>1, <1>2

LEMMA EditWorkflowNamed ==
  ASSUME Sound, Named, EditWorkflow
  PROVE  Named'
<1>1. PICK N, S : NamedBy(N, S)
  BY DEF Named
<1>2. /\ Naming(N) /\ Numbers /\ RowsFit(N) /\ Shapes
  BY <1>1, Parts DEF NamedBy
<1>3. /\ stored'.nodes = Copied(stored.nodes) /\ stored'.edges = Copied(stored.edges)
      /\ nextRow' = nextRow + Cardinality(Rows) /\ orphan' = None /\ Idle
      /\ canvas' = Empty /\ known' = Empty /\ UNCHANGED <<nextTemp, nextName>>
  BY DEF EditWorkflow, Rows
<1>4. PICK M : /\ Naming(M) /\ \A j \in Ids : M[j] = N[j]
               /\ \A a \in Rows : M[NewRow(a)] = N[a]
  BY <1>2, CopyNames
<1>5. DOMAIN stored.nodes \subseteq Rows /\ DOMAIN stored.edges \subseteq Rows
  BY DEF Rows
<1>6. Ids \subseteq Ids' /\ \A a \in Rows : NewRow(a) \in Ids'
  <2>1. /\ Cardinality(Rows) \in Nat /\ nextRow \in Nat
        /\ \A a \in Rows : NewRow(a) \in nextRow..(nextRow + Cardinality(Rows) - 1)
    BY <1>2, NewRowsDiffer DEF Shapes
  <2>2. nextRow' \in Nat /\ nextRow' >= nextRow
    BY <1>3, <2>1
  <2>3. Ids \subseteq Ids' /\ nextRow..(nextRow' - 1) \subseteq Ids'
    BY <1>2, <1>3, <2>2, IdsGrow
  <2> QED
    BY <1>3, <2>1, <2>3
<1>7. NodesFit(stored'.nodes, M, Ids')
  <2>1. \A r \in DOMAIN stored'.nodes :
           \E a \in DOMAIN stored.nodes : NewRow(a) = r /\ stored'.nodes[r] = stored.nodes[a]
    BY <1>2, <1>3, <1>5, CopiedRow
  <2>2. NodesFit(stored.nodes, N, Ids)
    BY <1>2 DEF RowsFit
  <2>3. ASSUME NEW r \in DOMAIN stored'.nodes
        PROVE  /\ r \in Ids' /\ DOMAIN stored'.nodes[r] = {"name", "ref"}
               /\ stored'.nodes[r].name = M[r] /\ M[r] \in 1..MaxNodes
    <3>1. PICK a \in DOMAIN stored.nodes : NewRow(a) = r /\ stored'.nodes[r] = stored.nodes[a]
      BY <2>1
    <3> QED
      BY <1>4, <1>5, <1>6, <2>2, <3>1 DEF NodesFit
  <2>4. Distinct(stored'.nodes)
    BY <2>1, <2>2 DEF NodesFit, Distinct
  <2> QED
    BY <2>3, <2>4 DEF NodesFit
<1>8. ASSUME NEW r \in DOMAIN stored'.edges
      PROVE  /\ M[r] = 0 /\ IsLink(stored'.edges[r])
             /\ {stored'.edges[r].from, stored'.edges[r].to} \subseteq 1..MaxNodes
  <2>1. PICK a \in DOMAIN stored.edges : NewRow(a) = r /\ stored'.edges[r] = stored.edges[a]
    BY <1>2, <1>3, <1>5, <1>8, CopiedRow
  <2> QED
    BY <1>2, <1>4, <1>5, <2>1 DEF RowsFit
<1>9. RowsFit(M)'
  BY <1>7, <1>8 DEF RowsFit
<1>10. Numbers'
  BY <1>2, <1>3 DEF Numbers
<1>11. OrphanFits(M)'
  BY <1>3 DEF OrphanFits
<1> QED
  BY <1>3, <1>4, <1>9, <1>10, <1>11, AwayNamed

-----------------------------------------------------------------------------
LEMMA InitNamed == Init => Named
<1> SUFFICES ASSUME Init PROVE Named
  OBVIOUS
<1>1. PICK size \in 2..MaxNodes :
        /\ DOMAIN stored.nodes = 1..size /\ DOMAIN stored.edges = {size + 1}
        /\ \A r \in 1..size : DOMAIN stored.nodes[r] = {"name", "ref"} /\ stored.nodes[r].name = r
        /\ stored.edges[size + 1] = [from |-> 1, to |-> 2, cond |-> FALSE]
        /\ nextRow = size + 2
  BY InitRows
<1>2. /\ MaxNodes \in Nat /\ size \in Nat /\ size >= 2 /\ size <= MaxNodes
  BY EditorAssumption
<1>3. /\ nextTemp = -MaxNodes - 1 /\ nextName = 1
      /\ canvas = Empty /\ known = Empty /\ undo = <<>> /\ redo = <<>>
      /\ frame = None /\ save = None /\ orphan = None
  BY DEF Init
<1> DEFINE N == [i \in Int |-> IF i \in Logical THEN i + MaxNodes + 1
                               ELSE IF i \in 1..size THEN i ELSE 0]
<1>4. \A i \in Logical : i \in Int /\ i < 0 /\ i + MaxNodes + 1 \in 0..MaxNodes
  BY <1>2 DEF Logical
<1>5. /\ N \in [Int -> 0..MaxNodes] /\ \A l \in Logical : N[l] = l + MaxNodes + 1
      /\ \A r \in 1..size : N[r] = r
      /\ N[size + 1] = 0
  <2>1. \A i \in Int : N[i] \in 0..MaxNodes
    BY <1>2, <1>4
  <2>2. \A r \in 1..(size + 1) : r \in Int /\ r \notin Logical
    BY <1>2, <1>4
  <2>3. size + 1 \in 1..(size + 1) /\ size + 1 \notin 1..size /\ 1..size \subseteq 1..(size + 1)
    BY <1>2
  <2> QED
    BY <1>4, <2>1, <2>2, <2>3
<1> HIDE DEF N
<1>6. Naming(N)
  BY <1>5 DEF Naming
<1>7. Numbers
  BY <1>2, <1>3 DEF Numbers
<1>8. 1..(size + 1) \subseteq Ids
  BY <1>1, <1>2 DEF Ids
<1>9. RowsFit(N)
  <2>1. NodesFit(stored.nodes, N, Ids)
    <3>1. 1..size \subseteq Ids /\ 1..size \subseteq 1..MaxNodes
      BY <1>2, <1>8
    <3> QED
      BY <1>1, <1>5, <3>1 DEF NodesFit, Distinct
  <2>2. IsLink(stored.edges[size + 1])
    BY <1>1 DEF IsLink, LinkOf
  <2>3. {1, 2} \subseteq 1..MaxNodes
    BY <1>2
  <2> QED
    BY <1>1, <1>5, <2>1, <2>2, <2>3 DEF RowsFit
<1>10. /\ DOMAIN Empty = {"nodes", "edges"}
       /\ DOMAIN Empty.nodes = {} /\ DOMAIN Empty.edges = {}
  BY DEF Empty
<1>11. Fits(Empty, N, Ids)
  BY <1>10 DEF Fits, NodesFit, Distinct
<1>12. PICK T : T = {Empty}
  OBVIOUS
<1>13. SheetsFit(N, T)
  BY <1>3, <1>10, <1>11, <1>12, EmptySeq DEF SheetsFit
<1>14. SaveFits(N, T) /\ OrphanFits(N) /\ KnownFits(N)
  BY <1>3, <1>10 DEF SaveFits, OrphanFits, KnownFits
<1>15. NamedBy(N, T)
  BY <1>6, <1>7, <1>9, <1>13, <1>14 DEF NamedBy
<1> QED
  BY <1>15 DEF Named

LEMMA NextNamed == Sound /\ Named /\ [Next]_vars => Named'
<1> SUFFICES ASSUME Sound, Named, [Next]_vars PROVE Named'
  OBVIOUS
<1>1. CASE Save \/ (Preflight /\ BeginSave)
  <2>1. BeginSave /\ UNCHANGED <<stored, ids, canvas, known, history, orphan>>
    BY <1>1 DEF Save, Preflight, PublishStep
  <2> QED
    BY <2>1, BeginSaveNamed
<1>2. CASE \E to : Unmount(to)
  BY <1>2, UnmountNamed
<1>3. CASE NavigateWithGuard \/ ConfirmLeave \/ Refresh \/ SelectVersion
  BY <1>2, <1>3, WaitingNamed DEF NavigateWithGuard, ConfirmLeave, Refresh, SelectVersion
<1>4. CASE \/ HistoryTimer \/ Validate \/ Validated \/ CloseValidation \/ Publish
           \/ ServerValidates \/ PublishCall \/ ConfirmPublication \/ StayInBuilder
           \/ OpenBuilder \/ UNCHANGED vars \/ Preflight
  BY <1>1, <1>4, WaitingNamed
<1>5. CASE \/ Load \/ Editing \/ SaveEnds \/ SaveRefused \/ SaveUnreached \/ SaveUnanswered
           \/ SaveCall \/ OrphanCall \/ OrphanEnds \/ EditWorkflow
  BY <1>5, LoadNamed, EditingNamed, SaveOverNamed, SaveUnansweredNamed,
     SaveCallNamed, OrphanCallNamed, OrphanEndsNamed, EditWorkflowNamed
<1>6. CASE Next
  <2>1. CASE Calls
    BY <1>4, <1>5, <2>1 DEF Calls
  <2>2. CASE \/ Load \/ Editing \/ SaveUnreached \/ SaveUnanswered \/ OrphanCall
             \/ OrphanEnds \/ EditWorkflow
    BY <1>5, <2>2
  <2>3. CASE \/ HistoryTimer \/ Validate \/ Validated \/ CloseValidation \/ Publish
             \/ StayInBuilder \/ OpenBuilder
    BY <1>4, <2>3
  <2>4. CASE Save
    BY <1>1, <2>4
  <2> QED
    BY <1>3, <1>6, <2>1, <2>2, <2>3, <2>4 DEF Next
<1> QED
  BY <1>4, <1>6

-----------------------------------------------------------------------------
(* Validation.                                                             *)

\* A request that is current judges the canvas, and so does the verdict shown.
Checked ==
  /\ check # None => DOMAIN check = {"of", "current"}
  /\ check # None /\ check.current => check.of = Definition(canvas)
  /\ VerdictIsCurrent

\* The definition on the canvas is the same, whatever ids it has.
LEMMA JudgedStill ==
  ASSUME Checked, Definition(canvas') = Definition(canvas),
         \/ UNCHANGED check \/ check' = None
         \/ check # None /\ check' = [check EXCEPT !.current = FALSE]
         \/ check' = [of |-> Definition(canvas), current |-> TRUE],
         verdict' = verdict \/ verdict' = None \/ verdict' = Definition(canvas)
  PROVE  Checked'
<1>1. check' # None => DOMAIN check' = {"of", "current"}
  BY DEF Checked
<1>2. check' # None /\ check'.current => check'.of = Definition(canvas')
  BY DEF Checked
<1>3. verdict' # None => verdict' = Definition(canvas')
  BY DEF Checked, VerdictIsCurrent
<1> QED
  BY <1>1, <1>2, <1>3 DEF Checked, VerdictIsCurrent

LEMMA EditingChecked ==
  ASSUME Checked, Editing
  PROVE  Checked'
<1>1. MarkUnsaved
  BY DEF Editing, DropNode, AddNode, Undo, Redo, DuplicateNode, DeleteNode, UpdateNode,
     DragNode, Connect, ChangeCondition, DeleteEdge, Reconnect, EditKeepingIds, Edit,
     ShowCanvas
<1>2. /\ check' = IF check = None THEN None ELSE [check EXCEPT !.current = FALSE]
      /\ verdict' = None
  BY <1>1 DEF MarkUnsaved
<1>3. check' # None => DOMAIN check' = {"of", "current"} /\ check'.current = FALSE
  BY <1>2 DEF Checked
<1> QED
  BY <1>2, <1>3 DEF Checked, VerdictIsCurrent

\* The ids of the rows change nothing the validation judges.
LEMMA RemapChecked ==
  ASSUME Sound, Named, Checked, save # None, canvas' = Remap(save, canvas),
         UNCHANGED checking
  PROVE  Checked'
<1>1. PICK N, S : NamedBy(N, S)
  BY DEF Named
<1>2. /\ Naming(N) /\ Numbers /\ Shapes /\ MadeFits(save, N, Ids, S)
      /\ canvas \in S /\ Fits(canvas, N, Ids)
  BY <1>1, Parts DEF NamedBy, SaveFits, SheetsFit
<1>3. Ids \cap Logical = {} /\ IsFiniteSet(Ids)
  BY <1>2, IdsFacts
<1>4. Definition(Remap(save, canvas)) = Definition(canvas)
  BY <1>2, <1>3, RemapDefinition
<1>5. UNCHANGED check /\ UNCHANGED verdict
  BY DEF checking
<1> QED
  BY <1>4, <1>5, JudgedStill

LEMMA NextChecked == Sound /\ Named /\ Checked /\ [Next]_vars => Checked'
<1> SUFFICES ASSUME Sound, Named, Checked, [Next]_vars PROVE Checked'
  OBVIOUS
<1>1. CASE \/ SaveEnds \/ SaveRefused \/ SaveUnreached \/ SaveUnanswered
  <2>1. save # None /\ canvas' = Remap(save, canvas) /\ UNCHANGED checking
    BY <1>1 DEF SaveEnds, SaveRefused, SaveUnreached, SaveUnanswered, EndSave
  <2> QED
    BY <2>1, RemapChecked
<1>2. CASE Idle
  BY <1>2 DEF Idle, Checked, VerdictIsCurrent
<1>3. CASE Load \/ EditWorkflow \/ \E to : Unmount(to)
  BY <1>2, <1>3 DEF Load, EditWorkflow, Unmount
<1>4. CASE \/ HistoryTimer \/ Save \/ SaveCall \/ OrphanCall \/ OrphanEnds \/ PublishCall
           \/ ConfirmPublication \/ StayInBuilder \/ OpenBuilder \/ UNCHANGED vars
           \/ NavigateWithGuard /\ ~Unmount("left")
  <2>1. UNCHANGED <<canvas, check, verdict>>
    BY <1>4 DEF HistoryTimer, Save, SaveCall, OrphanCall, OrphanEnds, PublishCall,
       ConfirmPublication, StayInBuilder, OpenBuilder, NavigateWithGuard, PublishStep,
       checking, builderVars, vars
  <2> QED
    BY <2>1, JudgedStill
<1>5. CASE ServerValidates \/ Preflight
  <2>1. /\ UNCHANGED <<canvas, check>>
        /\ verdict' = verdict \/ verdict' = Definition(canvas)
    BY <1>5 DEF ServerValidates, Preflight, Judged, PublishStep
  <2> QED
    BY <2>1, JudgedStill
<1>6. CASE Validate
  <2>1. /\ UNCHANGED canvas /\ verdict' = None
        /\ check' = [of |-> Definition(canvas), current |-> TRUE]
    BY <1>6 DEF Validate
  <2> QED
    BY <2>1, JudgedStill
<1>7. CASE Validated
  <2>1. /\ UNCHANGED canvas /\ check # None /\ check' = None
        /\ verdict' = IF check.current THEN check.of ELSE verdict
    BY <1>7 DEF Validated
  <2>2. verdict' = verdict \/ verdict' = Definition(canvas)
    BY <2>1 DEF Checked
  <2> QED
    BY <2>1, <2>2, JudgedStill
<1>8. CASE CloseValidation
  <2>1. UNCHANGED <<canvas, check>> /\ verdict' = None
    BY <1>8 DEF CloseValidation
  <2> QED
    BY <2>1, JudgedStill
<1>9. CASE Publish
  <2>1. /\ UNCHANGED <<canvas, verdict>>
        /\ check' = IF check = None THEN None ELSE [check EXCEPT !.current = FALSE]
    BY <1>9 DEF Publish, PublishStep
  <2> QED
    BY <2>1, JudgedStill
<1>10. CASE NavigateWithGuard \/ ConfirmLeave \/ Refresh \/ SelectVersion
  BY <1>3, <1>4, <1>10 DEF NavigateWithGuard, ConfirmLeave, Refresh, SelectVersion
<1>11. CASE Calls
  BY <1>1, <1>4, <1>5, <1>11 DEF Calls
<1>12. CASE \/ Save \/ SaveUnreached \/ SaveUnanswered \/ OrphanCall \/ OrphanEnds
            \/ HistoryTimer \/ StayInBuilder \/ OpenBuilder
  BY <1>1, <1>4, <1>12
<1> QED
  BY <1>3, <1>4, <1>6, <1>7, <1>8, <1>9, <1>10, <1>11, <1>12, EditingChecked DEF Next

-----------------------------------------------------------------------------
(* The state the toolbar shows, and publication.                           *)

\* A version is published, and shown as published, from a canvas that is saved.
PublishSaved ==
  /\ saveState \in SaveStates
  /\ save # None => saveState = "saving" /\ ~fresh
  /\ publishing = "preflight" => saveState # "saving"
  /\ publishing \in {"validate", "publish", "confirm"} \/ readOnly
       => page = "builder" /\ saveState = "saved"

LEMMA EditingKeepsSaved ==
  ASSUME PublishSaved, Editing
  PROVE  PublishSaved'
<1>1. CanEdit /\ MarkUnsaved /\ UNCHANGED <<page, publishing, status, fresh>>
  BY DEF Editing, DropNode, AddNode, Undo, Redo, DuplicateNode, DeleteNode, UpdateNode,
     DragNode, Connect, ChangeCondition, DeleteEdge, Reconnect, EditKeepingIds, Edit,
     ShowCanvas
<1>2. /\ ~readOnly /\ publishing = "no"
      /\ saveState' = IF saveState = "saving" THEN "saving" ELSE "unsaved"
      /\ save # None \/ save' = None
  BY <1>1 DEF CanEdit, MarkUnsaved
<1> QED
  BY <1>1, <1>2 DEF PublishSaved, SaveStates, readOnly

LEMMA NextKeepsSaved == Sound /\ PublishSaved /\ [Next]_vars => PublishSaved'
<1> SUFFICES ASSUME Sound, PublishSaved, [Next]_vars PROVE PublishSaved'
  OBVIOUS
<1>0. publishing # "no" => page = "builder"
  BY Parts DEF AtWork
<1>1. CASE \/ SaveEnds \/ SaveRefused \/ SaveUnreached
  <2>1. PICK state \in SaveStates \ {"saving"} : EndSave(state)
    BY <1>1 DEF SaveEnds, SaveRefused, SaveUnreached, SaveStates
  <2>2. save # None
    BY <1>1 DEF SaveEnds, SaveRefused, SaveUnreached
  <2> QED
    BY <1>0, <2>1, <2>2 DEF EndSave, PublishSaved, SaveStates, readOnly
<1>2. CASE SaveUnanswered
  BY <1>2 DEF SaveUnanswered, PublishSaved, SaveStates, readOnly
<1>3. CASE Load
  BY <1>3 DEF Load, Idle, PublishSaved, SaveStates, readOnly
<1>4. CASE EditWorkflow \/ \E to : Unmount(to)
  BY <1>4 DEF EditWorkflow, Unmount, Idle, PublishSaved, SaveStates, readOnly
<1>5. CASE \/ HistoryTimer \/ OrphanCall \/ OrphanEnds
           \/ StayInBuilder \/ OpenBuilder \/ UNCHANGED vars \/ Validate \/ Validated
           \/ CloseValidation
           \/ NavigateWithGuard /\ ~Unmount("left")
  <2>1. /\ UNCHANGED <<saveState, save, publishing, status, fresh>>
        /\ UNCHANGED page \/ page # "builder"
    BY <1>5 DEF HistoryTimer, OrphanCall, OrphanEnds, CloseValidation, Validated,
       Validate, StayInBuilder, OpenBuilder, NavigateWithGuard, saving, builderVars, vars
  <2> QED
    BY <2>1 DEF PublishSaved, readOnly
<1>6. CASE SaveCall
  <2>1. UNCHANGED <<saveState, publishing, status, page, fresh>> /\ save # None
    BY <1>6 DEF SaveCall
  <2> QED
    BY <2>1 DEF PublishSaved, readOnly
<1>7. CASE Save
  BY <1>7 DEF Save, BeginSave, PublishSaved, SaveStates, readOnly
<1>8. CASE Publish
  BY <1>8 DEF Publish, Busy, SavingRef, PublishStep, saving, PublishSaved, readOnly
<1>9. CASE Preflight
  <2>1. UNCHANGED <<page, status>> /\ publishing = "preflight"
    BY <1>9 DEF Preflight, PublishStep
  <2>2. CASE /\ saveState' = "saving" /\ fresh' = FALSE
             /\ saveState \in {"unsaved", "failed"} /\ publishing' \in {"saving", "no"}
    BY <2>1, <2>2 DEF PublishSaved, SaveStates, readOnly
  <2>3. CASE /\ UNCHANGED <<saveState, save, fresh>> /\ publishing' \in {"validate", "no"}
             /\ publishing' = "validate" => saveState \notin {"unsaved", "failed"}
    BY <1>0, <2>1, <2>3 DEF PublishSaved, SaveStates, readOnly
  <2> QED
    BY <1>9, <2>2, <2>3 DEF Preflight, Judged, BeginSave, saving
<1>10. CASE ServerValidates \/ PublishCall
  <2>1. /\ UNCHANGED <<page, status, saveState, save, fresh>>
        /\ publishing \in {"validate", "publish"} /\ publishing' \in {"publish", "confirm", "no"}
    BY <1>10 DEF ServerValidates, PublishCall, Judged, PublishStep, saving
  <2> QED
    BY <2>1 DEF PublishSaved, readOnly
<1>11. CASE ConfirmPublication
  <2>1. UNCHANGED <<page, saveState, save, fresh>> /\ publishing = "confirm" /\ publishing' = "no"
    BY <1>11 DEF ConfirmPublication, PublishStep, saving
  <2> QED
    BY <2>1 DEF PublishSaved, readOnly
<1>12. CASE NavigateWithGuard \/ ConfirmLeave \/ Refresh \/ SelectVersion
  BY <1>4, <1>5, <1>12 DEF NavigateWithGuard, ConfirmLeave, Refresh, SelectVersion
<1>13. CASE Calls
  BY <1>1, <1>6, <1>9, <1>10, <1>11, <1>13 DEF Calls
<1>14. CASE \/ SaveUnreached \/ OrphanCall \/ OrphanEnds \/ HistoryTimer \/ StayInBuilder
            \/ OpenBuilder \/ Validate \/ Validated \/ CloseValidation
  BY <1>1, <1>5, <1>14
<1> QED
  BY <1>2, <1>3, <1>4, <1>5, <1>7, <1>8, <1>12, <1>13, <1>14, EditingKeepsSaved DEF Next

-----------------------------------------------------------------------------
(* What a save has brought to the service: f is what the canvas showed,    *)
(* and g what is there, each by id.                                        *)

Brought(f, g, new, changed, gone, made) ==
  /\ \A i \in DOMAIN f : i < 0 /\ i \notin new =>
       i \in DOMAIN made /\ made[i] \in DOMAIN g /\ g[made[i]] = f[i]
  /\ \A i \in DOMAIN f \cap DOMAIN g : i \notin changed => g[i] = f[i]
  /\ \A i \in DOMAIN g : \/ i \in DOMAIN f \cup gone
                         \/ \E t \in DOMAIN f \cap DOMAIN made : i = made[t]

LEMMA BroughtNew ==
  ASSUME NEW f, NEW g, NEW new, NEW changed, NEW gone, NEW made,
         Brought(f, g, new, changed, gone, made),
         NEW i \in DOMAIN f, i \notin DOMAIN made,
         NEW row, row \notin DOMAIN f \cup DOMAIN g
  PROVE  Brought(f, Put(g, row, f[i]), new \ {i}, changed, gone, Put(made, i, row))
<1> DEFINE h == Put(g, row, f[i])
           m == Put(made, i, row)
<1>1. /\ DOMAIN h = DOMAIN g \cup {row} /\ h[row] = f[i]
      /\ \A j \in DOMAIN g : h[j] = g[j]
  BY DEF Put
<1>2. /\ DOMAIN m = DOMAIN made \cup {i} /\ m[i] = row
      /\ \A j \in DOMAIN made : m[j] = made[j]
  BY DEF Put
<1> HIDE DEF h, m
<1>3. Brought(f, h, new \ {i}, changed, gone, m)
  <2>1. ASSUME NEW j \in DOMAIN f, j < 0, j \notin new \ {i}
        PROVE  j \in DOMAIN m /\ m[j] \in DOMAIN h /\ h[m[j]] = f[j]
    BY <1>1, <1>2, <2>1 DEF Brought
  <2>2. ASSUME NEW j \in DOMAIN f \cap DOMAIN h, j \notin changed
        PROVE  h[j] = f[j]
    BY <1>1, <2>2 DEF Brought
  <2>3. ASSUME NEW j \in DOMAIN h
        PROVE  \/ j \in DOMAIN f \cup gone
               \/ \E t \in DOMAIN f \cap DOMAIN m : j = m[t]
    BY <1>1, <1>2 DEF Brought
  <2> QED
    BY <2>1, <2>2, <2>3 DEF Brought
<1> QED
  BY <1>3 DEF h, m

LEMMA BroughtBeside ==
  ASSUME NEW f, NEW g, NEW new, NEW changed, NEW gone, NEW made,
         Brought(f, g, new, changed, gone, made), NEW i, i \notin DOMAIN made, NEW row
  PROVE  Brought(f, g, new, changed, gone, Put(made, i, row))
<1> DEFINE m == Put(made, i, row)
<1>1. DOMAIN m = DOMAIN made \cup {i} /\ \A j \in DOMAIN made : m[j] = made[j]
  BY DEF Put
<1> HIDE DEF m
<1>2. Brought(f, g, new, changed, gone, m)
  BY <1>1 DEF Brought
<1> QED
  BY <1>2 DEF m

LEMMA BroughtChanged ==
  ASSUME NEW f, NEW g, NEW new, NEW changed, NEW gone, NEW made,
         Brought(f, g, new, changed, gone, made),
         NEW i \in DOMAIN f, i \in DOMAIN g, \A t \in DOMAIN made : made[t] # i
  PROVE  Brought(f, Put(g, i, f[i]), new, changed \ {i}, gone, made)
<1> DEFINE h == Put(g, i, f[i])
<1>1. /\ DOMAIN h = DOMAIN g /\ h[i] = f[i]
      /\ \A j \in DOMAIN g : j # i => h[j] = g[j]
  BY DEF Put
<1> HIDE DEF h
<1>2. Brought(f, h, new, changed \ {i}, gone, made)
  BY <1>1 DEF Brought
<1> QED
  BY <1>2 DEF h

LEMMA BroughtGone ==
  ASSUME NEW f, NEW g, NEW new, NEW changed, NEW gone, NEW made,
         Brought(f, g, new, changed, gone, made),
         NEW i, \A t \in DOMAIN made : made[t] # i
  PROVE  Brought(f, Drop(g, {i}), new, changed, gone \ {i}, made)
<1> DEFINE h == Drop(g, {i})
<1>1. DOMAIN h = DOMAIN g \ {i} /\ \A j \in DOMAIN h : h[j] = g[j]
  BY DEF Drop
<1> HIDE DEF h
<1>2. Brought(f, h, new, changed, gone \ {i}, made)
  BY <1>1 DEF Brought
<1> QED
  BY <1>2 DEF h

\* At the end what is there is shown, under the id of its row.
LEMMA AllBrought ==
  ASSUME NEW s, NEW f, NEW g, Brought(f, g, {}, {}, {}, s.made),
         \A t \in DOMAIN s.made : t \in Int /\ t < 0 /\ s.made[t] \in Int /\ s.made[t] > 0,
         \A i \in DOMAIN g : i \in Int /\ i > 0, \A i \in DOMAIN f : i \in Int
  PROVE  /\ \A i \in DOMAIN g : \E j \in DOMAIN f : RealId(s, j) = i
         /\ \A j \in DOMAIN f : /\ ~(RealId(s, j) < 0)
                                /\ RealId(s, j) \in DOMAIN g => g[RealId(s, j)] = f[j]
<1>1. /\ \A i : i \in DOMAIN s.made => RealId(s, i) = s.made[i]
      /\ \A i : i \notin DOMAIN s.made => RealId(s, i) = i
  BY DEF RealId
<1>2. ASSUME NEW i \in DOMAIN g PROVE \E j \in DOMAIN f : RealId(s, j) = i
  <2>1. CASE i \in DOMAIN f
    BY <1>1, <2>1
  <2>2. CASE \E t \in DOMAIN f \cap DOMAIN s.made : i = s.made[t]
    BY <1>1, <2>2
  <2> QED
    BY <2>1, <2>2 DEF Brought
<1>3. ASSUME NEW j \in DOMAIN f
      PROVE  /\ ~(RealId(s, j) < 0)
             /\ RealId(s, j) \in DOMAIN g => g[RealId(s, j)] = f[j]
  <2>1. CASE j < 0
    <3>1. j \in DOMAIN s.made /\ g[s.made[j]] = f[j]
      BY <2>1 DEF Brought
    <3> QED
      BY <1>1, <3>1
  <2>2. CASE ~(j < 0)
    <3>1. RealId(s, j) = j
      BY <1>1, <2>2
    <3>2. j \in DOMAIN g => g[j] = f[j]
      BY DEF Brought
    <3> QED
      BY <2>2, <3>1, <3>2
  <2> QED
    BY <2>1, <2>2
<1> QED
  BY <1>2, <1>3

-----------------------------------------------------------------------------
(* What nodes and connections say, by id.                                  *)

Says(x) == <<x.name, x.ref>>
Said(nodes) == [i \in DOMAIN nodes |-> Says(nodes[i])]
LinksOf(edges) == [e \in DOMAIN edges |-> LinkOf(edges[e])]

LEMMA SaidFacts ==
  ASSUME NEW nodes
  PROVE  /\ DOMAIN Said(nodes) = DOMAIN nodes
         /\ \A i \in DOMAIN nodes : Said(nodes)[i] = Says(nodes[i])
BY DEF Said

LEMMA LinksFacts ==
  ASSUME NEW edges
  PROVE  /\ DOMAIN LinksOf(edges) = DOMAIN edges
         /\ \A e \in DOMAIN edges : LinksOf(edges)[e] = LinkOf(edges[e])
BY DEF LinksOf

LEMMA SaidPut ==
  ASSUME NEW f, NEW a, NEW v
  PROVE  Said(Put(f, a, v)) = Put(Said(f), a, Says(v))
BY DEF Said, Put

LEMMA SaidDrop ==
  ASSUME NEW f, NEW D
  PROVE  Said(Drop(f, D)) = Drop(Said(f), D)
BY DEF Said, Drop

LEMMA LinksPut ==
  ASSUME NEW f, NEW a, NEW v
  PROVE  LinksOf(Put(f, a, v)) = Put(LinksOf(f), a, LinkOf(v))
BY DEF LinksOf, Put

LEMMA LinksDrop ==
  ASSUME NEW f, NEW D
  PROVE  LinksOf(Drop(f, D)) = Drop(LinksOf(f), D)
BY DEF LinksOf, Drop

-----------------------------------------------------------------------------
(* The builder knows what is stored, and a save brings it to the canvas.   *)

Mirror ==
  page = "builder" /\ ~unsure =>
    Said(known.nodes) = Said(stored.nodes) /\ LinksOf(known.edges) = LinksOf(stored.edges)

\* New ids have no rows yet, and no row a save has made is to be deleted.
Apart(new, gone, made) ==
  /\ \A t \in DOMAIN made : t \notin new /\ made[t] \notin gone

Progress ==
  save # None /\ ~unsure =>
    /\ save.todo[2] \subseteq DOMAIN known.nodes /\ save.todo[4] \subseteq DOMAIN known.nodes
    /\ \A i \in save.todo[4] : save.was.nodes[i].name = known.nodes[i].name
    /\ save.todo[3] \subseteq Ids
    /\ Apart(save.todo[1] \cup save.todo[5], save.todo[3] \cup save.todo[4], save.made)
    /\ Brought(Said(save.snap.nodes), Said(known.nodes), save.todo[1], save.todo[2],
               save.todo[4], save.made)
    /\ Brought(Links(save.snap), LinksOf(known.edges), save.todo[5], save.todo[6],
               save.todo[3], save.made)

\* A save that was not overtaken by an edit still shows what it saves.
Unedited == save # None /\ ~save.edited => save.snap = Snapshot(canvas)

LEMMA AroundFollowed ==
  ASSUME Mirror, Progress, Ids \subseteq Ids', page' = page \/ page' # "builder",
         UNCHANGED <<known, unsure, stored.nodes, stored.edges>>,
         save' # None => /\ save # None /\ save'.todo = save.todo /\ save'.was = save.was
                         /\ save'.snap = save.snap /\ save'.made = save.made
  PROVE  Mirror' /\ Progress'
<1>1. Mirror'
  BY DEF Mirror
<1>2. Progress'
  BY DEF Progress
<1> QED
  BY <1>1, <1>2

LEMMA BeginFollowed ==
  ASSUME Sound, NEW N, NEW S, NamedBy(N, S), Mirror, BeginSave,
         UNCHANGED <<stored, ids, known, unsure, page, canvas>>
  PROVE  Mirror' /\ Progress' /\ Unedited'
<1>0. PICK c : c = Snapshot(canvas)
  OBVIOUS
<1>1. /\ save'.snap = c /\ save'.was = known /\ save'.todo = Stages(c)
      /\ save'.made = <<>>
  BY <1>0 DEF BeginSave
<1>2. Mirror' /\ Unedited'
  BY <1>0, <1>1 DEF Mirror, Unedited
<1>3. /\ Numbers /\ Naming(N) /\ KnownFits(N) /\ Fits(c, N, Ids) /\ Shapes
  BY <1>0, Parts, SnapshotFits DEF NamedBy, SheetsFit
<1>4. Ids' = Ids /\ known' = known
  BY DEF ids, Ids, Temps
<1>5. /\ Stages(c)[1] = NewNodes(c) /\ Stages(c)[2] = UpdatedNodes(c)
      /\ Stages(c)[3] = EdgesToDelete(c) /\ Stages(c)[4] = DeletedNodes(c)
      /\ Stages(c)[5] = NewEdges(c) /\ Stages(c)[6] = UpdatedEdges(c)
  BY DEF Stages
<1>6. DOMAIN <<>> = {}
  OBVIOUS
<1>7. Brought(Said(c.nodes), Said(known.nodes), NewNodes(c),
              UpdatedNodes(c), DeletedNodes(c), <<>>)
  <2>1. \A i \in DOMAIN c.nodes : i < 0 => i \in NewNodes(c)
    BY DEF NewNodes, IsTemp
  <2>2. ASSUME NEW i \in DOMAIN c.nodes \cap DOMAIN known.nodes,
               i \notin UpdatedNodes(c)
        PROVE  Said(known.nodes)[i] = Said(c.nodes)[i]
    <3>1. known.nodes[i].ref = c.nodes[i].ref
      BY <2>2 DEF UpdatedNodes, Ref
    <3>2. known.nodes[i].name = c.nodes[i].name
      BY <1>3 DEF KnownFits, Fits, NodesFit
    <3> QED
      BY <3>1, <3>2, SaidFacts DEF Says
  <2>3. \A i \in DOMAIN known.nodes : i \in DOMAIN c.nodes \cup DeletedNodes(c)
    BY DEF DeletedNodes
  <2> QED
    BY <2>1, <2>2, <2>3, SaidFacts DEF Brought
<1>8. Brought(Links(c), LinksOf(known.edges), NewEdges(c),
              UpdatedEdges(c), EdgesToDelete(c), <<>>)
  <2>1. \A e \in DOMAIN c.edges : e < 0 => e \in NewEdges(c)
    BY DEF NewEdges, IsTemp
  <2>2. DOMAIN Links(c) = DOMAIN c.edges
        /\ \A e \in DOMAIN c.edges : Links(c)[e] = Link(c, e)
    BY DEF Links
  <2>3. ASSUME NEW e \in DOMAIN c.edges \cap DOMAIN known.edges,
               e \notin UpdatedEdges(c)
        PROVE  LinksOf(known.edges)[e] = Links(c)[e]
    <3>1. /\ c.edges[e].from = known.edges[e].source
          /\ c.edges[e].to = known.edges[e].target
          /\ c.edges[e].cond = known.edges[e].cond
      BY <2>3 DEF UpdatedEdges
    <3>2. /\ known.edges[e].from = N[known.edges[e].source]
          /\ known.edges[e].to = N[known.edges[e].target]
      BY <1>3 DEF KnownFits
    <3>3. /\ Link(c, e).from = N[c.edges[e].from]
          /\ Link(c, e).to = N[c.edges[e].to]
          /\ Link(c, e).cond = c.edges[e].cond
          /\ IsLink(Link(c, e))
      BY <1>3, LinkNames DEF Link
    <3>4. LinkOf(known.edges[e]) = Link(c, e)
      BY <3>1, <3>2, <3>3 DEF IsLink, LinkOf
    <3> QED
      BY <2>2, <3>4, LinksFacts
  <2>4. \A e \in DOMAIN known.edges : e \in DOMAIN c.edges \cup EdgesToDelete(c)
    BY DEF EdgesToDelete
  <2> QED
    BY <2>1, <2>2, <2>3, <2>4, LinksFacts DEF Brought
<1>9. Apart(NewNodes(c) \cup NewEdges(c),
            EdgesToDelete(c) \cup DeletedNodes(c), <<>>)
  BY <1>6 DEF Apart
<1>10. /\ UpdatedNodes(c) \subseteq DOMAIN known.nodes
       /\ DeletedNodes(c) \subseteq DOMAIN known.nodes
       /\ EdgesToDelete(c) \subseteq DOMAIN known.edges
  BY DEF UpdatedNodes, DeletedNodes, EdgesToDelete, EdgesOfDeletedNodes
<1>11. DOMAIN known.edges \subseteq Ids
  BY <1>3 DEF KnownFits
<1>12. Progress'
  BY <1>1, <1>4, <1>5, <1>7, <1>8, <1>9, <1>10, <1>11 DEF Progress
<1> QED
  BY <1>2, <1>12

-----------------------------------------------------------------------------
(* A call does to the rows what the builder notes of it.                   *)

\* f becomes g with a call of that stage about the id i: v is added under the id row,
\* or replaces what i has, or i is taken out.
Becomes(f, g, stage, row, i, v) ==
  /\ stage = "new" => g = Put(f, row, v)
  /\ stage = "changed" => g = Put(f, i, v)
  /\ stage = "gone" => g = Drop(f, {i})
  /\ stage = "other" => g = f

NodeStage(k) == CASE k = 1 -> "new" [] k = 2 -> "changed" [] k = 4 -> "gone"
                  [] OTHER -> "other"
LinkStage(k) == CASE k = 5 -> "new" [] k = 6 -> "changed" [] k = 3 -> "gone"
                  [] OTHER -> "other"

LEMMA StageFacts ==
  /\ NodeStage(1) = "new" /\ NodeStage(2) = "changed" /\ NodeStage(4) = "gone"
  /\ \A k \in {3, 5, 6} : NodeStage(k) = "other"
  /\ LinkStage(5) = "new" /\ LinkStage(6) = "changed" /\ LinkStage(3) = "gone"
  /\ \A k \in {1, 2, 4} : LinkStage(k) = "other"
  /\ \A k \in 1..6 : {NodeStage(k), LinkStage(k)} \subseteq {"new", "changed", "gone", "other"}
<1>1. /\ NodeStage(1) = "new" /\ NodeStage(2) = "changed" /\ NodeStage(4) = "gone"
      /\ \A k \in {3, 5, 6} : NodeStage(k) = "other"
  BY DEF NodeStage
<1>2. /\ LinkStage(5) = "new" /\ LinkStage(6) = "changed" /\ LinkStage(3) = "gone"
      /\ \A k \in {1, 2, 4} : LinkStage(k) = "other"
  BY DEF LinkStage
<1> QED
  BY <1>1, <1>2

LEMMA NotedNodes ==
  ASSUME Shapes, NEW s, NEW k \in 1..6, NEW i, known' = Note(s, k, i),
         k \in {1, 2} => i \in DOMAIN s.snap.nodes
  PROVE  Becomes(Said(known.nodes), Said(known'.nodes), NodeStage(k), nextRow, i,
                 Said(s.snap.nodes)[i])
<1>1. k \in {1, 2} => Said(s.snap.nodes)[i] = Says(s.snap.nodes[i])
  BY SaidFacts
<1>2. CASE k = 1
  BY <1>1, <1>2, NoteNodes, SaidPut, StageFacts DEF Becomes
<1>3. CASE k = 2
  BY <1>1, <1>3, NoteNodes, SaidPut, StageFacts DEF Becomes
<1>4. CASE k = 4
  <2>1. known'.nodes = Drop(known.nodes, {i})
    BY <1>4, NoteNodes
  <2>2. Said(known'.nodes) = Drop(Said(known.nodes), {i})
    BY <2>1, SaidDrop
  <2> QED
    BY <1>4, <2>2, StageFacts DEF Becomes
<1>5. CASE k \in {3, 5, 6}
  BY <1>5, NoteNodes, StageFacts DEF Becomes
<1> QED
  BY <1>2, <1>3, <1>4, <1>5

LEMMA NotedLinks ==
  ASSUME Shapes, NEW s, NEW k \in 1..6, NEW i, known' = Note(s, k, i),
         k \in {5, 6} => i \in DOMAIN s.snap.edges /\ IsLink(SnapEdge(s, i))
                         /\ DOMAIN s.snap.edges[i] = {"from", "to", "cond"}
  PROVE  Becomes(LinksOf(known.edges), LinksOf(known'.edges), LinkStage(k), nextRow, i,
                 Links(s.snap)[i])
<1>1. k \in {5, 6} => Links(s.snap)[i] = SnapEdge(s, i) /\ SnapEdge(s, i).cond = s.snap.edges[i].cond
  BY DEF Links, SnapEdge, Link
<1>2. CASE k \in {5, 6}
  <2>1. PICK row, edge :
          /\ known'.edges = Put(known.edges, row, edge)
          /\ (k = 5 => row = nextRow) /\ (k = 6 => row = i)
          /\ edge.from = SnapEdge(s, i).from /\ edge.to = SnapEdge(s, i).to
          /\ edge.cond = s.snap.edges[i].cond
    <3>1. CASE k = 5
      BY <1>2, <3>1, NoteLinks
    <3>2. CASE k = 6
      BY <1>2, <3>2, NoteLinks
    <3> QED
      BY <1>2, <3>1, <3>2
  <2>2. LinkOf(edge) = Links(s.snap)[i]
    BY <1>1, <1>2, <2>1 DEF LinkOf, IsLink
  <2>3. LinksOf(known'.edges) = Put(LinksOf(known.edges), row, Links(s.snap)[i])
    BY <2>1, <2>2, LinksPut
  <2> QED
    BY <1>2, <2>1, <2>3, StageFacts DEF Becomes
<1>3. CASE k = 3
  BY <1>3, NoteEdges, LinksDrop, StageFacts DEF Becomes
<1>4. CASE k \in {1, 2, 4}
  BY <1>4, NoteEdges, StageFacts DEF Becomes
<1> QED
  BY <1>2, <1>3, <1>4

LEMMA StoredNodes ==
  ASSUME Shapes, NEW s, NEW k \in 1..6, NEW i, Accepts(s, k, i), Perform(s, k, i),
         k \in {1, 2} => i \in DOMAIN s.snap.nodes,
         Distinct(stored.nodes),
         k = 2 => i \in DOMAIN stored.nodes /\ stored.nodes[i].name = s.snap.nodes[i].name,
         k = 4 => i \in DOMAIN stored.nodes /\ stored.nodes[i].name = s.was.nodes[i].name
  PROVE  Becomes(Said(stored.nodes), Said(stored'.nodes), NodeStage(k), nextRow, i,
                 Said(s.snap.nodes)[i])
<1>1. k \in {1, 2} => Said(s.snap.nodes)[i] = Says(s.snap.nodes[i])
  BY SaidFacts
<1>2. CASE k = 1
  <2>1. stored'.nodes = Put(stored.nodes, nextRow, s.snap.nodes[i])
    BY <1>2 DEF Perform, Shapes
  <2> QED
    BY <1>1, <1>2, <2>1, SaidPut, StageFacts DEF Becomes
<1>3. CASE k = 2
  <2>1. stored'.nodes = [r \in DOMAIN stored.nodes |->
                           IF r \in StoredRow(NameOf(s.snap, i)) THEN s.snap.nodes[i]
                           ELSE stored.nodes[r]]
    BY <1>3 DEF Perform, Shapes
  <2>2. NameOf(s.snap, i) = s.snap.nodes[i].name
    BY <1>3 DEF NameOf
  <2>3. \A r \in DOMAIN stored.nodes : r \in StoredRow(NameOf(s.snap, i)) <=> r = i
    BY <1>3, <2>2 DEF StoredRow, Distinct
  <2>4. stored'.nodes = Put(stored.nodes, i, s.snap.nodes[i])
    BY <1>3, <2>1, <2>3 DEF Put
  <2> QED
    BY <1>1, <1>3, <2>4, SaidPut, StageFacts DEF Becomes
<1>4. CASE k = 4
  <2>1. stored'.nodes = Drop(stored.nodes, StoredRow(s.was.nodes[i].name))
    BY <1>4 DEF Perform, Shapes
  <2>2. StoredRow(s.was.nodes[i].name) = {i}
    BY <1>4 DEF StoredRow, Distinct
  <2> QED
    BY <1>4, <2>1, <2>2, SaidDrop, StageFacts DEF Becomes
<1>5. CASE k \in {3, 5, 6}
  <2>1. stored'.nodes = stored.nodes
    BY <1>5 DEF Perform, Shapes
  <2> QED
    BY <1>5, <2>1, StageFacts DEF Becomes
<1> QED
  BY <1>2, <1>3, <1>4, <1>5

LEMMA StoredLinks ==
  ASSUME Shapes, NEW s, NEW k \in 1..6, NEW i, Accepts(s, k, i), Perform(s, k, i),
         k \in {5, 6} => i \in DOMAIN s.snap.edges /\ IsLink(SnapEdge(s, i))
  PROVE  Becomes(LinksOf(stored.edges), LinksOf(stored'.edges), LinkStage(k), nextRow, i,
                 Links(s.snap)[i])
<1>1. k \in {5, 6} => Links(s.snap)[i] = LinkOf(SnapEdge(s, i))
  BY DEF Links, SnapEdge, IsLink
<1>2. /\ k \in {1, 2, 4} => stored'.edges = stored.edges
      /\ k = 3 => stored'.edges = Drop(stored.edges, {i})
      /\ k = 5 => stored'.edges = Put(stored.edges, nextRow, SnapEdge(s, i))
      /\ k = 6 => stored'.edges = Put(stored.edges, i, SnapEdge(s, i))
  BY DEF Perform, Shapes
<1>3. CASE k = 5
  BY <1>1, <1>2, <1>3, LinksPut, StageFacts DEF Becomes
<1>4. CASE k = 6
  BY <1>1, <1>2, <1>4, LinksPut, StageFacts DEF Becomes
<1>5. CASE k = 3
  BY <1>2, <1>5, LinksDrop, StageFacts DEF Becomes
<1>6. CASE k \in {1, 2, 4}
  BY <1>2, <1>6, StageFacts DEF Becomes
<1> QED
  BY <1>3, <1>4, <1>5, <1>6

\* What two functions become is the same if they were.
LEMMA BecomeAlike ==
  ASSUME NEW f, NEW g, NEW h, NEW stage \in {"new", "changed", "gone", "other"},
         NEW row, NEW i, NEW v, Becomes(f, g, stage, row, i, v), Becomes(f, h, stage, row, i, v)
  PROVE  g = h
BY DEF Becomes

LEMMA NotedNames ==
  ASSUME Shapes, NEW s, NEW k \in 1..6, NEW i, known' = Note(s, k, i),
         nextRow \notin DOMAIN known.nodes,
         k = 2 => s.snap.nodes[i].name = known.nodes[i].name
  PROVE  /\ k # 4 => DOMAIN known.nodes \subseteq DOMAIN known'.nodes
         /\ DOMAIN known.nodes \ {i} \subseteq DOMAIN known'.nodes
         /\ \A j \in DOMAIN known.nodes \cap DOMAIN known'.nodes :
              known'.nodes[j].name = known.nodes[j].name
<1>1. CASE k \in {1, 2}
  <2>1. PICK row, x : /\ known'.nodes = Put(known.nodes, row, x)
                      /\ row \in DOMAIN known.nodes => x.name = known.nodes[row].name
    <3>1. CASE k = 1
      <4>1. known'.nodes = Put(known.nodes, nextRow, s.snap.nodes[i])
        BY <3>1, NoteNodes
      <4> QED
        BY <4>1
    <3>2. CASE k = 2
      <4>1. known'.nodes = Put(known.nodes, i, s.snap.nodes[i])
        BY <3>2, NoteNodes
      <4> QED
        BY <3>2, <4>1
    <3> QED
      BY <1>1, <3>1, <3>2
  <2>2. DOMAIN known'.nodes = DOMAIN known.nodes \cup {row} /\ known'.nodes[row] = x
        /\ \A j \in DOMAIN known.nodes : j # row => known'.nodes[j] = known.nodes[j]
    BY <2>1 DEF Put
  <2> QED
    BY <2>1, <2>2
<1>2. CASE k = 4
  <2>1. known'.nodes = Drop(known.nodes, {i})
    BY <1>2, NoteNodes
  <2> QED
    BY <1>2, <2>1 DEF Drop
<1>3. CASE k \in {3, 5, 6}
  BY <1>3, NoteNodes
<1> QED
  BY <1>1, <1>2, <1>3

LEMMA SaveCallFollowed ==
  ASSUME Sound, NEW N, NEW S, NamedBy(N, S), Mirror, Progress, SaveCall
  PROVE  Mirror' /\ Progress'
<1> DEFINE k == Stage(save)
<1>0. SUFFICES ASSUME ~unsure PROVE Mirror' /\ Progress'
  BY DEF SaveCall, Mirror, Progress
<1>1. /\ Shapes /\ AtWork /\ save # None /\ ~Done(save) /\ page = "builder"
      /\ UNCHANGED <<page, unsure>>
  BY Parts DEF SaveCall, AtWork
<1>2. k \in 1..6 /\ \A j \in 1..(k - 1) : save.todo[j] = {}
  BY <1>1, StageFirst
<1> HIDE DEF k
<1>3. PICK i \in save.todo[k] :
        /\ Accepts(save, k, i) /\ Perform(save, k, i) /\ TakesRow(k)
        /\ known' = Note(save, k, i) /\ save' = Advance(save, k, i)
  BY DEF SaveCall, k
<1>4. /\ Naming(N) /\ Numbers /\ RowsFit(N) /\ KnownFits(N)
      /\ MadeFits(save, N, Ids, S) /\ CallsFit(save)
      /\ save.snap \in S /\ Fits(save.snap, N, Ids)
  BY <1>1 DEF NamedBy, SaveFits, SheetsFit
<1>5. /\ nextRow \notin Ids /\ nextRow \in Nat \ {0}
  BY <1>1, <1>4, IdsFacts DEF Shapes
<1>6. /\ DOMAIN known.nodes \subseteq Ids /\ DOMAIN known.edges \subseteq Ids
      /\ \A j \in DOMAIN known.nodes : known.nodes[j].name = N[j]
  BY <1>4 DEF KnownFits
<1>7. Said(known.nodes) = Said(stored.nodes) /\ LinksOf(known.edges) = LinksOf(stored.edges)
  BY <1>0, <1>1 DEF Mirror
<1>8. DOMAIN known.nodes = DOMAIN stored.nodes /\ DOMAIN known.edges = DOMAIN stored.edges
  BY <1>7, SaidFacts, LinksFacts
<1>9. /\ save.todo[2] \subseteq DOMAIN known.nodes /\ save.todo[4] \subseteq DOMAIN known.nodes
      /\ \A j \in save.todo[4] : save.was.nodes[j].name = known.nodes[j].name
      /\ save.todo[3] \subseteq Ids
      /\ Apart(save.todo[1] \cup save.todo[5], save.todo[3] \cup save.todo[4], save.made)
      /\ Brought(Said(save.snap.nodes), Said(known.nodes), save.todo[1], save.todo[2],
                 save.todo[4], save.made)
      /\ Brought(Links(save.snap), LinksOf(known.edges), save.todo[5], save.todo[6],
                 save.todo[3], save.made)
  BY <1>0, <1>1 DEF Progress
<1>10. k \in {1, 2} => /\ i \in DOMAIN save.snap.nodes
                       /\ save.snap.nodes[i].name = N[i] /\ N[i] \in 1..MaxNodes
  BY <1>3, <1>4 DEF CallsFit, Fits, NodesFit
<1>11. k \in {5, 6} => /\ i \in DOMAIN save.snap.edges /\ N[i] = 0
                       /\ IsLink(SnapEdge(save, i))
                       /\ DOMAIN save.snap.edges[i] = {"from", "to", "cond"}
  <2>1. k \in {5, 6} => i \in DOMAIN save.snap.edges
    BY <1>3, <1>4 DEF CallsFit
  <2>2. k \in {5, 6} => N[i] = 0 /\ DOMAIN save.snap.edges[i] = {"from", "to", "cond"}
    BY <1>4, <2>1 DEF Fits
  <2> QED
    BY <1>1, <1>4, <2>1, <2>2, LinkNames DEF SnapEdge
<1>12. Distinct(stored.nodes) /\ \A j \in DOMAIN stored.nodes : stored.nodes[j].name = N[j]
  BY <1>4 DEF RowsFit, NodesFit
<1>13. /\ k = 2 => i \in DOMAIN stored.nodes /\ stored.nodes[i].name = save.snap.nodes[i].name
       /\ k = 4 => i \in DOMAIN stored.nodes /\ stored.nodes[i].name = save.was.nodes[i].name
  BY <1>3, <1>6, <1>8, <1>9, <1>10, <1>12
<1>14. /\ Becomes(Said(known.nodes), Said(known'.nodes), NodeStage(k), nextRow, i,
                  Said(save.snap.nodes)[i])
       /\ Becomes(LinksOf(known.edges), LinksOf(known'.edges), LinkStage(k), nextRow, i,
                  Links(save.snap)[i])
  BY <1>1, <1>2, <1>3, <1>10, <1>11, NotedNodes, NotedLinks
<1>15. /\ Becomes(Said(stored.nodes), Said(stored'.nodes), NodeStage(k), nextRow, i,
                  Said(save.snap.nodes)[i])
       /\ Becomes(LinksOf(stored.edges), LinksOf(stored'.edges), LinkStage(k), nextRow, i,
                  Links(save.snap)[i])
  BY <1>1, <1>2, <1>3, <1>10, <1>11, <1>12, <1>13, StoredNodes, StoredLinks
<1>16. /\ NodeStage(k) \in {"new", "changed", "gone", "other"}
       /\ LinkStage(k) \in {"new", "changed", "gone", "other"}
  BY <1>2, StageFacts
<1>17. Mirror'
  <2>1. Said(known'.nodes) = Said(stored'.nodes)
    BY <1>7, <1>14, <1>15, <1>16, BecomeAlike
  <2>2. LinksOf(known'.edges) = LinksOf(stored'.edges)
    BY <1>7, <1>14, <1>15, <1>16, BecomeAlike
  <2> QED
    BY <2>1, <2>2 DEF Mirror
<1>18. /\ DOMAIN save = {"snap", "was", "todo", "made", "edited"} /\ DOMAIN save.todo = 1..6
  BY <1>1 DEF AtWork
<1>19. /\ save'.snap = save.snap /\ save'.was = save.was
       /\ save'.todo[k] = save.todo[k] \ {i}
       /\ \A j \in (1..6) \ {k} : save'.todo[j] = save.todo[j]
       /\ save'.made = IF k \in {1, 5} THEN Put(save.made, i, nextRow) ELSE save.made
  BY <1>2, <1>3, <1>18, AdvanceFacts, AdvanceMade
<1>20. k \in {1, 5} => /\ i \notin DOMAIN save.made
                       /\ DOMAIN save'.made = DOMAIN save.made \cup {i}
                       /\ save'.made[i] = nextRow
                       /\ \A t \in DOMAIN save.made : save'.made[t] = save.made[t]
  BY <1>3, <1>9, <1>19 DEF Apart, Put
<1>21. \A t \in DOMAIN save.made :
          /\ save.made[t] \notin DOMAIN save.snap.nodes \cup DOMAIN save.snap.edges
          /\ save.made[t] \notin save.todo[3] \cup save.todo[4]
  BY <1>4, <1>9 DEF MadeFits, Apart
<1>22. Ids \subseteq Ids'
  <2>1. nextRow' \in Nat /\ nextRow' >= nextRow
    BY <1>3, <1>5 DEF TakesRow
  <2> QED
    BY <1>1, <1>4, <2>1, IdsGrow DEF SaveCall
<1>23. /\ k # 4 => DOMAIN known.nodes \subseteq DOMAIN known'.nodes
       /\ DOMAIN known.nodes \ {i} \subseteq DOMAIN known'.nodes
       /\ \A j \in DOMAIN known.nodes \cap DOMAIN known'.nodes :
            known'.nodes[j].name = known.nodes[j].name
  <2>1. nextRow \notin DOMAIN known.nodes
    BY <1>5, <1>6
  <2>2. k = 2 => save.snap.nodes[i].name = known.nodes[i].name
    BY <1>3, <1>6, <1>9, <1>10
  <2> QED
    BY <1>1, <1>2, <1>3, <2>1, <2>2, NotedNames
<1>24. /\ save'.todo[2] \subseteq DOMAIN known'.nodes /\ save'.todo[4] \subseteq DOMAIN known'.nodes
       /\ \A j \in save'.todo[4] : save'.was.nodes[j].name = known'.nodes[j].name
       /\ save'.todo[3] \subseteq Ids'
  <2>1. \A j \in 1..6 : save'.todo[j] \subseteq save.todo[j]
    BY <1>2, <1>19
  <2>2. save'.todo[2] \subseteq DOMAIN known'.nodes
    <3>1. CASE k = 4
      BY <1>2, <2>1, <3>1
    <3>2. CASE k # 4
      BY <1>9, <1>23, <2>1, <3>2
    <3> QED
      BY <3>1, <3>2
  <2>3. save'.todo[4] \subseteq DOMAIN known'.nodes
    <3>1. CASE k = 4
      BY <1>9, <1>19, <1>23, <3>1
    <3>2. CASE k # 4
      BY <1>9, <1>23, <2>1, <3>2
    <3> QED
      BY <3>1, <3>2
  <2>4. \A j \in save'.todo[4] : save'.was.nodes[j].name = known'.nodes[j].name
    BY <1>9, <1>19, <1>23, <2>1, <2>3
  <2> QED
    BY <1>9, <1>22, <2>1, <2>2, <2>3, <2>4
<1>25. Apart(save'.todo[1] \cup save'.todo[5], save'.todo[3] \cup save'.todo[4], save'.made)
  <2>1. /\ save'.todo[1] \subseteq save.todo[1] /\ save'.todo[5] \subseteq save.todo[5]
        /\ save'.todo[3] \subseteq save.todo[3] /\ save'.todo[4] \subseteq save.todo[4]
    BY <1>2, <1>19
  <2>2. CASE k \notin {1, 5}
    BY <1>9, <1>19, <2>1, <2>2 DEF Apart
  <2>3. CASE k \in {1, 5}
    <3>1. \A j \in save.todo[1] : N[j] # 0
      BY <1>4, EditorAssumption DEF CallsFit, Fits, NodesFit
    <3>2. \A j \in save.todo[5] : N[j] = 0
      BY <1>4 DEF CallsFit, Fits
    <3>3. i \notin save'.todo[1] \cup save'.todo[5]
      BY <1>3, <1>19, <2>1, <2>3, <3>1, <3>2
    <3>4. nextRow \notin save.todo[3] \cup save.todo[4]
      BY <1>5, <1>6, <1>9
    <3> QED
      BY <1>9, <1>20, <2>1, <2>3, <3>3, <3>4 DEF Apart
  <2> QED
    BY <2>2, <2>3
<1>28. Brought(Said(save.snap.nodes), Said(known'.nodes), save'.todo[1], save'.todo[2],
               save'.todo[4], save'.made)
  <2>1. Brought(Said(save.snap.nodes), Said(known.nodes), save.todo[1], save.todo[2],
                save.todo[4], save.made)
    BY <1>9
  <2>2. DOMAIN Said(save.snap.nodes) = DOMAIN save.snap.nodes /\ DOMAIN save.snap.nodes \subseteq Ids
        /\ DOMAIN Said(known.nodes) = DOMAIN known.nodes
    BY <1>4, SaidFacts DEF Fits, NodesFit
  <2>3. Becomes(Said(known.nodes), Said(known'.nodes), NodeStage(k), nextRow, i,
                Said(save.snap.nodes)[i])
    BY <1>14
  <2>4. CASE k = 1
    <3>1. /\ save'.todo[1] = save.todo[1] \ {i} /\ save'.todo[2] = save.todo[2]
          /\ save'.todo[4] = save.todo[4] /\ save'.made = Put(save.made, i, nextRow)
      BY <1>19, <2>4
    <3>2. Said(known'.nodes) = Put(Said(known.nodes), nextRow, Said(save.snap.nodes)[i])
      BY <2>3, <2>4, StageFacts DEF Becomes
    <3>3. /\ i \in DOMAIN Said(save.snap.nodes) /\ i \notin DOMAIN save.made
          /\ nextRow \notin DOMAIN Said(save.snap.nodes) \cup DOMAIN Said(known.nodes)
      BY <1>5, <1>6, <1>10, <1>20, <2>2, <2>4
    <3>4. Brought(Said(save.snap.nodes),
                  Put(Said(known.nodes), nextRow, Said(save.snap.nodes)[i]),
                  save.todo[1] \ {i}, save.todo[2], save.todo[4], Put(save.made, i, nextRow))
      BY <2>1, <3>3, BroughtNew
    <3> QED
      BY <3>1, <3>2, <3>4
  <2>5. CASE k = 2
    <3>1. /\ save'.todo[1] = save.todo[1] /\ save'.todo[2] = save.todo[2] \ {i}
          /\ save'.todo[4] = save.todo[4] /\ save'.made = save.made
      BY <1>19, <2>5
    <3>2. Said(known'.nodes) = Put(Said(known.nodes), i, Said(save.snap.nodes)[i])
      BY <2>3, <2>5, StageFacts DEF Becomes
    <3>3. /\ i \in DOMAIN Said(save.snap.nodes) /\ i \in DOMAIN Said(known.nodes)
          /\ \A t \in DOMAIN save.made : save.made[t] # i
      BY <1>3, <1>9, <1>10, <1>21, <2>2, <2>5
    <3>4. Brought(Said(save.snap.nodes),
                  Put(Said(known.nodes), i, Said(save.snap.nodes)[i]),
                  save.todo[1], save.todo[2] \ {i}, save.todo[4], save.made)
      BY <2>1, <3>3, BroughtChanged
    <3> QED
      BY <3>1, <3>2, <3>4
  <2>6. CASE k = 4
    <3>1. /\ save'.todo[1] = save.todo[1] /\ save'.todo[2] = save.todo[2]
          /\ save'.todo[4] = save.todo[4] \ {i} /\ save'.made = save.made
      BY <1>19, <2>6
    <3>2. Said(known'.nodes) = Drop(Said(known.nodes), {i})
      BY <2>3, <2>6, StageFacts DEF Becomes
    <3>3. \A t \in DOMAIN save.made : save.made[t] # i
      BY <1>3, <1>21, <2>6
    <3>4. Brought(Said(save.snap.nodes), Drop(Said(known.nodes), {i}),
                  save.todo[1], save.todo[2], save.todo[4] \ {i}, save.made)
      BY <2>1, <3>3, BroughtGone
    <3> QED
      BY <3>1, <3>2, <3>4
  <2>7. CASE k \in {3, 5, 6}
    <3>1. /\ save'.todo[1] = save.todo[1] /\ save'.todo[2] = save.todo[2]
          /\ save'.todo[4] = save.todo[4]
      BY <1>19, <2>7
    <3>2. Said(known'.nodes) = Said(known.nodes)
      BY <2>3, <2>7, StageFacts DEF Becomes
    <3>3. CASE k = 5
      <4>1. save'.made = Put(save.made, i, nextRow) /\ i \notin DOMAIN save.made
        BY <1>19, <1>20, <3>3
      <4>2. Brought(Said(save.snap.nodes), Said(known.nodes), save.todo[1], save.todo[2],
                    save.todo[4], Put(save.made, i, nextRow))
        BY <2>1, <4>1, BroughtBeside
      <4> QED
        BY <3>1, <3>2, <4>1, <4>2
    <3>4. CASE k # 5
      <4>1. save'.made = save.made
        BY <1>19, <2>7, <3>4
      <4> QED
        BY <2>1, <3>1, <3>2, <4>1
    <3> QED
      BY <3>3, <3>4
  <2> QED
    BY <1>2, <2>4, <2>5, <2>6, <2>7
<1>29. Brought(Links(save.snap), LinksOf(known'.edges), save'.todo[5], save'.todo[6],
               save'.todo[3], save'.made)
  <2>1. Brought(Links(save.snap), LinksOf(known.edges), save.todo[5], save.todo[6],
                save.todo[3], save.made)
    BY <1>9
  <2>2. /\ DOMAIN Links(save.snap) = DOMAIN save.snap.edges /\ DOMAIN save.snap.edges \subseteq Ids
        /\ DOMAIN LinksOf(known.edges) = DOMAIN known.edges
    BY <1>4, LinksFacts DEF Fits, Links
  <2>3. Becomes(LinksOf(known.edges), LinksOf(known'.edges), LinkStage(k), nextRow, i,
                Links(save.snap)[i])
    BY <1>14
  <2>4. CASE k = 5
    <3>1. /\ save'.todo[5] = save.todo[5] \ {i} /\ save'.todo[6] = save.todo[6]
          /\ save'.todo[3] = save.todo[3] /\ save'.made = Put(save.made, i, nextRow)
      BY <1>19, <2>4
    <3>2. LinksOf(known'.edges) = Put(LinksOf(known.edges), nextRow, Links(save.snap)[i])
      BY <2>3, <2>4, StageFacts DEF Becomes
    <3>3. /\ i \in DOMAIN Links(save.snap) /\ i \notin DOMAIN save.made
          /\ nextRow \notin DOMAIN Links(save.snap) \cup DOMAIN LinksOf(known.edges)
      BY <1>5, <1>6, <1>11, <1>20, <2>2, <2>4
    <3>4. Brought(Links(save.snap),
                  Put(LinksOf(known.edges), nextRow, Links(save.snap)[i]),
                  save.todo[5] \ {i}, save.todo[6], save.todo[3], Put(save.made, i, nextRow))
      BY <2>1, <3>3, BroughtNew
    <3> QED
      BY <3>1, <3>2, <3>4
  <2>5. CASE k = 6
    <3>1. /\ save'.todo[5] = save.todo[5] /\ save'.todo[6] = save.todo[6] \ {i}
          /\ save'.todo[3] = save.todo[3] /\ save'.made = save.made
      BY <1>19, <2>5
    <3>2. LinksOf(known'.edges) = Put(LinksOf(known.edges), i, Links(save.snap)[i])
      BY <2>3, <2>5, StageFacts DEF Becomes
    <3>3. /\ i \in DOMAIN Links(save.snap) /\ i \in DOMAIN LinksOf(known.edges)
          /\ \A t \in DOMAIN save.made : save.made[t] # i
      <4>1. i \in DOMAIN stored.edges
        BY <1>3, <2>5 DEF Accepts
      <4> QED
        BY <1>8, <1>11, <1>21, <2>2, <2>5, <4>1
    <3>4. Brought(Links(save.snap), Put(LinksOf(known.edges), i, Links(save.snap)[i]),
                  save.todo[5], save.todo[6] \ {i}, save.todo[3], save.made)
      BY <2>1, <3>3, BroughtChanged
    <3> QED
      BY <3>1, <3>2, <3>4
  <2>6. CASE k = 3
    <3>1. /\ save'.todo[5] = save.todo[5] /\ save'.todo[6] = save.todo[6]
          /\ save'.todo[3] = save.todo[3] \ {i} /\ save'.made = save.made
      BY <1>19, <2>6
    <3>2. LinksOf(known'.edges) = Drop(LinksOf(known.edges), {i})
      BY <2>3, <2>6, StageFacts DEF Becomes
    <3>3. \A t \in DOMAIN save.made : save.made[t] # i
      BY <1>3, <1>21, <2>6
    <3>4. Brought(Links(save.snap), Drop(LinksOf(known.edges), {i}),
                  save.todo[5], save.todo[6], save.todo[3] \ {i}, save.made)
      BY <2>1, <3>3, BroughtGone
    <3> QED
      BY <3>1, <3>2, <3>4
  <2>7. CASE k \in {1, 2, 4}
    <3>1. /\ save'.todo[5] = save.todo[5] /\ save'.todo[6] = save.todo[6]
          /\ save'.todo[3] = save.todo[3]
      BY <1>19, <2>7
    <3>2. LinksOf(known'.edges) = LinksOf(known.edges)
      BY <2>3, <2>7, StageFacts DEF Becomes
    <3>3. CASE k = 1
      <4>1. save'.made = Put(save.made, i, nextRow) /\ i \notin DOMAIN save.made
        BY <1>19, <1>20, <3>3
      <4>2. Brought(Links(save.snap), LinksOf(known.edges), save.todo[5], save.todo[6],
                    save.todo[3], Put(save.made, i, nextRow))
        BY <2>1, <4>1, BroughtBeside
      <4> QED
        BY <3>1, <3>2, <4>1, <4>2
    <3>4. CASE k # 1
      <4>1. save'.made = save.made
        BY <1>19, <2>7, <3>4
      <4> QED
        BY <2>1, <3>1, <3>2, <4>1
    <3> QED
      BY <3>3, <3>4
  <2> QED
    BY <1>2, <2>4, <2>5, <2>6, <2>7
<1>30. Progress'
  BY <1>19, <1>24, <1>25, <1>28, <1>29 DEF Progress
<1> QED
  BY <1>17, <1>30

-----------------------------------------------------------------------------
(* What is called saved is stored.                                         *)

\* The canvas c without the rows that k has forgotten.
Kept(c, k) ==
  [nodes |-> Drop(c.nodes, {i \in DOMAIN c.nodes : ~IsTemp(i) /\ i \notin DOMAIN k.nodes}),
   edges |-> Drop(c.edges, {e \in DOMAIN c.edges : ~IsTemp(e) /\ e \notin DOMAIN k.edges})]

\* The canvas c, written by a save, says these rows, and k knows which there are.
Shows(c, k, nodes, edges) ==
  /\ DOMAIN k.nodes = DOMAIN nodes /\ DOMAIN k.edges = DOMAIN edges
  /\ \A i \in DOMAIN c.nodes \cup DOMAIN c.edges : ~(i < 0)
  /\ DOMAIN nodes \subseteq DOMAIN c.nodes /\ DOMAIN edges \subseteq DOMAIN c.edges
  /\ \A i \in DOMAIN nodes : Says(Normalized(c.nodes)[i]) = Says(nodes[i])
  /\ \A e \in DOMAIN edges : /\ edges[e] = Link(c, e)
                             /\ {edges[e].from, edges[e].to} \subseteq Names(nodes)

LEMMA Shown ==
  ASSUME NEW c, NEW k, NEW nodes, NEW edges, Shows(c, k, nodes, edges),
         Distinct(c.nodes), Distinct(nodes), IsFiniteSet(DOMAIN edges)
  PROVE  Definition(Kept(c, k)) = [nodes |-> ByName(nodes), links |-> Tally(edges)]
<1> DEFINE R == Kept(c, k)
<1>1. /\ DOMAIN k.nodes = DOMAIN nodes /\ DOMAIN k.edges = DOMAIN edges
      /\ \A i \in DOMAIN c.nodes \cup DOMAIN c.edges : ~(i < 0)
      /\ DOMAIN nodes \subseteq DOMAIN c.nodes /\ DOMAIN edges \subseteq DOMAIN c.edges
  BY DEF Shows
<1>2. /\ \A i \in DOMAIN nodes :
           /\ c.nodes[i].name = nodes[i].name
           /\ (IF c.nodes[i].ref = Raw THEN 0 ELSE c.nodes[i].ref) = nodes[i].ref
      /\ \A e \in DOMAIN edges : /\ edges[e] = Link(c, e)
                                 /\ {edges[e].from, edges[e].to} \subseteq Names(nodes)
  <2>1. \A i \in DOMAIN nodes : /\ Normalized(c.nodes)[i].name = nodes[i].name
                               /\ Normalized(c.nodes)[i].ref = nodes[i].ref
    BY DEF Shows, Says
  <2> QED
    BY <1>1, <2>1, WithoutFacts DEF Shows, Normalized
<1>3. /\ DOMAIN R.nodes = DOMAIN nodes /\ \A i \in DOMAIN nodes : R.nodes[i] = c.nodes[i]
      /\ DOMAIN R.edges = DOMAIN edges /\ \A e \in DOMAIN edges : R.edges[e] = c.edges[e]
  BY <1>1 DEF Kept, Drop, IsTemp
<1> HIDE DEF R
<1>4. ByName(Normalized(R.nodes)) = ByName(nodes)
  <2> DEFINE T == Normalized(R.nodes)
  <2>1. /\ DOMAIN T = DOMAIN nodes
        /\ \A i \in DOMAIN nodes : T[i].name = nodes[i].name /\ T[i].ref = nodes[i].ref
    BY <1>1, <1>2, <1>3, WithoutFacts DEF Normalized
  <2> HIDE DEF T
  <2>2. Distinct(T) /\ Covers(T, nodes) /\ Covers(nodes, T)
    BY <2>1 DEF Distinct, Covers
  <2>3. ByName(T) = ByName(nodes)
    BY <2>2, SameNodes
  <2> QED
    BY <2>3 DEF T
<1>5. ASSUME NEW id, NameOf(c, id) \in Names(nodes)
      PROVE  NameOf(R, id) = NameOf(c, id)
  <2>1. CASE id \in DOMAIN c.nodes
    <3>1. PICK r \in DOMAIN nodes : nodes[r].name = c.nodes[id].name
      BY <1>5, <2>1 DEF NameOf, Names
    <3>2. r = id
      BY <1>1, <1>2, <2>1, <3>1 DEF Distinct
    <3> QED
      BY <1>1, <1>3, <2>1, <3>2 DEF NameOf
  <2>2. CASE id \notin DOMAIN c.nodes
    BY <1>1, <1>3, <2>2 DEF NameOf
  <2> QED
    BY <2>1, <2>2
<1>6. \A e \in DOMAIN edges : Link(R, e) = edges[e]
  <2> TAKE e \in DOMAIN edges
  <2>1. edges[e] = Link(c, e) /\ edges[e].from \in Names(nodes) /\ edges[e].to \in Names(nodes)
    BY <1>2
  <2>2. NameOf(c, c.edges[e].from) \in Names(nodes) /\ NameOf(c, c.edges[e].to) \in Names(nodes)
    BY <2>1 DEF Link
  <2>3. /\ NameOf(R, c.edges[e].from) = NameOf(c, c.edges[e].from)
        /\ NameOf(R, c.edges[e].to) = NameOf(c, c.edges[e].to)
    BY <1>5, <2>2
  <2> QED
    BY <1>3, <2>1, <2>3 DEF Link
<1>7. Tally(Links(R)) = Tally(edges)
  <2> DEFINE h == [e \in DOMAIN edges |-> e]
  <2>1. DOMAIN Links(R) = DOMAIN edges /\ \A e \in DOMAIN edges : Links(R)[e] = Link(R, e)
    BY <1>3 DEF Links
  <2>2. h \in Bijection(DOMAIN edges, DOMAIN edges) /\ \A e \in DOMAIN edges : h[e] = e
    <3>1. h \in [DOMAIN edges -> DOMAIN edges] /\ \A e \in DOMAIN edges : h[e] = e
      OBVIOUS
    <3> HIDE DEF h
    <3>2. h \in Injection(DOMAIN edges, DOMAIN edges)
      BY <3>1 DEF Injection, IsInjective
    <3>3. h \in Surjection(DOMAIN edges, DOMAIN edges)
      BY <3>1 DEF Surjection
    <3> QED
      BY <3>1, <3>2, <3>3 DEF Bijection
  <2> HIDE DEF h
  <2>3. \A e \in DOMAIN Links(R) : edges[h[e]] = Links(R)[e]
    BY <1>6, <2>1, <2>2
  <2> QED
    BY <2>1, <2>2, <2>3, SameTally
<1>8. Definition(R) = [nodes |-> ByName(Normalized(R.nodes)), links |-> Tally(Links(R))]
  BY DEF Definition
<1> QED
  BY <1>4, <1>7, <1>8 DEF R

LEMMA RememberedKept ==
  /\ Remembered = Kept(canvas, known)
  /\ Remembered' = Kept(canvas', known')
BY DEF Remembered, Kept, ForgottenNodes, ForgottenEdges

LEMMA RowsFinite ==
  ASSUME Shapes
  PROVE  IsFiniteSet(DOMAIN stored.edges) /\ IsFiniteSet(DOMAIN stored.nodes)
<1>1. nextRow \in Nat \ {0} /\ Rows \subseteq 1..(nextRow - 1)
  BY DEF Shapes
<1>2. 1 \in Int /\ nextRow - 1 \in Int
  BY <1>1
<1>3. IsFiniteSet(1..(nextRow - 1))
  BY <1>2, FS_Interval
<1>4. DOMAIN stored.edges \subseteq 1..(nextRow - 1) /\ DOMAIN stored.nodes \subseteq 1..(nextRow - 1)
  BY <1>1 DEF Rows
<1> QED
  BY <1>3, <1>4, FS_Subset

\* A name leads to its row, or to what stands for it, and back.
LEMMA RowsNamed ==
  ASSUME Shapes, NEW n \in 1..MaxNodes, NEW c, DOMAIN c.nodes = DOMAIN stored.nodes,
         \A i \in DOMAIN stored.nodes : c.nodes[i].name = stored.nodes[i].name
  PROVE  NameOf(c, RowOf(n)) = n
<1>1. CASE StoredRow(n) = {}
  <2>1. MaxNodes \in Nat /\ RowOf(n) = n - MaxNodes - 1
    BY <1>1, EditorAssumption DEF RowOf, LogicalId
  <2>2. RowOf(n) < 0
    BY <2>1
  <2>3. \A i \in DOMAIN stored.nodes : ~(i < 0)
    BY DEF Shapes, Rows
  <2>4. NameOf(c, RowOf(n)) = RowOf(n) + MaxNodes + 1
    BY <2>2, <2>3 DEF NameOf
  <2> QED
    BY <2>1, <2>4
<1>2. CASE StoredRow(n) # {}
  <2>1. RowOf(n) \in StoredRow(n)
    BY <1>2 DEF RowOf
  <2> QED
    BY <2>1 DEF StoredRow, NameOf
<1> QED
  BY <1>1, <1>2

LEMMA LoadShown ==
  ASSUME Sound, NEW N, RowsFit(N), Load
  PROVE  Mirror' /\ Progress' /\ Unedited' /\ SavedUpToForgotten'
<1>1. /\ UNCHANGED <<stored, unsure>> /\ save' = None /\ fresh' = TRUE
      /\ canvas' = [nodes |-> Cleaned(stored.nodes), edges |-> BuildEdges]
      /\ known' = [nodes |-> stored.nodes,
                   edges |-> [r \in DOMAIN stored.edges |->
                                KnownEdge(BuildEdges[r], stored.edges[r].from,
                                          stored.edges[r].to)]]
  BY DEF Load, Idle
<1>2. Progress' /\ Unedited'
  BY <1>1 DEF Progress, Unedited
<1>3. /\ DOMAIN BuildEdges = DOMAIN stored.edges
      /\ \A e \in DOMAIN stored.edges : /\ BuildEdges[e].from = RowOf(stored.edges[e].from)
                                        /\ BuildEdges[e].to = RowOf(stored.edges[e].to)
                                        /\ BuildEdges[e].cond = stored.edges[e].cond
  BY DEF BuildEdges
<1>4. Mirror'
  <2>1. known'.nodes = stored'.nodes
    BY <1>1
  <2>2. /\ DOMAIN known'.edges = DOMAIN stored.edges
        /\ \A e \in DOMAIN stored.edges :
             known'.edges[e] = KnownEdge(BuildEdges[e], stored.edges[e].from, stored.edges[e].to)
    BY <1>1
  <2>3. \A e \in DOMAIN stored.edges : LinkOf(known'.edges[e]) = LinkOf(stored.edges[e])
    <3> TAKE e \in DOMAIN stored.edges
    <3> DEFINE x == KnownEdge(BuildEdges[e], stored.edges[e].from, stored.edges[e].to)
    <3>1. /\ x.from = stored.edges[e].from /\ x.to = stored.edges[e].to
          /\ x.cond = stored.edges[e].cond
      BY <1>3 DEF KnownEdge
    <3>2. known'.edges[e] = x
      BY <2>2
    <3> HIDE DEF x
    <3>3. LinkOf(x) = LinkOf(stored.edges[e])
      BY <3>1 DEF LinkOf
    <3> QED
      BY <3>2, <3>3
  <2>4. LinksOf(known'.edges) = LinksOf(stored'.edges)
    BY <1>1, <2>2, <2>3 DEF LinksOf
  <2> QED
    BY <2>1, <2>4 DEF Mirror
<1>5. SavedUpToForgotten'
  <2>0. SUFFICES ASSUME ~unsure PROVE StoredIsShown'
    BY <1>1 DEF SavedUpToForgotten
  <2>1. PICK c : c = canvas'
    OBVIOUS
  <2>2. PICK k : k = known'
    OBVIOUS
  <2>3. PICK rows : rows = Normalized(Cleaned(stored.nodes))
    OBVIOUS
  <2>4. /\ c.nodes = Cleaned(stored.nodes) /\ c.edges = BuildEdges
        /\ k.nodes = stored.nodes /\ DOMAIN k.edges = DOMAIN stored.edges
    BY <1>1, <2>1, <2>2
  <2>5. /\ DOMAIN c.nodes = DOMAIN stored.nodes /\ DOMAIN rows = DOMAIN stored.nodes
        /\ \A i \in DOMAIN stored.nodes : /\ c.nodes[i].name = stored.nodes[i].name
                                          /\ rows[i].name = stored.nodes[i].name
    BY <2>3, <2>4, WithoutFacts DEF Cleaned, Normalized
  <2>6. Names(rows) = Names(stored.nodes)
    BY <2>5 DEF Names
  <2>7. Shapes /\ StoredEdgesAttached
    BY Parts
  <2>8. \A i \in DOMAIN stored.nodes \cup DOMAIN stored.edges : ~(i < 0)
    BY <2>7 DEF Shapes, Rows
  <2>9. ASSUME NEW e \in DOMAIN stored.edges
        PROVE  /\ stored.edges[e] = Link(c, e)
               /\ {stored.edges[e].from, stored.edges[e].to} \subseteq Names(rows)
    <3>1. /\ stored.edges[e].from \in 1..MaxNodes /\ stored.edges[e].to \in 1..MaxNodes
          /\ IsLink(stored.edges[e])
      BY DEF RowsFit
    <3>2. /\ NameOf(c, RowOf(stored.edges[e].from)) = stored.edges[e].from
          /\ NameOf(c, RowOf(stored.edges[e].to)) = stored.edges[e].to
      BY <2>5, <2>7, <3>1, RowsNamed
    <3>3. Link(c, e) = LinkOf(stored.edges[e])
      BY <1>3, <2>4, <3>2 DEF Link, LinkOf
    <3> QED
      BY <2>0, <2>6, <2>7, <3>1, <3>3 DEF IsLink, StoredEdgesAttached
  <2>10. Shows(c, k, rows, stored.edges)
    <3>1. \A i \in DOMAIN rows : Says(Normalized(c.nodes)[i]) = Says(rows[i])
      BY <2>3, <2>4
    <3> QED
      BY <1>3, <2>4, <2>5, <2>8, <2>9, <3>1 DEF Shows
  <2>11. Distinct(stored.nodes)
    BY DEF RowsFit, NodesFit
  <2>12. Distinct(c.nodes) /\ Distinct(rows)
    BY <2>5, <2>11 DEF Distinct
  <2>13. IsFiniteSet(DOMAIN stored.edges)
    BY <2>7, RowsFinite
  <2>14. Definition(Kept(c, k)) = [nodes |-> ByName(rows), links |-> Tally(stored.edges)]
    BY <2>10, <2>12, <2>13, Shown
  <2>15. LoadedDefinition' = [nodes |-> ByName(rows), links |-> Tally(stored.edges)]
    BY <1>1, <2>3 DEF LoadedDefinition
  <2>16. Definition(Remembered') = LoadedDefinition'
    BY <2>1, <2>2, <2>14, <2>15, RememberedKept
  <2> QED
    BY <1>1, <2>16 DEF StoredIsShown
<1> QED
  BY <1>2, <1>4, <1>5

\* The save that ends as saved has brought the rows to what is shown.
LEMMA SaveShown ==
  ASSUME Sound, NEW N, NEW S, NamedBy(N, S), Mirror, Progress, save # None, Done(save),
         save.snap = Snapshot(canvas), canvas' = Remap(save, canvas), UNCHANGED <<stored, known>>, ~unsure,
         page = "builder"
  PROVE  StoredDefinition' = Definition(Remembered')
<1>1. /\ Naming(N) /\ Numbers /\ Shapes /\ MadeFits(save, N, Ids, S) /\ RowsFit(N)
      /\ canvas \in S /\ Fits(canvas, N, Ids) /\ StoredEdgesAttached
  BY Parts DEF NamedBy, SaveFits, SheetsFit
<1>2. Ids \cap Logical = {} /\ Ids \subseteq Int
  BY <1>1, IdsFacts
<1>3. PICK c : c = Remap(save, canvas)
  OBVIOUS
<1>4. /\ Remapped(save, canvas, c) /\ Fits(c, N, Ids)
      /\ \A j \in DOMAIN canvas.edges : Link(c, RealId(save, j)) = Link(canvas, j)
  BY <1>1, <1>2, <1>3, RemapShape, RemapFits
<1>5. \A k \in 1..6 : save.todo[k] = {}
  BY DEF Done
<1>6. /\ Said(known.nodes) = Said(stored.nodes)
      /\ LinksOf(known.edges) = LinksOf(stored.edges)
  BY DEF Mirror
<1>7. /\ DOMAIN known.nodes = DOMAIN stored.nodes /\ DOMAIN known.edges = DOMAIN stored.edges
      /\ \A i \in DOMAIN stored.nodes : i \in Int /\ i > 0
      /\ \A e \in DOMAIN stored.edges : e \in Int /\ e > 0
  BY <1>1, <1>6, SaidFacts, LinksFacts DEF Shapes, Rows
<1>8. \A t \in DOMAIN save.made :
         t \in Int /\ t < 0 /\ save.made[t] \in Int /\ save.made[t] > 0
  <2>1. \A t \in Int : t < -MaxNodes => t < 0
    BY EditorAssumption
  <2>2. \A t \in DOMAIN save.made :
           t \in Ids /\ t < -MaxNodes /\ save.made[t] \in Ids /\ save.made[t] > 0
    BY <1>1 DEF MadeFits
  <2> QED
    BY <1>2, <2>1, <2>2
<1>8a. PICK shown : shown = save.snap.nodes
  OBVIOUS
<1>8b. /\ DOMAIN shown = DOMAIN canvas.nodes /\ Links(save.snap) = Links(canvas)
       /\ \A j \in DOMAIN canvas.nodes :
            /\ shown[j].name = canvas.nodes[j].name
            /\ shown[j].ref = IF canvas.nodes[j].ref = Raw THEN 0 ELSE canvas.nodes[j].ref
  <2>1. shown = Normalized(canvas.nodes) /\ save.snap.edges = canvas.edges
    BY <1>8a DEF Snapshot
  <2>2. \A e \in DOMAIN canvas.edges : Link(save.snap, e) = Link(canvas, e)
    BY <1>1, SnapshotFits
  <2> QED
    BY <2>1, <2>2, WithoutFacts DEF Normalized, Links
<1>9. /\ Brought(Said(shown), Said(stored.nodes), {}, {}, {}, save.made)
      /\ Brought(Links(canvas), LinksOf(stored.edges), {}, {}, {}, save.made)
  <2>1. /\ Brought(Said(save.snap.nodes), Said(known.nodes), save.todo[1], save.todo[2],
                   save.todo[4], save.made)
        /\ Brought(Links(save.snap), LinksOf(known.edges), save.todo[5], save.todo[6],
                   save.todo[3], save.made)
    BY DEF Progress
  <2>2. /\ save.todo[1] = {} /\ save.todo[2] = {} /\ save.todo[3] = {}
        /\ save.todo[4] = {} /\ save.todo[5] = {} /\ save.todo[6] = {}
    BY <1>5
  <2>3. Said(save.snap.nodes) = Said(shown) /\ Links(save.snap) = Links(canvas)
    BY <1>8a, <1>8b
  <2> QED
    BY <1>6, <2>1, <2>2, <2>3
<1>10. /\ DOMAIN canvas.nodes \subseteq Int /\ DOMAIN canvas.edges \subseteq Int
       /\ DOMAIN Links(canvas) = DOMAIN canvas.edges
       /\ \A e \in DOMAIN canvas.edges : Links(canvas)[e] = Link(canvas, e)
  BY <1>1, <1>2 DEF Fits, NodesFit, Links
<1>11. /\ \A i \in DOMAIN stored.nodes : \E j \in DOMAIN canvas.nodes : RealId(save, j) = i
       /\ \A j \in DOMAIN canvas.nodes :
            /\ ~(RealId(save, j) < 0)
            /\ RealId(save, j) \in DOMAIN stored.nodes =>
                 Says(stored.nodes[RealId(save, j)]) = Says(shown[j])
  <2>1. /\ DOMAIN Said(stored.nodes) = DOMAIN stored.nodes
        /\ \A i \in DOMAIN stored.nodes : Said(stored.nodes)[i] = Says(stored.nodes[i])
        /\ DOMAIN Said(shown) = DOMAIN canvas.nodes
        /\ \A i \in DOMAIN canvas.nodes : Said(shown)[i] = Says(shown[i])
    BY <1>8b, SaidFacts
  <2>2. /\ \A i \in DOMAIN Said(stored.nodes) : i \in Int /\ i > 0
        /\ \A j \in DOMAIN Said(shown) : j \in Int
    BY <1>7, <1>10, <2>1
  <2>3. Brought(Said(shown), Said(stored.nodes), {}, {}, {}, save.made)
    BY <1>9
  <2>4. /\ \A i \in DOMAIN Said(stored.nodes) :
             \E j \in DOMAIN Said(shown) : RealId(save, j) = i
        /\ \A j \in DOMAIN Said(shown) :
             /\ ~(RealId(save, j) < 0)
             /\ RealId(save, j) \in DOMAIN Said(stored.nodes) =>
                  Said(stored.nodes)[RealId(save, j)] = Said(shown)[j]
    BY <1>8, <2>2, <2>3, AllBrought
  <2> QED
    BY <2>1, <2>4
<1>12. /\ \A e \in DOMAIN stored.edges : \E j \in DOMAIN canvas.edges : RealId(save, j) = e
       /\ \A j \in DOMAIN canvas.edges :
            /\ ~(RealId(save, j) < 0)
            /\ RealId(save, j) \in DOMAIN stored.edges =>
                 LinkOf(stored.edges[RealId(save, j)]) = Link(canvas, j)
  <2>1. /\ DOMAIN LinksOf(stored.edges) = DOMAIN stored.edges
        /\ \A e \in DOMAIN stored.edges : LinksOf(stored.edges)[e] = LinkOf(stored.edges[e])
    BY LinksFacts
  <2>2. /\ \A e \in DOMAIN LinksOf(stored.edges) : e \in Int /\ e > 0
        /\ \A j \in DOMAIN Links(canvas) : j \in Int
    BY <1>7, <1>10, <2>1
  <2>3. Brought(Links(canvas), LinksOf(stored.edges), {}, {}, {}, save.made)
    BY <1>9
  <2>4. /\ \A e \in DOMAIN LinksOf(stored.edges) :
             \E j \in DOMAIN Links(canvas) : RealId(save, j) = e
        /\ \A j \in DOMAIN Links(canvas) :
             /\ ~(RealId(save, j) < 0)
             /\ RealId(save, j) \in DOMAIN LinksOf(stored.edges) =>
                  LinksOf(stored.edges)[RealId(save, j)] = Links(canvas)[j]
    BY <1>8, <2>2, <2>3, AllBrought
  <2> QED
    BY <1>10, <2>1, <2>4
<1>13. /\ DOMAIN c.nodes = {RealId(save, j) : j \in DOMAIN canvas.nodes}
       /\ DOMAIN c.edges = {RealId(save, j) : j \in DOMAIN canvas.edges}
       /\ \A j \in DOMAIN canvas.nodes : c.nodes[RealId(save, j)] = canvas.nodes[j]
  BY <1>4 DEF Remapped
<1>14. PICK k : k = known
  OBVIOUS
<1>15. Shows(c, k, stored.nodes, stored.edges)
  <2>1. \A i \in DOMAIN c.nodes \cup DOMAIN c.edges : ~(i < 0)
    BY <1>11, <1>12, <1>13
  <2>2. /\ DOMAIN stored.nodes \subseteq DOMAIN c.nodes
        /\ DOMAIN stored.edges \subseteq DOMAIN c.edges
    BY <1>11, <1>12, <1>13
  <2>3. ASSUME NEW i \in DOMAIN stored.nodes
        PROVE  Says(Normalized(c.nodes)[i]) = Says(stored.nodes[i])
    <3>1. PICK j \in DOMAIN canvas.nodes : RealId(save, j) = i
      BY <1>11
    <3>2. i \in DOMAIN c.nodes /\ c.nodes[i] = canvas.nodes[j]
      BY <1>13, <3>1
    <3>3. /\ Normalized(c.nodes)[i].name = shown[j].name
          /\ Normalized(c.nodes)[i].ref = shown[j].ref
      BY <1>8b, <3>2, WithoutFacts DEF Normalized
    <3>4. Says(stored.nodes[i]) = Says(shown[j])
      BY <1>11, <3>1
    <3> QED
      BY <3>3, <3>4 DEF Says
  <2>4. ASSUME NEW e \in DOMAIN stored.edges
        PROVE  /\ stored.edges[e] = Link(c, e)
               /\ {stored.edges[e].from, stored.edges[e].to} \subseteq Names(stored.nodes)
    <3>1. PICK j \in DOMAIN canvas.edges : RealId(save, j) = e
      BY <1>12
    <3>2. LinkOf(stored.edges[e]) = Link(c, e)
      BY <1>4, <1>12, <3>1
    <3>3. IsLink(stored.edges[e])
      BY <1>1 DEF RowsFit
    <3> QED
      BY <1>1, <3>2, <3>3 DEF IsLink, StoredEdgesAttached
  <2> QED
    BY <1>7, <1>14, <2>1, <2>2, <2>3, <2>4 DEF Shows
<1>16. Distinct(c.nodes) /\ Distinct(stored.nodes) /\ IsFiniteSet(DOMAIN stored.edges)
  BY <1>1, <1>4, RowsFinite DEF Fits, NodesFit, RowsFit
<1>17. Definition(Kept(c, k)) = [nodes |-> ByName(stored.nodes), links |-> Tally(stored.edges)]
  BY <1>15, <1>16, Shown
<1>18. StoredDefinition' = [nodes |-> ByName(stored.nodes), links |-> Tally(stored.edges)]
  BY DEF StoredDefinition
<1>19. canvas' = c /\ known' = k
  BY <1>3, <1>14
<1> QED
  BY <1>17, <1>18, <1>19, RememberedKept

-----------------------------------------------------------------------------
Followed == Mirror /\ Progress /\ Unedited /\ SavedUpToForgotten

LEMMA InitFollowed == Init => Checked /\ PublishSaved /\ Followed
BY DEF Init, Checked, VerdictIsCurrent, PublishSaved, SaveStates, readOnly, Followed, Mirror,
   Progress, Unedited, SavedUpToForgotten

\* A step that changes neither the canvas nor the rows.
LEMMA QuietFollowed ==
  ASSUME Followed, UNCHANGED <<canvas, known, stored.nodes, stored.edges, save, saveState,
                               fresh, unsure, ids>>,
         page' = page \/ page' # "builder"
  PROVE  Followed'
<1>1. Ids' = Ids
  BY DEF ids, Ids, Temps
<1>2. Mirror' /\ Progress'
  BY <1>1, AroundFollowed DEF Followed
<1>3. Unedited'
  BY DEF Followed, Unedited
<1>4. /\ StoredDefinition' = StoredDefinition /\ LoadedDefinition' = LoadedDefinition
      /\ Remembered' = Remembered
  BY DEF StoredDefinition, LoadedDefinition, Remembered, ForgottenNodes, ForgottenEdges
<1>5. StoredIsShown' <=> StoredIsShown
  BY <1>4 DEF StoredIsShown
<1>6. SavedUpToForgotten'
  BY <1>5 DEF Followed, SavedUpToForgotten
<1> QED
  BY <1>2, <1>3, <1>6 DEF Followed

LEMMA UnsureFollowed ==
  ASSUME unsure' = TRUE, save' = None \/ UNCHANGED <<save, canvas>>, Followed
  PROVE  Followed'
BY DEF Followed, Mirror, Progress, Unedited, SavedUpToForgotten

LEMMA GoneFollowed ==
  ASSUME page' # "builder", save' = None
  PROVE  Followed'
BY DEF Followed, Mirror, Progress, Unedited, SavedUpToForgotten

LEMMA BegunFollowed ==
  ASSUME Sound, Named, Followed, BeginSave,
         UNCHANGED <<stored, ids, known, unsure, page, canvas>>
  PROVE  Followed'
<1>1. PICK N, S : NamedBy(N, S)
  BY DEF Named
<1>2. Mirror' /\ Progress' /\ Unedited'
  BY <1>1, BeginFollowed DEF Followed
<1>3. saveState' = "saving"
  BY DEF BeginSave
<1> QED
  BY <1>2, <1>3 DEF Followed, SavedUpToForgotten

LEMMA EditingFollowed ==
  ASSUME Sound, Named, Followed, Editing
  PROVE  Followed'
<1>1. /\ MarkUnsaved /\ UNCHANGED <<stored, nextRow, page, known, unsure>>
      /\ nextTemp' \in {nextTemp, nextTemp - 1}
  BY DEF Editing, DropNode, AddNode, Undo, Redo, DuplicateNode, DeleteNode, UpdateNode,
     DragNode, Connect, ChangeCondition, DeleteEdge, Reconnect, EditKeepingIds, Edit,
     ShowCanvas
<1>2. Numbers /\ Shapes
  BY Parts DEF Named, NamedBy
<1>3. Ids \subseteq Ids'
  <2>1. nextRow' \in Nat /\ nextRow' >= nextRow
    BY <1>1, <1>2 DEF Shapes
  <2> QED
    BY <1>1, <1>2, <2>1, IdsGrow
<1>4. save' # None => /\ save # None /\ save'.todo = save.todo /\ save'.was = save.was
                      /\ save'.snap = save.snap /\ save'.made = save.made
                      /\ save'.edited = TRUE
  BY <1>1, Parts DEF MarkUnsaved, AtWork
<1>5. Mirror' /\ Progress'
  BY <1>1, <1>3, <1>4, AroundFollowed DEF Followed
<1>6. saveState' # "saved"
  BY <1>1 DEF MarkUnsaved
<1> QED
  BY <1>4, <1>5, <1>6 DEF Followed, Unedited, SavedUpToForgotten

LEMMA CallFollowed ==
  ASSUME Sound, Named, PublishSaved, Followed, SaveCall
  PROVE  Followed'
<1>1. PICK N, S : NamedBy(N, S)
  BY DEF Named
<1>2. Mirror' /\ Progress'
  BY <1>1, SaveCallFollowed DEF Followed
<1>3. /\ save # None /\ UNCHANGED <<saveState, canvas>>
      /\ \E k, i : save' = Advance(save, k, i)
  BY DEF SaveCall
<1>4. save'.snap = save.snap /\ save'.edited = save.edited
  BY <1>3, Parts DEF Advance, AtWork
<1> QED
  BY <1>2, <1>3, <1>4 DEF Followed, Unedited, SavedUpToForgotten, PublishSaved

LEMMA SaveOverFollowed ==
  ASSUME Sound, Named, PublishSaved, Followed, SaveEnds \/ SaveRefused \/ SaveUnreached
  PROVE  Followed'
<1>1. PICK N, S : NamedBy(N, S)
  BY DEF Named
<1>2. /\ save # None /\ save' = None /\ UNCHANGED <<stored, known, ids, unsure, page, fresh>>
      /\ canvas' = Remap(save, canvas)
      /\ saveState' = "saved" => Done(save) /\ ~save.edited
  BY DEF SaveEnds, SaveRefused, SaveUnreached, EndSave, ChangedDuringSave
<1>3. Ids' = Ids
  BY <1>2 DEF ids, Ids, Temps
<1>4. Mirror' /\ Progress' /\ Unedited'
  BY <1>2, <1>3, AroundFollowed DEF Followed, Unedited
<1>5. ASSUME page' = "builder", saveState' = "saved", ~unsure'
      PROVE  StoredIsShown'
  <2>1. /\ Done(save) /\ ~save.edited /\ ~unsure /\ page = "builder"
        /\ save.snap = Snapshot(canvas)
    BY <1>2, <1>5 DEF Followed, Unedited
  <2>2. StoredDefinition' = Definition(Remembered')
    BY <1>1, <1>2, <2>1, SaveShown DEF Followed
  <2>3. fresh' = FALSE
    BY <1>2 DEF PublishSaved
  <2> QED
    BY <2>2, <2>3 DEF StoredIsShown
<1>6. SavedUpToForgotten'
  BY <1>5 DEF SavedUpToForgotten
<1> QED
  BY <1>4, <1>6 DEF Followed

LEMMA NextFollowed ==
  Sound /\ Named /\ PublishSaved /\ Followed /\ [Next]_vars => Followed'
<1> SUFFICES ASSUME Sound, Named, PublishSaved, Followed, [Next]_vars PROVE Followed'
  OBVIOUS
<1>1. CASE Load
  <2>1. \E N : RowsFit(N)
    BY DEF Named, NamedBy
  <2> QED
    BY <1>1, <2>1, LoadShown DEF Followed
<1>2. CASE Save \/ (Preflight /\ BeginSave)
  <2>1. BeginSave /\ UNCHANGED <<stored, ids, known, unsure, page, canvas>>
    BY <1>2 DEF Save, Preflight, PublishStep
  <2> QED
    BY <2>1, BegunFollowed
<1>3. CASE EditWorkflow \/ \E to \in {"left", "loading"} : Unmount(to)
  BY <1>3, GoneFollowed DEF EditWorkflow, Unmount, Idle
<1>4. CASE \/ HistoryTimer \/ Validate \/ Validated \/ CloseValidation \/ Publish
           \/ ServerValidates \/ PublishCall \/ ConfirmPublication \/ StayInBuilder
           \/ OpenBuilder \/ UNCHANGED vars \/ (NavigateWithGuard /\ ~Unmount("left"))
           \/ (Preflight /\ ~BeginSave)
  <2>1. /\ UNCHANGED <<canvas, known, save, saveState, fresh, unsure, ids>>
        /\ page' = page \/ page' # "builder"
    BY <1>4 DEF HistoryTimer, Validate, Validated, CloseValidation, Publish, ServerValidates,
       PublishCall, ConfirmPublication, StayInBuilder, OpenBuilder, NavigateWithGuard,
       Preflight, PublishStep, saving, builderVars, vars
  <2>2. UNCHANGED <<stored.nodes, stored.edges>>
    <3>1. CASE PublishCall
      BY <3>1, Parts DEF PublishCall, Shapes
    <3>2. CASE ~PublishCall
      BY <1>4, <3>2 DEF HistoryTimer, Validate, Validated, CloseValidation, Publish,
         ServerValidates, ConfirmPublication, StayInBuilder, OpenBuilder, NavigateWithGuard,
         Preflight, PublishStep, vars
    <3> QED
      BY <3>1, <3>2
  <2> QED
    BY <2>1, <2>2, QuietFollowed
<1>5. CASE SaveUnanswered
  BY <1>5, UnsureFollowed DEF SaveUnanswered
<1>6. CASE OrphanCall \/ OrphanEnds
  <2>1. UNCHANGED <<canvas, known, save, saveState, fresh, page>>
    BY <1>6 DEF OrphanCall, OrphanEnds, builderVars, saving
  <2>2. unsure' = TRUE \/ UNCHANGED <<stored, unsure, nextRow>>
    BY <1>6 DEF OrphanCall, OrphanEnds, ids
  <2>3. UNCHANGED <<nextTemp, nextName>>
    BY <1>6 DEF OrphanCall, OrphanEnds, ids
  <2> QED
    BY <2>1, <2>2, <2>3, UnsureFollowed, QuietFollowed DEF ids
<1>7. CASE NavigateWithGuard \/ ConfirmLeave \/ Refresh \/ SelectVersion
  BY <1>3, <1>4, <1>7 DEF NavigateWithGuard, ConfirmLeave, Refresh, SelectVersion
<1>8. CASE Editing \/ SaveCall \/ SaveEnds \/ SaveRefused \/ SaveUnreached
  BY <1>8, EditingFollowed, CallFollowed, SaveOverFollowed
<1>9. CASE Preflight
  BY <1>2, <1>4, <1>9
<1>10. CASE Calls
  BY <1>4, <1>8, <1>9, <1>10 DEF Calls
<1>11. CASE \/ Save \/ SaveUnreached \/ SaveUnanswered \/ OrphanCall \/ OrphanEnds
            \/ HistoryTimer \/ Validate \/ Validated \/ CloseValidation \/ Publish
  BY <1>2, <1>4, <1>5, <1>6, <1>8, <1>11
<1> QED
  BY <1>1, <1>3, <1>4, <1>7, <1>8, <1>10, <1>11 DEF Next

-----------------------------------------------------------------------------
(* The types of the variables that no other invariant is about.            *)

Plain ==
  /\ {stored.status, status} \subseteq {"draft", "published", "retired"}
  /\ page \in {"loading", "builder", "left"} /\ publishing \in Publishing
  /\ leaving \in BOOLEAN /\ fresh \in BOOLEAN /\ unsure \in BOOLEAN

LEMMA PerformKeepsStatus ==
  ASSUME Shapes, NEW s, NEW k \in 1..6, NEW i, Perform(s, k, i), Plain
  PROVE  stored'.status \in {"draft", "published", "retired"}
BY DEF Shapes, Perform, Plain

LEMMA NextPlain == Sound /\ Plain /\ [Next]_vars => Plain'
<1> SUFFICES ASSUME Sound, Plain, [Next]_vars PROVE Plain'
  OBVIOUS
<1>1. Shapes
  BY Parts
<1>2. CASE Load
  BY <1>2 DEF Load, Idle, Plain, Publishing
<1>3. CASE Editing
  <2>1. UNCHANGED <<stored, page, fresh, publishing, status, leaving, unsure>>
    BY <1>3 DEF Editing, DropNode, AddNode, Undo, Redo, DuplicateNode, DeleteNode, UpdateNode,
       DragNode, Connect, ChangeCondition, DeleteEdge, Reconnect, EditKeepingIds, Edit,
       ShowCanvas
  <2> QED
    BY <2>1 DEF Plain
<1>4. CASE SaveCall
  <2>1. UNCHANGED <<page, fresh, publishing, status, leaving, unsure>>
    BY <1>4 DEF SaveCall
  <2>2. \E k \in 1..6 : \E i : Perform(save, k, i)
    BY <1>4, StageFirst DEF SaveCall
  <2>3. stored'.status \in {"draft", "published", "retired"}
    BY <1>1, <2>2, PerformKeepsStatus
  <2> QED
    BY <2>1, <2>3 DEF Plain
<1>5. CASE SaveEnds \/ SaveRefused \/ SaveUnreached
  BY <1>5 DEF SaveEnds, SaveRefused, SaveUnreached, EndSave, Plain, Publishing
<1>6. CASE SaveUnanswered
  <2>1. UNCHANGED <<page, fresh, status, leaving>> /\ publishing' = "no" /\ unsure' = TRUE
    BY <1>6 DEF SaveUnanswered
  <2>2. \E k \in 1..6 : \E i : Perform(save, k, i)
    BY <1>6, StageFirst DEF SaveUnanswered
  <2>3. stored'.status \in {"draft", "published", "retired"}
    BY <1>1, <2>2, PerformKeepsStatus
  <2> QED
    BY <2>1, <2>3 DEF Plain, Publishing
<1>7. CASE OrphanCall
  <2>1. UNCHANGED <<page, fresh, publishing, status, leaving>>
    BY <1>7 DEF OrphanCall, builderVars, saving
  <2>2. \/ unsure' = TRUE /\ \E k \in 1..6 : \E i : Perform(orphan.save, k, i)
        \/ UNCHANGED <<stored, unsure>>
    BY <1>7, StageFirst DEF OrphanCall
  <2>3. (stored'.status \in {"draft", "published", "retired"}) /\ unsure' \in BOOLEAN
    BY <1>1, <2>2, PerformKeepsStatus DEF Plain
  <2> QED
    BY <2>1, <2>3 DEF Plain
<1>8. CASE OrphanEnds
  BY <1>1, <1>8 DEF OrphanEnds, builderVars, saving, Plain, Shapes
<1>9. CASE Preflight
  BY <1>9 DEF Preflight, PublishStep, BeginSave, Judged, saving, Plain, Publishing
<1>10. CASE PublishCall
  BY <1>1, <1>10 DEF PublishCall, PublishStep, saving, Plain, Publishing, Shapes
<1>11. CASE ServerValidates \/ ConfirmPublication \/ Publish
  BY <1>11 DEF ServerValidates, ConfirmPublication, Publish, PublishStep, Judged, saving,
     Plain, Publishing
<1>12. CASE EditWorkflow \/ \E to \in {"left", "loading"} : Unmount(to)
  <2>1. (stored'.status \in {"draft", "published", "retired"}) /\ UNCHANGED unsure
    BY <1>12 DEF EditWorkflow, Unmount, Plain
  <2>2. /\ page' \in {"loading", "left"} /\ status' = "draft" /\ publishing' = "no"
        /\ leaving' = FALSE /\ fresh' = TRUE
    BY <1>12 DEF EditWorkflow, Unmount, Idle
  <2> QED
    BY <2>1, <2>2 DEF Plain, Publishing
<1>13. CASE \/ HistoryTimer \/ Save \/ Validate \/ Validated \/ CloseValidation
            \/ StayInBuilder \/ OpenBuilder \/ UNCHANGED vars
            \/ NavigateWithGuard /\ ~Unmount("left")
  BY <1>13 DEF HistoryTimer, Save, BeginSave, Validate, Validated, CloseValidation,
     StayInBuilder, OpenBuilder, NavigateWithGuard, builderVars, saving, vars, Plain
<1>14. CASE NavigateWithGuard \/ ConfirmLeave \/ Refresh \/ SelectVersion
  BY <1>12, <1>13, <1>14 DEF NavigateWithGuard, ConfirmLeave, Refresh, SelectVersion
<1> QED
  BY <1>2, <1>3, <1>4, <1>5, <1>6, <1>7, <1>8, <1>9, <1>10, <1>11, <1>12, <1>13, <1>14
  DEF Next, Calls

-----------------------------------------------------------------------------
EditorInvariant == Sound /\ Named /\ Checked /\ PublishSaved /\ Followed

LEMMA EditorKept == Spec => []EditorInvariant
<1>1. Init => EditorInvariant
  BY InitSound, InitNamed, InitFollowed DEF EditorInvariant
<1>2. EditorInvariant /\ [Next]_vars => EditorInvariant'
  BY NextSound, NextNamed, NextChecked, NextKeepsSaved, NextFollowed DEF EditorInvariant
<1> QED
  BY <1>1, <1>2, PTL DEF Spec

\* The verdict of the validation dialog is about the definition on the canvas,
\* whatever was edited, undone or saved while the service judged (handleValidate
\* and validateCanvas of WorkflowBuilder.jsx).
THEOREM VerdictStaysCurrent == Spec => []VerdictIsCurrent
<1>1. EditorInvariant => VerdictIsCurrent
  BY DEF EditorInvariant, Checked
<1> QED
  BY <1>1, EditorKept, PTL

\* When the toolbar says "Saved" the rows of the service say what the canvas
\* would be saved as (handleSave of WorkflowBuilder.jsx), for any number of
\* edits, saves, refused calls and reloads, with two exceptions.  Rows that a save
\* of this builder deleted and the canvas still shows, because of undo or redo or
\* because a connection was moved off a node that the save deleted, are
\* forgotten; and until a builder saves for the first time the canvas shows the
\* rows as transformBackendNode converted them.
THEOREM SavedIsStored == Spec => []SavedUpToForgotten
<1>1. EditorInvariant => SavedUpToForgotten
  BY DEF EditorInvariant, Followed
<1> QED
  BY <1>1, EditorKept, PTL

\* A version shown as published holds what the canvas shows, with the exceptions
\* of SavedIsStored: nothing can be edited between the preflight of handlePublish
\* and the answer, and what was edited is saved.  A canvas that only its load
\* converted is not: handlePublish saves nothing when nothing was edited.
THEOREM PublishedAsShown == Spec => []PublishedIsShown
<1>1. EditorInvariant => PublishedIsShown
  BY DEF EditorInvariant, PublishSaved, Followed, SavedUpToForgotten, PublishedIsShown
<1> QED
  BY <1>1, EditorKept, PTL

\* Every variable of the builder has its type, and a save is under way only while
\* the toolbar says "Saving" (savingRef of WorkflowBuilder.jsx is set and cleared
\* with the word).
THEOREM TypeCorrect == Spec => []TypeOK
<1>1. Init => Plain
  <2> SUFFICES ASSUME Init PROVE Plain
    OBVIOUS
  <2>1. PICK start \in Starts : stored = FirstRows(start)
    BY DEF Init
  <2>2. stored.status \in {"draft", "published", "retired"}
    BY <2>1, ContentsAssumption DEF FirstRows
  <2> QED
    BY <2>2 DEF Init, Plain, Publishing
<1>2. EditorInvariant /\ Plain /\ [Next]_vars => Plain'
  BY NextPlain DEF EditorInvariant
<1>3. EditorInvariant /\ Plain => TypeOK
  <2> SUFFICES ASSUME EditorInvariant, Plain PROVE TypeOK
    OBVIOUS
  <2>1. PICK N, S : NamedBy(N, S)
    BY DEF EditorInvariant, Named
  <2>2. Numbers /\ SheetsFit(N, S) /\ Shapes
    BY <2>1, Parts DEF NamedBy, EditorInvariant
  <2>3. \A n \in DOMAIN undo : DOMAIN undo[n] = {"nodes", "edges"}
    <3>1. \A n \in DOMAIN undo : undo[n] \in S
      BY <2>2 DEF SheetsFit
    <3> QED
      BY <2>2, <3>1 DEF SheetsFit, Fits
  <2>4. nextRow \in Nat /\ nextName \in Nat /\ -nextTemp \in Nat
    BY <2>2, EditorAssumption DEF Numbers, Shapes
  <2>5. saveState \in SaveStates /\ (save # None => saveState = "saving")
    BY DEF EditorInvariant, PublishSaved
  <2> QED
    BY <2>3, <2>4, <2>5 DEF Plain, TypeOK
<1> QED
  BY <1>1, <1>2, <1>3, EditorKept, PTL DEF Spec
=============================================================================
