------------------------- MODULE Dispatcher_proofs -------------------------
(***************************************************************************)
(* TLAPS proofs about Dispatcher: the counters agree and no execution is   *)
(* given to two tasks, for any number of tasks, slots and executions.      *)
(***************************************************************************)
EXTENDS Dispatcher, FiniteSetTheorems, SequenceTheorems, TLAPS

\* TypeOK without the range of the semaphore, which CountersAgree implies.
Shape ==
  /\ status \in [Execution -> Row!Status]
  /\ cancelRequested \in [Execution -> BOOLEAN]
  /\ created \in Seq(Execution) /\ handoffs \in Nat
  /\ expired \subseteq Execution
  /\ phase \in Phase /\ consumer \in {"running", "failed", "cancelled"}
  /\ restarts \in Nat
  /\ loop \in Loop /\ due \subseteq Execution /\ slots \in Nat
  /\ batch \subseteq Execution
  /\ stage \in [Task -> Stage] /\ runs \in [Task -> Execution \cup {None}]
  /\ activeIds \subseteq Execution /\ permits \in Nat

Counted == Shape /\ CountersAgree /\ OneTaskPerExecution

-----------------------------------------------------------------------------
(* Tasks.                                                                  *)

\* The live tasks are finitely many, so they can be counted.
LEMMA LiveTaskFinite == IsFiniteSet(LiveTask) /\ Cardinality(LiveTask) \in Nat
<1>1. LiveTask \subseteq Task
  BY DEF LiveTask
<1> QED
  BY <1>1, DispatcherAssumption, FS_Subset, FS_CardinalityType

\* A process that starts or is gone has no tasks.
LEMMA NoTasks ==
  ASSUME NEW l, Process(l)
  PROVE  CountersAgree' /\ OneTaskPerExecution'
<1>1. LiveTask' = {}
  BY DEF Process, LiveTask, Live
<1>2. Cardinality({}) = 0
  BY FS_EmptySet
<1> QED
  BY <1>1, <1>2, DispatcherAssumption DEF Process, CountersAgree, OneTaskPerExecution

\* A task that moves inside the body, or is forgotten, changes no counter.
LEMMA TaskMoves ==
  ASSUME Counted, NEW t \in Task, NEW s \in Stage,
         stage' = [stage EXCEPT ![t] = s], s \in Live <=> stage[t] \in Live,
         \A u \in LiveTask : runs'[u] = runs[u], UNCHANGED <<activeIds, permits>>
  PROVE  CountersAgree' /\ OneTaskPerExecution'
<1>1. LiveTask' = LiveTask
  BY DEF LiveTask, Counted, Shape
<1> QED
  BY <1>1 DEF Counted, CountersAgree, OneTaskPerExecution

\* The finally clause gives back one permit and one id.
LEMMA BodyLeft ==
  ASSUME Counted, NEW t \in LiveTask, LeaveBody(t)
  PROVE  CountersAgree' /\ OneTaskPerExecution'
<1>1. LiveTask' = LiveTask \ {t}
  BY DEF LiveTask, Live, LeaveBody, Counted, Shape
<1>2. Cardinality(LiveTask') = Cardinality(LiveTask) - 1
  BY <1>1, LiveTaskFinite, FS_RemoveElement
<1>3. permits' + Cardinality(LiveTask') = MaxConcurrency
  BY <1>2, LiveTaskFinite DEF LeaveBody, Counted, CountersAgree, Shape
<1>4. {runs[u] : u \in LiveTask \ {t}} = {runs[u] : u \in LiveTask} \ {runs[t]}
  BY DEF Counted, OneTaskPerExecution
<1>5. activeIds' = {runs'[u] : u \in LiveTask'}
  BY <1>1, <1>4 DEF LeaveBody, Counted, CountersAgree
<1>6. OneTaskPerExecution'
  BY <1>1 DEF LeaveBody, Counted, OneTaskPerExecution
<1> QED
  BY <1>3, <1>5, <1>6 DEF CountersAgree

\* A new task takes one permit and adds one id no live task has.
LEMMA TaskCreated ==
  ASSUME Counted, NEW e \in Execution, NEW t \in Task, CreateTask(e, t)
  PROVE  CountersAgree' /\ OneTaskPerExecution'
<1>0. t \notin LiveTask
  BY DEF CreateTask, LiveTask, Live
<1>1. LiveTask' = LiveTask \cup {t}
  BY DEF LiveTask, Live, CreateTask, Counted, Shape
<1>2. Cardinality(LiveTask') = Cardinality(LiveTask) + 1
  BY <1>0, <1>1, LiveTaskFinite, FS_AddElement
<1>3. permits' + Cardinality(LiveTask') = MaxConcurrency
  BY <1>2, LiveTaskFinite DEF CreateTask, Counted, CountersAgree, Shape
<1>4. runs'[t] = e /\ \A u \in LiveTask : runs'[u] = runs[u]
  BY <1>0 DEF CreateTask, Counted, Shape, LiveTask
<1>5. activeIds' = {runs'[u] : u \in LiveTask'}
  BY <1>1, <1>4 DEF CreateTask, Counted, CountersAgree
<1>6. OneTaskPerExecution'
  BY <1>1, <1>4 DEF CreateTask, Counted, CountersAgree, OneTaskPerExecution
<1> QED
  BY <1>3, <1>5, <1>6 DEF CountersAgree

-----------------------------------------------------------------------------
LEMMA InitCounted == Init => Counted
<1> SUFFICES ASSUME Init PROVE Counted
  OBVIOUS
<1>1. Shape
  BY DispatcherAssumption DEF Init, Shape, Row!Status, Phase, Loop, Stage
<1>2. LiveTask = {}
  BY DEF Init, LiveTask, Live
<1>3. Cardinality({}) = 0
  BY FS_EmptySet
<1> QED
  BY <1>1, <1>2, <1>3, DispatcherAssumption
     DEF Init, Counted, CountersAgree, OneTaskPerExecution

\* What happens outside the tasks leaves the counters alone.
LEMMA TasksUnchanged ==
  ASSUME Counted, UNCHANGED taskVars
  PROVE  CountersAgree' /\ OneTaskPerExecution'
BY DEF Counted, taskVars, CountersAgree, OneTaskPerExecution, LiveTask

LEMMA RowShape ==
  ASSUME Shape, NEW e,
         \/ Row!Submit(e) \/ Row!Start(e) \/ Row!Suspend(e) \/ Row!Resume(e)
         \/ Row!Finish(e) \/ Row!RequestCancellation(e)
  PROVE  /\ status' \in [Execution -> Row!Status]
         /\ cancelRequested' \in [Execution -> BOOLEAN]
BY DEF Shape, Row!Submit, Row!Start, Row!Suspend, Row!Resume, Row!Finish,
   Row!RequestCancellation, Row!Become, Row!Status, Row!Idle, Row!Terminal

LEMMA NextCounted == Counted /\ [Next]_vars => Counted'
<1> SUFFICES ASSUME Counted, [Next]_vars PROVE Counted'
  OBVIOUS
<1> DEFINE Goal == Shape' /\ CountersAgree' /\ OneTaskPerExecution'
<1>0. Shape
  BY DEF Counted
<1>1. ASSUME NEW e \in Execution, Submit(e) \/ Decide(e) \/ LeaseExpires(e) PROVE Goal
  <2>1. UNCHANGED taskVars
    BY <1>1 DEF Submit, Decide, LeaseExpires
  <2>2. CASE Submit(e)
    <3>1. created' \in Seq(Execution)
      BY <1>0, <2>2 DEF Submit, Shape
    <3> QED
      BY <1>0, <2>1, <2>2, <3>1, RowShape, TasksUnchanged
         DEF Submit, Shape, loopVars, taskVars, lifeVars
  <2>3. CASE Decide(e)
    BY <1>0, <2>1, <2>3, RowShape, TasksUnchanged DEF Decide, Shape, loopVars, taskVars, lifeVars
  <2>4. CASE LeaseExpires(e)
    BY <1>0, <2>1, <2>4, TasksUnchanged DEF LeaseExpires, Shape, loopVars, taskVars, lifeVars
  <2> QED
    BY <1>1, <2>2, <2>3, <2>4
<1>2. ASSUME NEW t \in Task, TaskStep(t) PROVE Goal
  <2>1. CASE TaskClaims(t)
    <3>1. Shape'
      BY <1>0, <2>1, RowShape DEF TaskClaims, Shape, Stage, Live, loopVars, lifeVars
    <3>2. CountersAgree' /\ OneTaskPerExecution'
      BY <2>1, TaskMoves DEF TaskClaims, Stage, Live
    <3> QED
      BY <3>1, <3>2
  <2>2. CASE TaskDoesNotClaim(t) \/ TaskEnds(t)
    <3>1. t \in LiveTask /\ LeaveBody(t)
      BY <2>2 DEF TaskDoesNotClaim, TaskEnds, LiveTask, Live
    <3>2. stage' \in [Task -> Stage] /\ permits' \in Nat
      BY <1>0, <3>1 DEF LeaveBody, Shape, Stage
    <3>3. UNCHANGED <<rowVars, loopVars, lifeVars>>
      BY <2>2 DEF TaskDoesNotClaim, TaskEnds
    <3>4. Shape'
      BY <1>0, <3>1, <3>2, <3>3 DEF LeaveBody, Shape, rowVars, loopVars, lifeVars
    <3> QED
      BY <3>1, <3>4, BodyLeft
  <2>3. CASE TaskLeavesRow(t)
    <3>1. handoffs' \in Nat
      BY <1>0, <2>3 DEF TaskLeavesRow, Shape
    <3>2. Row!Suspend(runs[t]) \/ Row!Finish(runs[t])
      BY <2>3 DEF TaskLeavesRow
    <3>3. stage' \in [Task -> Stage]
      BY <1>0, <2>3 DEF TaskLeavesRow, Shape, Stage, Live
    <3>4. Shape'
      BY <1>0, <2>3, <3>1, <3>2, <3>3, RowShape DEF TaskLeavesRow, Shape, loopVars, lifeVars
    <3>5. CountersAgree' /\ OneTaskPerExecution'
      BY <2>3, TaskMoves DEF TaskLeavesRow, Stage, Live
    <3> QED
      BY <3>4, <3>5
  <2>4. CASE TaskLosesRow(t)
    <3>1. Shape'
      BY <1>0, <2>4 DEF TaskLosesRow, Shape, Stage, Live, rowVars, loopVars, lifeVars
    <3>2. CountersAgree' /\ OneTaskPerExecution'
      BY <2>4, TaskMoves DEF TaskLosesRow, Stage, Live
    <3> QED
      BY <3>1, <3>2
  <2>5. CASE TaskDone(t)
    <3>1. Shape'
      BY <1>0, <2>5 DEF TaskDone, Shape, Stage, rowVars, loopVars, lifeVars
    <3>2. \A u \in LiveTask : runs'[u] = runs[u]
      BY <1>0, <2>5 DEF TaskDone, LiveTask, Live, Shape
    <3>3. CountersAgree' /\ OneTaskPerExecution'
      BY <2>5, <3>2, TaskMoves DEF TaskDone, Stage, Live
    <3> QED
      BY <3>1, <3>3
  <2> QED
    BY <1>2, <2>1, <2>2, <2>3, <2>4, <2>5 DEF TaskStep
<1>3. ASSUME LoopStep \/ LoopFails PROVE Goal
  <2> USE <1>0 DEF Shape, Loop
  <2>1. CASE ListExpired \/ DispatchDone \/ WakeUp \/ LoopFails
    BY <2>1, TasksUnchanged
       DEF ListExpired, DispatchDone, WakeUp, LoopFails, rowVars, taskVars, lifeVars
  <2>2. CASE CleanupDone
    <3>1. Cardinality(ActiveTask) \in Nat
      <4>1. ActiveTask \subseteq Task
        BY DEF ActiveTask
      <4> QED
        BY <4>1, DispatcherAssumption, FS_Subset, FS_CardinalityType
    <3>2. slots' \in Nat
      BY <2>2, <3>1, DispatcherAssumption DEF CleanupDone, FreeSlots
    <3> QED
      BY <2>2, <3>2, TasksUnchanged DEF CleanupDone, rowVars, taskVars, lifeVars
  <2>3. CASE Inspect
    <3>1. \A i \in DOMAIN created : created[i] \in Execution
      BY ElementOfSeq, LenProperties
    <3>2. OldestPending(slots) \subseteq Execution
      <4> SUFFICES ASSUME NEW x \in OldestPending(slots) PROVE x \in Execution
        OBVIOUS
      <4>1. \E i \in DOMAIN created : x = created[i]
        BY Zenon DEF OldestPending
      <4> QED
        BY <3>1, <4>1
    <3> QED
      BY <2>3, <3>2, TasksUnchanged DEF Inspect, rowVars, taskVars, lifeVars
  <2>4. ASSUME NEW e \in Execution, CleanupNext(e) \/ SkipActive(e) PROVE Goal
    <3>1. CASE CleanupNext(e)
      <4>1. /\ status' \in [Execution -> Row!Status]
            /\ cancelRequested' \in [Execution -> BOOLEAN]
        <5> HIDE <1>0 DEF Shape
        <5> QED
          BY <1>0, <3>1, RowShape DEF CleanupNext
      <4>2. UNCHANGED taskVars
        BY <3>1 DEF CleanupNext
      <4>3. Shape'
        BY <3>1, <4>1 DEF CleanupNext, taskVars, lifeVars
      <4> QED
        BY <4>2, <4>3, TasksUnchanged
    <3>2. CASE SkipActive(e)
      BY <3>2, TasksUnchanged DEF SkipActive, Take, rowVars, taskVars, lifeVars
    <3> QED
      BY <2>4, <3>1, <3>2
  <2>5. ASSUME NEW e \in Execution, NEW t \in Task, CreateTask(e, t) PROVE Goal
    <3>1. Shape'
      BY <2>5 DEF CreateTask, Take, Stage, Live, rowVars, lifeVars
    <3> QED
      BY <2>5, <3>1, TaskCreated
  <2> QED
    BY <1>3, <2>1, <2>2, <2>3, <2>4, <2>5 DEF LoopStep
<1>4. ASSUME ConsumerFails \/ Shutdown \/ StopConsumer \/ StopDispatcher \/ GatherTasks
      PROVE  Goal
  BY <1>0, <1>4, TasksUnchanged
     DEF ConsumerFails, Shutdown, StopConsumer, StopDispatcher, GatherTasks, Shape,
         Phase, Loop, rowVars, loopVars, taskVars
<1>5. ASSUME ProcessEnds \/ Crash \/ Restart PROVE Goal
  <2>1. Process("down") \/ Process("top")
    BY <1>5 DEF ProcessEnds, Crash, Restart, EndProcess
  <2>2. Shape'
    BY <1>0, <1>5, DispatcherAssumption
       DEF ProcessEnds, Crash, Restart, EndProcess, Process, Shape, Phase, Loop, Stage, rowVars
  <2> QED
    BY <2>1, <2>2, NoTasks
<1>6. ASSUME UNCHANGED vars PROVE Goal
  BY <1>0, <1>6, TasksUnchanged DEF vars, rowVars, loopVars, taskVars, lifeVars, Shape
<1>7. Goal
  <2> HIDE DEF Goal
  <2> QED
    BY <1>1, <1>2, <1>3, <1>4, <1>5, <1>6 DEF Next, StopStep
<1> QED
  BY <1>7 DEF Counted

-----------------------------------------------------------------------------
\* The permits never leave their range.
LEMMA CountedTyped == Counted => TypeOK
<1> SUFFICES ASSUME Counted PROVE TypeOK
  OBVIOUS
<1>1. permits \in 0..MaxConcurrency
  BY LiveTaskFinite, DispatcherAssumption DEF Counted, CountersAgree, Shape
<1> QED
  BY <1>1 DEF Counted, Shape, TypeOK

\* Every variable keeps its type, and the semaphore its range.
THEOREM TypeCorrect == Spec => []TypeOK
BY InitCounted, NextCounted, CountedTyped, PTL DEF Spec

\* Semaphore, task set and id set agree, whatever order tasks end in.
THEOREM Agreement == Spec => []CountersAgree
<1>1. Counted => CountersAgree
  BY DEF Counted
<1> QED
  BY <1>1, InitCounted, NextCounted, PTL DEF Spec

\* No two live tasks work on one execution.
THEOREM OneTask == Spec => []OneTaskPerExecution
<1>1. Counted => OneTaskPerExecution
  BY DEF Counted
<1> QED
  BY <1>1, InitCounted, NextCounted, PTL DEF Spec

-----------------------------------------------------------------------------
(* Once the loop is cancelled nobody creates a task any more, so those that *)
(* were waited for stay the last.                                           *)

LoopIsOver == phase \in {"gather", "stopped"} => loop = "cancelled"
Stopping == LoopIsOver /\ GracefulStop

LEMMA InitStopping == Init => Stopping
BY DEF Init, Stopping, LoopIsOver, GracefulStop

LEMMA NextStopping == Counted /\ Stopping /\ [Next]_vars => Stopping'
<1> SUFFICES ASSUME Counted, Stopping, [Next]_vars PROVE Stopping'
  OBVIOUS
<1>0. /\ stage \in [Task -> Stage]
      /\ phase = "stopped" => \A t \in Task : stage[t] \notin Live
      /\ LoopIsOver
  BY DEF Counted, Shape, Stopping, GracefulStop, LiveTask
\* A step that creates no task.
<1>1. ASSUME UNCHANGED <<phase, loop>>,
             phase = "stopped" => \A t \in Task : stage'[t] \notin Live
      PROVE  Stopping'
  BY <1>0, <1>1 DEF Stopping, LoopIsOver, GracefulStop, LiveTask
<1>2. ASSUME NEW e \in Execution, Submit(e) \/ Decide(e) \/ LeaseExpires(e) PROVE Stopping'
  BY <1>0, <1>1, <1>2 DEF Submit, Decide, LeaseExpires, loopVars, taskVars, lifeVars
<1>3. ASSUME NEW t \in Task, TaskStep(t) PROVE Stopping'
  <2>1. phase = "stopped" => stage' = [stage EXCEPT ![t] = "none"]
    BY <1>0, <1>3 DEF TaskStep, TaskClaims, TaskDoesNotClaim, TaskLeavesRow, TaskLosesRow,
                      TaskEnds, TaskDone, Live
  <2>2. UNCHANGED <<phase, loop>>
    BY <1>3 DEF TaskStep, TaskClaims, TaskDoesNotClaim, TaskLeavesRow, TaskLosesRow,
                TaskEnds, TaskDone, loopVars, lifeVars
  <2> QED
    BY <1>0, <1>1, <2>1, <2>2 DEF Live
<1>4. ASSUME LoopStep \/ LoopFails PROVE Stopping'
  <2>1. loop # "cancelled" /\ UNCHANGED phase
    BY <1>4 DEF LoopStep, LoopFails, ListExpired, CleanupDone, Inspect, DispatchDone, WakeUp,
                CleanupNext, SkipActive, CreateTask, Take, lifeVars
  <2> QED
    BY <1>0, <2>1 DEF Stopping, LoopIsOver, GracefulStop
<1>5. CASE GatherTasks
  <2>1. LiveTask' = {} /\ loop = "cancelled" /\ loop' = loop
    BY <1>0, <1>5 DEF GatherTasks, Gathered, LoopIsOver, LiveTask, taskVars, loopVars
  <2> QED
    BY <2>1 DEF Stopping, LoopIsOver, GracefulStop
<1>6. ASSUME ConsumerFails \/ Shutdown \/ StopConsumer \/ StopDispatcher PROVE Stopping'
  BY <1>0, <1>6 DEF ConsumerFails, Shutdown, StopConsumer, StopDispatcher, loopVars,
                    Stopping, LoopIsOver, GracefulStop
<1>7. ASSUME ProcessEnds \/ Crash \/ Restart PROVE Stopping'
  BY <1>7 DEF ProcessEnds, Crash, Restart, EndProcess, Stopping, LoopIsOver, GracefulStop
<1>8. CASE UNCHANGED vars
  BY <1>0, <1>1, <1>8 DEF vars, loopVars, taskVars, lifeVars
<1> QED
  BY <1>2, <1>3, <1>4, <1>5, <1>6, <1>7, <1>8 DEF Next, StopStep

\* A lifespan() that returns has waited for every execution.
THEOREM ShutdownWaits == Spec => []GracefulStop
<1>1. Stopping => GracefulStop
  BY DEF Stopping
<1> QED
  BY <1>1, InitCounted, NextCounted, InitStopping, NextStopping, PTL DEF Spec
=============================================================================
