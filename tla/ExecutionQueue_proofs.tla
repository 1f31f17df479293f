----------------------- MODULE ExecutionQueue_proofs -----------------------
(***************************************************************************)
(* TLAPS proofs about ExecutionQueue, for every set of executions and      *)
(* workers, every workflow graph and every combination of faults: types,   *)
(* who runs an execution, what its steps and approvals say of it, and that *)
(* it lives the life cycle; and of what outlives a run: dead letters, the  *)
(* node a replay begins at, and that neither resumption nor replay does    *)
(* anything twice.                                                         *)
(***************************************************************************)
EXTENDS ExecutionQueue, SequenceTheorems, FiniteSetTheorems, TLAPS

-----------------------------------------------------------------------------
(* Sequences of steps.                                                     *)

LEMMA StepFields ==
  ASSUME NEW x \in Step, NEW s \in StepStatus, NEW a \in ApprovalStatus
  PROVE  /\ [x EXCEPT !.status = s] \in Step
         /\ [x EXCEPT !.approval = a] \in Step
         /\ [x EXCEPT !.status = s, !.approval = a] \in Step
         /\ [x EXCEPT !.approval = a, !.status = s] \in Step
  BY DEF Step

LEMMA PointwiseSeq ==
  ASSUME NEW S, NEW ss \in Seq(S), NEW f \in [DOMAIN ss -> S]
  PROVE  f \in Seq(S)
<1>1. DOMAIN ss = 1..Len(ss) /\ Len(ss) \in Nat
  BY LenProperties
<1>2. f \in [1..Len(ss) -> S]
  BY <1>1
<1> QED
  BY <1>1, <1>2, SeqDef, Zenon

\* What the updates shared by the transactions do to the steps of e.
LEMMA CloseStepsFacts ==
  ASSUME steps \in [Execution -> Seq(Step)], NEW e \in Execution, NEW open,
         NEW s \in StepStatus
  PROVE  /\ CloseSteps(e, open, s) \in Seq(Step)
         /\ DOMAIN CloseSteps(e, open, s) = DOMAIN steps[e]
         /\ \A i \in DOMAIN steps[e] :
              CloseSteps(e, open, s)[i] =
                IF steps[e][i].status \in open
                  THEN [steps[e][i] EXCEPT !.status = s] ELSE steps[e][i]
<1>1. steps[e] \in Seq(Step)
  OBVIOUS
<1>2. \A i \in DOMAIN steps[e] : steps[e][i] \in Step
  BY <1>1, LenProperties, ElementOfSeq
<1>3. \A i \in DOMAIN steps[e] : [steps[e][i] EXCEPT !.status = s] \in Step
  BY <1>2, StepFields DEF ApprovalStatus
<1>4. CloseSteps(e, open, s) \in [DOMAIN steps[e] -> Step]
  BY <1>2, <1>3 DEF CloseSteps
<1>5. CloseSteps(e, open, s) \in Seq(Step)
  BY <1>1, <1>4, PointwiseSeq
<1> QED
  BY <1>5 DEF CloseSteps

LEMMA CancelApprovalsFacts ==
  ASSUME NEW ss \in Seq(Step)
  PROVE  /\ CancelApprovals(ss) \in Seq(Step)
         /\ DOMAIN CancelApprovals(ss) = DOMAIN ss
         /\ \A i \in DOMAIN ss :
              CancelApprovals(ss)[i] =
                IF ss[i].approval = "pending"
                  THEN [ss[i] EXCEPT !.approval = "cancelled"] ELSE ss[i]
<1>1. \A i \in DOMAIN ss : ss[i] \in Step
  BY LenProperties, ElementOfSeq
<1>2. \A i \in DOMAIN ss : [ss[i] EXCEPT !.approval = "cancelled"] \in Step
  BY <1>1, StepFields DEF ApprovalStatus, StepStatus
<1>3. CancelApprovals(ss) \in [DOMAIN ss -> Step]
  BY <1>1, <1>2 DEF CancelApprovals
<1>4. CancelApprovals(ss) \in Seq(Step)
  BY <1>3, PointwiseSeq
<1> QED
  BY <1>4 DEF CancelApprovals

\* One step of e changes, or none if i is not the position of a step.
LEMMA StepUpdateFacts ==
  ASSUME steps \in [Execution -> Seq(Step)], NEW e \in Execution, NEW i,
         NEW x, i \in DOMAIN steps[e] => x \in Step
  PROVE  LET new == [steps EXCEPT ![e][i] = x] IN
         /\ new \in [Execution -> Seq(Step)]
         /\ DOMAIN new[e] = DOMAIN steps[e]
         /\ \A f \in Execution \ {e} : new[f] = steps[f]
         /\ \A j \in DOMAIN steps[e] \ {i} : new[e][j] = steps[e][j]
         /\ i \in DOMAIN steps[e] => new[e][i] = x
<1> DEFINE new == [steps EXCEPT ![e][i] = x]
<1>1. steps[e] \in Seq(Step)
  OBVIOUS
<1>2. \A j \in DOMAIN steps[e] : steps[e][j] \in Step
  BY <1>1, LenProperties, ElementOfSeq
<1>3. [steps[e] EXCEPT ![i] = x] \in [DOMAIN steps[e] -> Step]
  BY <1>2
<1>4. [steps[e] EXCEPT ![i] = x] \in Seq(Step)
  BY <1>1, <1>3, PointwiseSeq
<1>5. new = [steps EXCEPT ![e] = [steps[e] EXCEPT ![i] = x]]
  OBVIOUS
<1> QED
  BY <1>4, <1>5

\* A dead letter event changes its status.
LEMMA DeadLetterUpdate ==
  ASSUME deadLetters \in [Execution -> Seq(DeadLetter)], NEW e \in Execution,
         NEW i \in DOMAIN deadLetters[e], NEW s \in {"pending", "replayed", "resolved"}
  PROVE  LET new == [deadLetters EXCEPT ![e][i].status = s] IN
         /\ new \in [Execution -> Seq(DeadLetter)]
         /\ DOMAIN new[e] = DOMAIN deadLetters[e] /\ Len(new[e]) = Len(deadLetters[e])
         /\ \A f \in Execution \ {e} : new[f] = deadLetters[f]
         /\ \A j \in DOMAIN deadLetters[e] \ {i} : new[e][j] = deadLetters[e][j]
         /\ new[e][i] = [deadLetters[e][i] EXCEPT !.status = s]
<1> DEFINE x == [deadLetters[e][i] EXCEPT !.status = s]
           ds == [deadLetters[e] EXCEPT ![i] = x]
           new == [deadLetters EXCEPT ![e][i].status = s]
<1>1. deadLetters[e] \in Seq(DeadLetter)
  OBVIOUS
<1>2. \A j \in DOMAIN deadLetters[e] : deadLetters[e][j] \in DeadLetter
  BY <1>1, LenProperties, ElementOfSeq
<1>3. x \in DeadLetter
  BY <1>2 DEF DeadLetter
<1>4. new = [deadLetters EXCEPT ![e] = ds]
  OBVIOUS
<1> HIDE DEF x
<1>5. ds \in [DOMAIN deadLetters[e] -> DeadLetter]
  BY <1>2, <1>3
<1>6. ds \in Seq(DeadLetter)
  BY <1>1, <1>5, PointwiseSeq
<1>7. DOMAIN ds = DOMAIN deadLetters[e] /\ Len(ds) = Len(deadLetters[e])
  BY <1>1, <1>6, LenProperties
<1>8. ds[i] = x /\ \A j \in DOMAIN deadLetters[e] \ {i} : ds[j] = deadLetters[e][j]
  OBVIOUS
<1> HIDE DEF ds
<1> QED
  BY <1>4, <1>6, <1>7, <1>8 DEF x

LEMMA AppendStepFacts ==
  ASSUME steps \in [Execution -> Seq(Step)], NEW e \in Execution, NEW x \in Step
  PROVE  LET new == [steps EXCEPT ![e] = Append(@, x)]
             k == Len(steps[e]) + 1 IN
         /\ new \in [Execution -> Seq(Step)]
         /\ k \in Nat /\ k \notin DOMAIN steps[e]
         /\ DOMAIN new[e] = DOMAIN steps[e] \cup {k}
         /\ \A f \in Execution \ {e} : new[f] = steps[f]
         /\ \A j \in DOMAIN steps[e] : new[e][j] = steps[e][j]
         /\ new[e][k] = x
<1>1. steps[e] \in Seq(Step) /\ Len(steps[e]) \in Nat /\ DOMAIN steps[e] = 1..Len(steps[e])
  BY LenProperties
<1>2. /\ Append(steps[e], x) \in Seq(Step)
      /\ Len(Append(steps[e], x)) = Len(steps[e]) + 1
      /\ DOMAIN Append(steps[e], x) = 1..(Len(steps[e]) + 1)
      /\ \A j \in 1..Len(steps[e]) : Append(steps[e], x)[j] = steps[e][j]
      /\ Append(steps[e], x)[Len(steps[e]) + 1] = x
  BY <1>1
<1> QED
  BY <1>1, <1>2
-----------------------------------------------------------------------------
(* Type correctness.                                                       *)

\* What the workers' local variables hold at each program counter.
WorkerOK ==
  \A w \in Worker :
    /\ pc[w] \in {"load"} \cup Looping \cup Ending => job[w] \in Execution
    /\ pc[w] \in Looping => at[w] \in Node
    /\ pc[w] = "save_context" => outcome[w] \in {"failed", "abandoned"}
    /\ pc[w] = "finalize" => outcome[w] \in {"completed", "failed", "cancelled"}

Typed == TypeOK /\ WorkerOK

USE DEF Status, ProgramCounter, Looping, Ending, rowVars, localVars, GoTo,
        Typed, TypeOK

LEMMA InitTyped == Init => Typed
<1> SUFFICES ASSUME Init PROVE Typed
  OBVIOUS
<1>1. EmptyContext \in Context
  BY DEF EmptyContext, Context
<1>2. <<>> \in Seq(Step) /\ <<>> \in Seq(DeadLetter)
  OBVIOUS
<1>3. TypeOK
  BY <1>1, <1>2 DEF Init, ExecutionsTypeOK, RecordsTypeOK, WorkersTypeOK
<1> QED
  BY <1>3 DEF Init, WorkerOK

LEMMA SetStepFacts ==
  ASSUME Typed, NEW w \in Worker, pc[w] \in Looping \cup Ending,
         NEW s \in StepStatus, SetStep(w, s)
  PROVE  LET e == job[w]
             i == step[w] IN
         /\ steps' \in [Execution -> Seq(Step)]
         /\ DOMAIN steps'[e] = DOMAIN steps[e]
         /\ \A f \in Execution \ {e} : steps'[f] = steps[f]
         /\ \A j \in DOMAIN steps[e] \ {i} : steps'[e][j] = steps[e][j]
         /\ i \in DOMAIN steps[e] =>
              steps'[e][i] = [steps[e][i] EXCEPT !.status = s]
<1> DEFINE e == job[w]
           i == step[w]
           x == [steps[e][i] EXCEPT !.status = s]
<1>1. e \in Execution /\ steps \in [Execution -> Seq(Step)]
  BY DEF RecordsTypeOK, WorkersTypeOK, WorkerOK
<1>2. i \in DOMAIN steps[e] => x \in Step
  BY <1>1, ElementOfSeq, LenProperties, StepFields DEF ApprovalStatus
<1>3. steps' = [steps EXCEPT ![e][i] = x]
  BY DEF SetStep
<1> HIDE DEF e, i, x
<1>4. LET new == [steps EXCEPT ![e][i] = x] IN
         /\ new \in [Execution -> Seq(Step)]
         /\ DOMAIN new[e] = DOMAIN steps[e]
         /\ \A f \in Execution \ {e} : new[f] = steps[f]
         /\ \A j \in DOMAIN steps[e] \ {i} : new[e][j] = steps[e][j]
         /\ i \in DOMAIN steps[e] => new[e][i] = x
  BY <1>1, <1>2, StepUpdateFacts
<1> QED
  BY <1>3, <1>4 DEF e, i, x

\* Types are kept by every step of a worker.
LEMMA RunTyped ==
  ASSUME Typed, NEW w \in Worker, Run(w) \/ Crash(w) \/ HeartbeatCancels(w)
  PROVE  Typed'
<1> USE QueueAssumption DEF Committed
<1>0. ASSUME pc[w] \in {"load"} \cup Looping \cup Ending
      PROVE  /\ job[w] \in Execution
             /\ steps \in [Execution -> Seq(Step)]
             /\ pc[w] \in Looping => at[w] \in Node
             /\ [saved |-> TRUE, outputs |-> outputs[w], resume |-> NoResume] \in Context
  BY <1>0 DEF RecordsTypeOK, WorkersTypeOK, WorkerOK, Context
<1>1. CASE LoadExecution(w)
  <2>0. pc[w] \in {"load"} \cup Looping \cup Ending
    BY <1>1 DEF LoadExecution
  <2>1. StartNode(job[w]) \in Node \cup {None}
    BY <1>0, <2>0 DEF StartNode, Resuming, ExecutionsTypeOK, Context
  <2>2. StartOutputs(job[w]) \subseteq Node
    BY <1>0, <2>0 DEF StartOutputs, ExecutionsTypeOK, Context
  <2>7. ExecutionsTypeOK'
    BY <1>1 DEF LoadExecution, ExecutionsTypeOK
  <2>8. RecordsTypeOK'
    BY <1>1 DEF LoadExecution, RecordsTypeOK
  <2>9. WorkersTypeOK'
    <3>1. outputs' \in [Worker -> SUBSET Node]
      BY <1>1, <2>2 DEF LoadExecution, WorkersTypeOK
    <3>2. at' \in [Worker -> Node \cup {None}]
      BY <1>1, <2>1 DEF LoadExecution, WorkersTypeOK
    <3>3. pc' \in [Worker -> ProgramCounter]
      BY <1>1 DEF LoadExecution, WorkersTypeOK
    <3>4. outcome' \in [Worker -> {"none", "completed", "failed", "cancelled",
                                  "abandoned"}]
      BY <1>1 DEF LoadExecution, WorkersTypeOK
    <3> QED
      BY <1>1, <3>1, <3>2, <3>3, <3>4 DEF LoadExecution, WorkersTypeOK
  <2>10. WorkerOK'
    BY <1>1, <1>0, <2>0, <2>1, <2>2, <2>9 DEF LoadExecution, WorkerOK, WorkersTypeOK
  <2> QED
    BY <2>7, <2>8, <2>9, <2>10
<1>2. CASE CheckCancellation(w)
  <2>7. ExecutionsTypeOK'
    BY <1>2 DEF CheckCancellation, ExecutionsTypeOK
  <2>8. RecordsTypeOK'
    BY <1>2 DEF CheckCancellation, RecordsTypeOK
  <2>9. WorkersTypeOK'
    BY <1>2 DEF CheckCancellation, WorkersTypeOK
  <2>10. WorkerOK'
    BY <1>2, <2>9 DEF CheckCancellation, WorkerOK, WorkersTypeOK
  <2> QED
    BY <2>7, <2>8, <2>9, <2>10
<1>3. CASE CreateStep(w)
  <2>0. pc[w] \in {"load"} \cup Looping \cup Ending
    BY <1>3 DEF CreateStep
  <2> DEFINE x == [node |-> at[w], status |-> "pending", approval |-> "none"]
  <2>1. x \in Step
    BY <1>3, <1>0, <2>0 DEF CreateStep, Step, StepStatus, ApprovalStatus
  <2>2. steps' = [steps EXCEPT ![job[w]] = Append(@, x)]
    BY <1>3 DEF CreateStep
  <2>3. steps' \in [Execution -> Seq(Step)] /\ Len(steps[job[w]]) + 1 \in Nat
    <3> HIDE DEF x
    <3> QED BY <1>0, <2>0, <2>1, <2>2, AppendStepFacts
  <2>7. ExecutionsTypeOK'
    BY <1>3 DEF CreateStep, ExecutionsTypeOK
  <2>8. RecordsTypeOK'
    BY <1>3, <2>3 DEF CreateStep, RecordsTypeOK
  <2>9. WorkersTypeOK'
    BY <1>3, <2>3 DEF CreateStep, WorkersTypeOK
  <2>10. WorkerOK'
    BY <1>3, <2>3, <2>9 DEF CreateStep, WorkerOK, WorkersTypeOK
  <2> QED
    BY <2>7, <2>8, <2>9, <2>10
<1>4. CASE StartStep(w)
  <2>0. pc[w] \in {"load"} \cup Looping \cup Ending
    BY <1>4 DEF StartStep
  <2>1. steps' \in [Execution -> Seq(Step)]
    BY <1>4, <2>0, SetStepFacts DEF StartStep, StepStatus
  <2>7. ExecutionsTypeOK'
    BY <1>4 DEF StartStep, ExecutionsTypeOK
  <2>8. RecordsTypeOK'
    BY <1>4, <2>1 DEF StartStep, RecordsTypeOK
  <2>9. WorkersTypeOK'
    BY <1>4 DEF StartStep, WorkersTypeOK
  <2>10. WorkerOK'
    BY <1>4, <2>9 DEF StartStep, WorkerOK, WorkersTypeOK
  <2> QED
    BY <2>7, <2>8, <2>9, <2>10
<1>5. CASE InvokeNode(w) \/ InvokeFails(w)
  <2>0. pc[w] \in {"load"} \cup Looping \cup Ending
    BY <1>5 DEF InvokeNode, InvokeFails
  <2>7. ExecutionsTypeOK'
    BY <1>5 DEF InvokeNode, InvokeFails, ExecutionsTypeOK
  <2>1. at[w] \in Node /\ job[w] \in Execution
    BY <1>5, <1>0 DEF InvokeNode, InvokeFails
  <2>2. effects' \in [Execution -> [Node -> Nat]]
    <3>1. effects' = [effects EXCEPT ![job[w]] =
                        [effects[job[w]] EXCEPT ![at[w]] = effects[job[w]][at[w]] + 1]]
          \/ UNCHANGED effects
      BY <1>5 DEF InvokeNode, InvokeFails, CallProvider
    <3>2. effects \in [Execution -> [Node -> Nat]]
      BY DEF RecordsTypeOK
    <3> QED
      BY <2>1, <3>1, <3>2
  <2>8. RecordsTypeOK'
    BY <1>5, <2>2 DEF InvokeNode, InvokeFails, RecordsTypeOK
  <2>3. outputs' \in [Worker -> SUBSET Node]
    <3>1. outputs \in [Worker -> SUBSET Node]
      BY DEF WorkersTypeOK
    <3>2. outputs' = [outputs EXCEPT ![w] = outputs[w] \cup {at[w]}] \/ UNCHANGED outputs
          \/ outputs' = [outputs EXCEPT ![w] = outputs[w]]
      BY <1>5 DEF InvokeNode, InvokeFails
    <3> QED
      BY <2>1, <3>1, <3>2
  <2>9. WorkersTypeOK'
    BY <1>5, <2>3 DEF InvokeNode, InvokeFails, WorkersTypeOK
  <2>10. WorkerOK'
    BY <1>5, <1>0, <2>0, <2>9 DEF InvokeNode, InvokeFails, WorkerOK, WorkersTypeOK
  <2> QED
    BY <2>7, <2>8, <2>9, <2>10
<1>6. CASE RecordCompleted(w)
  <2>0. pc[w] \in {"load"} \cup Looping \cup Ending
    BY <1>6 DEF RecordCompleted
  <2>1. steps' \in [Execution -> Seq(Step)]
    BY <1>6, <2>0, SetStepFacts DEF RecordCompleted, StepStatus
  <2>2. \A b \in Branch : Successor[at[w]][b] \in Node \cup {None}
    BY <1>6, <1>0 DEF RecordCompleted
  <2>3. {"true", "false"} \subseteq Branch /\ {"next"} \subseteq Branch
    BY DEF Branch
  <2>4. PICK b \in Branch :
          LET next == Successor[at[w]][b] IN
          \/ /\ next # None
             /\ at' = [at EXCEPT ![w] = next]
             /\ Committed(w, "check")
             /\ UNCHANGED outcome
          \/ /\ next = None
             /\ outcome' = [outcome EXCEPT ![w] = "completed"]
             /\ Committed(w, "finalize")
             /\ UNCHANGED at
    BY <1>6, <2>3 DEF RecordCompleted
  <2>7. ExecutionsTypeOK'
    BY <1>6 DEF RecordCompleted, ExecutionsTypeOK
  <2>8. RecordsTypeOK'
    BY <1>6, <2>1 DEF RecordCompleted, RecordsTypeOK
  <2>9. WorkersTypeOK'
    BY <1>6, <2>2, <2>4 DEF RecordCompleted, WorkersTypeOK
  <2>10. WorkerOK'
    BY <1>6, <2>2, <2>4, <2>9 DEF RecordCompleted, WorkerOK, WorkersTypeOK
  <2> QED
    BY <2>7, <2>8, <2>9, <2>10
<1>7. CASE ApprovalHandoff(w)
  <2>0. pc[w] \in {"load"} \cup Looping \cup Ending
    BY <1>7 DEF ApprovalHandoff
  <2> DEFINE e == job[w]
             x == [steps[e][step[w]] EXCEPT !.status = "waiting_for_approval",
                                            !.approval = "pending"]
  <2>1. step[w] \in DOMAIN steps[e] => x \in Step
    <3>1. steps[e] \in Seq(Step)
      BY <1>0, <2>0
    <3>2. step[w] \in DOMAIN steps[e] => steps[e][step[w]] \in Step
      BY <3>1, ElementOfSeq, LenProperties
    <3>3. "waiting_for_approval" \in StepStatus /\ "pending" \in ApprovalStatus
      BY DEF StepStatus, ApprovalStatus
    <3> QED
      BY <3>2, <3>3, StepFields
  <2>2. steps' = [steps EXCEPT ![e][step[w]] = x]
    BY <1>7 DEF ApprovalHandoff
  <2>3. e \in Execution
    BY <1>0, <2>0
  <2>4. steps' \in [Execution -> Seq(Step)]
    <3> HIDE DEF e, x
    <3> QED BY <1>0, <2>0, <2>1, <2>2, <2>3, StepUpdateFacts
  <2>7. ExecutionsTypeOK'
    BY <1>7, <1>0, <2>0 DEF ApprovalHandoff, ExecutionsTypeOK, Release
  <2>8. RecordsTypeOK'
    BY <1>7, <2>4 DEF ApprovalHandoff, RecordsTypeOK
  <2>9. WorkersTypeOK'
    BY <1>7 DEF ApprovalHandoff, WorkersTypeOK
  <2>10. WorkerOK'
    BY <1>7, <2>9 DEF ApprovalHandoff, WorkerOK, WorkersTypeOK
  <2> QED
    BY <2>7, <2>8, <2>9, <2>10
<1>8. CASE HandoffRefused(w)
  <2>0. pc[w] \in {"load"} \cup Looping \cup Ending
    BY <1>8 DEF HandoffRefused
  <2>7. ExecutionsTypeOK'
    BY <1>8 DEF HandoffRefused, ExecutionsTypeOK
  <2>8. RecordsTypeOK'
    BY <1>8 DEF HandoffRefused, RecordsTypeOK
  <2>9. WorkersTypeOK'
    BY <1>8 DEF HandoffRefused, WorkersTypeOK
  <2>10. WorkerOK'
    BY <1>8, <2>9 DEF HandoffRefused, WorkerOK, WorkersTypeOK
  <2> QED
    BY <2>7, <2>8, <2>9, <2>10
<1>9. CASE Raise(w) \/ OwnershipLost(w) \/ Crash(w)
  <2>7. ExecutionsTypeOK'
    BY <1>9 DEF Raise, OwnershipLost, Crash, ExecutionsTypeOK
  <2>8. RecordsTypeOK'
    BY <1>9 DEF Raise, OwnershipLost, Crash, RecordsTypeOK
  <2>9. WorkersTypeOK'
    BY <1>9 DEF Raise, OwnershipLost, Crash, WorkersTypeOK
  <2>10. WorkerOK'
    BY <1>9, <2>9 DEF Raise, OwnershipLost, Crash, WorkerOK, WorkersTypeOK
  <2> QED
    BY <2>7, <2>8, <2>9, <2>10
<1>10. CASE MarkStepFailed(w) \/ HeartbeatCancels(w)
  <2>0. pc[w] \in {"load"} \cup Looping \cup Ending
    BY <1>10 DEF MarkStepFailed, HeartbeatCancels
  <2>1. steps' \in [Execution -> Seq(Step)]
    <3>1. CASE SetStep(w, "failed")
      <4>1. pc[w] \in Looping \cup Ending
        BY <1>10 DEF MarkStepFailed, HeartbeatCancels
      <4> QED
        BY <3>1, <4>1, SetStepFacts DEF StepStatus
    <3>2. CASE UNCHANGED steps
      BY <3>2 DEF RecordsTypeOK
    <3> QED
      BY <1>10, <3>1, <3>2 DEF MarkStepFailed, HeartbeatCancels, FailOpenStep
  <2>7. ExecutionsTypeOK'
    BY <1>10 DEF MarkStepFailed, HeartbeatCancels, ExecutionsTypeOK
  <2>8. RecordsTypeOK'
    BY <1>10, <2>1 DEF MarkStepFailed, HeartbeatCancels, RecordsTypeOK
  <2>9. WorkersTypeOK'
    BY <1>10, <2>0 DEF MarkStepFailed, HeartbeatCancels, WorkersTypeOK
  <2>10. WorkerOK'
    BY <1>10, <2>0, <2>9 DEF MarkStepFailed, HeartbeatCancels, WorkerOK, WorkersTypeOK
  <2> QED
    BY <2>7, <2>8, <2>9, <2>10
<1>11. CASE SaveFailureContext(w)
  <2>0. pc[w] \in {"load"} \cup Looping \cup Ending
    BY <1>11 DEF SaveFailureContext
  <2>7. ExecutionsTypeOK'
    <3> DEFINE c == [saved |-> TRUE, outputs |-> outputs[w], resume |-> NoResume]
    <3>1. c \in Context /\ job[w] \in Execution
      BY <1>0, <2>0
    <3>2. context' = [context EXCEPT ![job[w]] = c] \/ UNCHANGED context
      BY <1>11 DEF SaveFailureContext
    <3> HIDE DEF c
    <3>3. context' \in [Execution -> Context]
      BY <3>1, <3>2 DEF ExecutionsTypeOK
    <3> QED
      BY <1>11, <3>3 DEF SaveFailureContext, ExecutionsTypeOK
  <2>8. RecordsTypeOK'
    BY <1>11 DEF SaveFailureContext, RecordsTypeOK
  <2>9. WorkersTypeOK'
    BY <1>11 DEF SaveFailureContext, WorkersTypeOK
  <2>10. WorkerOK'
    BY <1>11, <2>9 DEF SaveFailureContext, WorkerOK, WorkersTypeOK
  <2> QED
    BY <2>7, <2>8, <2>9, <2>10
<1>12. CASE Finalize(w)
  <2>0. pc[w] \in {"load"} \cup Looping \cup Ending
    BY <1>12 DEF Finalize
  <2> DEFINE e == job[w]
  <2>1. FinalStatus(w, e) \in {"completed", "failed", "cancelled"}
    BY <1>12 DEF Finalize, FinalStatus, WorkerOK
  <2>2. steps' \in [Execution -> Seq(Step)]
    BY <1>12, <1>0, <2>0, CloseStepsFacts, CancelApprovalsFacts DEF Finalize, StepStatus
  <2>3. deadLetters' \in [Execution -> Seq(DeadLetter)]
    <3>1. deadLetters \in [Execution -> Seq(DeadLetter)] /\ e \in Execution
      BY <1>0, <2>0 DEF RecordsTypeOK
    <3>2. CASE UNCHANGED deadLetters
      BY <3>1, <3>2
    <3>3. ASSUME NEW k \in 0..Len(steps[e]),
                 deadLetters' = [deadLetters EXCEPT ![e] =
                   Append(@, [step |-> k, status |-> "pending"])]
          PROVE  deadLetters' \in [Execution -> Seq(DeadLetter)]
      <4> DEFINE d == [step |-> k, status |-> "pending"]
      <4>1. Len(steps[e]) \in Nat
        BY <1>0, <2>0, LenProperties
      <4>2. d \in DeadLetter
        BY <4>1 DEF DeadLetter
      <4>3. deadLetters[e] \in Seq(DeadLetter)
        BY <3>1
      <4> HIDE DEF d
      <4>4. Append(deadLetters[e], d) \in Seq(DeadLetter)
        BY <4>2, <4>3
      <4> QED
        BY <3>1, <3>3, <4>4 DEF d
    <3> QED
      BY <1>12, <3>2, <3>3 DEF Finalize
  <2>7. ExecutionsTypeOK'
    BY <1>12, <1>0, <2>0, <2>1 DEF Finalize, ExecutionsTypeOK, Release
  <2>8. RecordsTypeOK'
    BY <1>12, <2>2, <2>3 DEF Finalize, RecordsTypeOK
  <2>9. WorkersTypeOK'
    BY <1>12 DEF Finalize, WorkersTypeOK
  <2>10. WorkerOK'
    BY <1>12, <2>9 DEF Finalize, WorkerOK, WorkersTypeOK
  <2> QED
    BY <2>7, <2>8, <2>9, <2>10
<1> QED
  BY <1>1, <1>2, <1>3, <1>4, <1>5, <1>6, <1>7, <1>8, <1>9, <1>10, <1>11, <1>12 DEF Run

\* ... by every claim, and by everything else that happens to an execution.
LEMMA ClaimTyped ==
  ASSUME Typed, NEW w \in Worker, NEW e \in Execution, ClaimPending(w, e)
  PROVE  Typed'
<1>1. ExecutionsTypeOK' /\ RecordsTypeOK' /\ WorkersTypeOK'
  BY DEF ClaimPending, ExecutionsTypeOK, RecordsTypeOK, WorkersTypeOK
<1>2. WorkerOK'
  BY <1>1 DEF ClaimPending, WorkerOK, WorkersTypeOK
<1> QED
  BY <1>1, <1>2

LEMMA WorkersUnchanged ==
  ASSUME Typed, UNCHANGED <<pc, localVars>>
  PROVE  WorkersTypeOK' /\ WorkerOK'
  BY DEF WorkersTypeOK, WorkerOK

LEMMA EventTyped ==
  ASSUME Typed, NEW e \in Execution, Request(e) \/ LeaseExpires(e) \/ CleanupExpired(e)
  PROVE  Typed'
<1> USE QueueAssumption DEF Release
<1>0. /\ steps[e] \in Seq(Step) /\ steps \in [Execution -> Seq(Step)]
      /\ \A i \in DOMAIN steps[e] : steps[e][i] \in Step
      /\ deadLetters[e] \in Seq(DeadLetter)
  BY ElementOfSeq, LenProperties DEF RecordsTypeOK
<1>1. CASE CreatePending(e)
  <2>1. ExecutionsTypeOK' /\ RecordsTypeOK'
    BY <1>1 DEF CreatePending, ExecutionsTypeOK, RecordsTypeOK
  <2> QED
    BY <1>1, <2>1, WorkersUnchanged DEF CreatePending
<1>2. CASE RequestCancellation(e)
  <2>1. ExecutionsTypeOK'
    BY <1>2 DEF RequestCancellation, ExecutionsTypeOK
  <2>2. steps' \in [Execution -> Seq(Step)]
    <3> DEFINE c == CloseSteps(e, {"waiting_for_approval"}, "cancelled")
    <3>1. c \in Seq(Step)
      BY <1>0, CloseStepsFacts DEF StepStatus
    <3>2. CancelApprovals(c) \in Seq(Step)
      BY <3>1, CancelApprovalsFacts
    <3>3. \/ steps' = steps
          \/ steps' = [steps EXCEPT ![e] = CancelApprovals(c)]
      BY <1>2 DEF RequestCancellation
    <3> HIDE DEF c
    <3> QED
      BY <1>0, <3>2, <3>3
  <2>3. RecordsTypeOK'
    BY <1>2, <2>2 DEF RequestCancellation, RecordsTypeOK
  <2> QED
    BY <1>2, <2>1, <2>3, WorkersUnchanged DEF RequestCancellation
<1>3. CASE ResolveEvent(e)
  <2>1. PICK i \in DOMAIN deadLetters[e] :
          deadLetters' = [deadLetters EXCEPT ![e][i].status = "resolved"]
    BY <1>3 DEF ResolveEvent
  <2>2. deadLetters' \in [Execution -> Seq(DeadLetter)]
    BY <2>1, DeadLetterUpdate DEF RecordsTypeOK
  <2>3. ExecutionsTypeOK' /\ RecordsTypeOK'
    BY <1>3, <2>2 DEF ResolveEvent, ExecutionsTypeOK, RecordsTypeOK
  <2> QED
    BY <1>3, <2>3, WorkersUnchanged DEF ResolveEvent
<1>4. ASSUME NEW d \in {"approved", "rejected"}, DecideApproval(e, d)
      PROVE  Typed'
  <2>1. PICK i \in DOMAIN steps[e] :
          /\ Decidable(e, i)
          /\ steps' = [steps EXCEPT ![e][i] =
                 [@ EXCEPT !.approval = d, !.status = "completed"]]
          /\ context' = [context EXCEPT ![e].resume = Successor[steps[e][i].node][d]]
          /\ status' = [status EXCEPT ![e] = "pending"]
    BY <1>4 DEF DecideApproval
  <2>2. steps' \in [Execution -> Seq(Step)]
    <3> DEFINE x == [steps[e][i] EXCEPT !.approval = d, !.status = "completed"]
    <3>1. x \in Step
      BY <1>0, StepFields DEF ApprovalStatus, StepStatus
    <3>2. steps' = [steps EXCEPT ![e][i] = x]
      BY <2>1
    <3> HIDE DEF x
    <3> QED
      BY <1>0, <3>1, <3>2, StepUpdateFacts
  <2>3. Successor[steps[e][i].node][d] \in Node \cup {None}
    BY <1>0 DEF Step, Branch
  <2>4. ExecutionsTypeOK'
    <3> DEFINE n == Successor[steps[e][i].node][d]
               c == [context[e] EXCEPT !.resume = n]
    <3>1. c \in Context
      <4>1. context[e] \in Context
        BY DEF ExecutionsTypeOK
      <4>2. n \in Node \cup {None}
        BY <2>3
      <4> HIDE DEF n
      <4> QED
        BY <4>1, <4>2 DEF Context
    <3>2. context' = [context EXCEPT ![e] = c]
      BY <2>1
    <3> HIDE DEF n, c
    <3>3. context' \in [Execution -> Context]
      BY <3>1, <3>2 DEF ExecutionsTypeOK
    <3>4. status' \in [Execution -> Status]
      BY <2>1 DEF ExecutionsTypeOK, Status
    <3> QED
      BY <1>4, <3>3, <3>4 DEF DecideApproval, ExecutionsTypeOK
  <2>5. RecordsTypeOK'
    BY <1>4, <2>2 DEF DecideApproval, RecordsTypeOK
  <2> QED
    BY <1>4, <2>4, <2>5, WorkersUnchanged DEF DecideApproval
<1>5. ASSUME NEW r \in Execution, ReplayEvent(e, r)
      PROVE  Typed'
  <2>1. PICK i \in DOMAIN deadLetters[e] :
          /\ Replayable(e, i)
          /\ status' = [status EXCEPT ![r] = "pending"]
          /\ context' = [context EXCEPT ![r] = context[e]]
          /\ replayOf' = [replayOf EXCEPT ![r] = e]
          /\ replayStart' = [replayStart EXCEPT ![r] =
                 steps[e][deadLetters[e][i].step].node]
          /\ deadLetters' = [deadLetters EXCEPT ![e][i].status = "replayed"]
    BY <1>5 DEF ReplayEvent
  <2>2. steps[e][deadLetters[e][i].step].node \in Node
    BY <1>0, <2>1 DEF Replayable, Step
  <2>3. deadLetters' \in [Execution -> Seq(DeadLetter)]
    BY <2>1, DeadLetterUpdate DEF RecordsTypeOK
  <2>4. ExecutionsTypeOK'
    BY <1>5, <2>1, <2>2 DEF ReplayEvent, ExecutionsTypeOK
  <2>5. RecordsTypeOK'
    BY <1>5, <2>3 DEF ReplayEvent, RecordsTypeOK
  <2> QED
    BY <1>5, <2>4, <2>5, WorkersUnchanged DEF ReplayEvent
<1>6. CASE LeaseExpires(e)
  <2>1. ExecutionsTypeOK' /\ RecordsTypeOK'
    BY <1>6 DEF LeaseExpires, ExecutionsTypeOK, RecordsTypeOK
  <2> QED
    BY <1>6, <2>1, WorkersUnchanged DEF LeaseExpires
<1>7. CASE CleanupExpired(e)
  <2>1. steps' \in [Execution -> Seq(Step)]
    BY <1>0, <1>7, CloseStepsFacts DEF CleanupExpired, StepStatus
  <2>2. ExecutionsTypeOK' /\ RecordsTypeOK'
    BY <1>7, <2>1 DEF CleanupExpired, ExecutionsTypeOK, RecordsTypeOK
  <2> QED
    BY <1>7, <2>2, WorkersUnchanged DEF CleanupExpired
<1> QED
  BY <1>1, <1>2, <1>3, <1>4, <1>5, <1>6, <1>7 DEF Request

LEMMA NextTyped == Typed /\ [Next]_vars => Typed'
<1> SUFFICES ASSUME Typed, [Next]_vars PROVE Typed'
  OBVIOUS
<1>1. CASE UNCHANGED vars
  BY <1>1, WorkersUnchanged DEF vars, ExecutionsTypeOK, RecordsTypeOK
<1>2. CASE Next
  BY <1>2, RunTyped, ClaimTyped, EventTyped DEF Next
<1> QED
  BY <1>1, <1>2

\* Every variable keeps its type, in every run of the queue.
THEOREM TypeCorrect == Spec => []TypeOK
<1>1. Typed => TypeOK
  OBVIOUS
<1> QED
  BY <1>1, InitTyped, NextTyped, PTL DEF Spec

HIDE DEF Status, ProgramCounter, Looping, Ending, rowVars, localVars, GoTo,
         Typed, TypeOK

-----------------------------------------------------------------------------
(* Ownership of running executions, and that the queue implements          *)
(* ExecutionLifecycle.                                                     *)

\* Only a running row has an owner.
OwnerOnlyRunning ==
  \A e \in Execution : claimedBy[e] # None => status[e] = "running"

Owned == Typed /\ OwnerOnlyRunning /\ RunnerOwnsOrInterrupted /\ SingleRunner

-----------------------------------------------------------------------------
(* Ownership.  A worker enters the node loop only if it is the owner, and a *)
(* worker in the loop whose claim is gone was interrupted; so whoever else  *)
(* was in the loop for the same execution would be its owner too, or the    *)
(* execution had failed and could not have been claimed.                    *)

LEMMA InitOwned == Init => Owned
<1> SUFFICES ASSUME Init PROVE Owned
  OBVIOUS
<1>1. Typed
  BY InitTyped
<1>2. \A w \in Worker : pc[w] \notin Looping
  BY DEF Init, Looping
<1>3. OwnerOnlyRunning
  BY DEF Init, OwnerOnlyRunning
<1> QED
  BY <1>1, <1>2, <1>3 DEF Owned, RunnerOwnsOrInterrupted, SingleRunner

\* A step of a worker that leaves status, owner and interruption of every
\* execution as they are, and enters the loop at most as an owner.
LEMMA StayOwned ==
  ASSUME Owned, NEW w \in Worker, NEW l \in ProgramCounter,
         pc' = [pc EXCEPT ![w] = l],
         UNCHANGED <<status, claimedBy, interrupted, job>>,
         l \in Looping => pc[w] \in Looping \/ (claimedBy[job[w]] = w /\ pc[w] = "load")
  PROVE  OwnerOnlyRunning' /\ RunnerOwnsOrInterrupted' /\ SingleRunner'
<1>1. pc \in [Worker -> ProgramCounter]
  BY DEF Owned, Typed, TypeOK, WorkersTypeOK
<1>2. OwnerOnlyRunning'
  BY DEF Owned, OwnerOnlyRunning
<1>3. pc[w] = "load" => job[w] \in Execution
  BY DEF Owned, Typed, WorkerOK
<1>4. \A v \in Worker : v # w => pc'[v] = pc[v]
  BY <1>1
<1>5. pc'[w] = l
  BY <1>1
<1>6. CASE pc[w] \in Looping \/ l \notin Looping
  <2>1. \A v \in Worker : pc'[v] \in Looping => pc[v] \in Looping
    BY <1>4, <1>5, <1>6
  <2> QED
    BY <1>2, <2>1 DEF Owned, RunnerOwnsOrInterrupted, SingleRunner
<1>7. CASE pc[w] \notin Looping /\ l \in Looping
  <2>1. claimedBy[job[w]] = w /\ job[w] \in Execution
    BY <1>3, <1>7
  <2>2. w # None
    BY QueueAssumption
  <2>3. status[job[w]] = "running"
    BY <2>1, <2>2 DEF Owned, OwnerOnlyRunning
  <2>4. \A v \in Worker : pc[v] \in Looping => job[v] # job[w]
    BY <1>7, <2>1, <2>3 DEF Owned, RunnerOwnsOrInterrupted
  <2>5. RunnerOwnsOrInterrupted'
    BY <1>4, <2>1, <2>3 DEF Owned, RunnerOwnsOrInterrupted
  <2>6. SingleRunner'
    BY <1>4, <2>4 DEF Owned, SingleRunner
  <2> QED
    BY <1>2, <2>5, <2>6
<1> QED
  BY <1>6, <1>7

LEMMA RunOwned ==
  ASSUME Owned, NEW w \in Worker, Run(w) \/ Crash(w) \/ HeartbeatCancels(w)
  PROVE  OwnerOnlyRunning' /\ RunnerOwnsOrInterrupted' /\ SingleRunner'
<1> USE DEF GoTo, Committed, rowVars, localVars
<1>0. /\ pc \in [Worker -> ProgramCounter] /\ status \in [Execution -> Status]
      /\ claimedBy \in [Execution -> Worker \cup {None}]
  BY DEF Owned, Typed, TypeOK, WorkersTypeOK, ExecutionsTypeOK
<1>1. ASSUME LoadExecution(w) PROVE /\ UNCHANGED <<status, claimedBy, interrupted, job>>
        /\ \E l \in ProgramCounter :
             /\ pc' = [pc EXCEPT ![w] = l]
             /\ l \in Looping => claimedBy[job[w]] = w /\ pc[w] = "load"
  BY <1>1 DEF LoadExecution, ProgramCounter, Looping, Ending
<1>2. ASSUME \/ CheckCancellation(w) \/ CreateStep(w) \/ StartStep(w)
             \/ InvokeNode(w) \/ InvokeFails(w) \/ RecordCompleted(w)
             \/ HandoffRefused(w) \/ Raise(w)
             \/ MarkStepFailed(w) \/ SaveFailureContext(w) \/ OwnershipLost(w)
             \/ Crash(w) \/ HeartbeatCancels(w)
      PROVE  /\ UNCHANGED <<status, claimedBy, interrupted, job>>
             /\ \E l \in ProgramCounter :
                  /\ pc' = [pc EXCEPT ![w] = l]
                  /\ l \in Looping => pc[w] \in Looping
  <2> USE DEF ProgramCounter, Looping, Ending
  <2>1. CASE CheckCancellation(w) BY <2>1 DEF CheckCancellation
  <2>2. CASE CreateStep(w) BY <2>2 DEF CreateStep
  <2>3. CASE StartStep(w) BY <2>3 DEF StartStep
  <2>4. CASE InvokeNode(w) BY <2>4 DEF InvokeNode
  <2>5. CASE InvokeFails(w) BY <2>5 DEF InvokeFails
  <2>6. CASE RecordCompleted(w) BY <2>6 DEF RecordCompleted
  <2>7. CASE HandoffRefused(w) BY <2>7 DEF HandoffRefused
  <2>8. CASE Raise(w) BY <2>8 DEF Raise
  <2>9. CASE MarkStepFailed(w) BY <2>9 DEF MarkStepFailed
  <2>10. CASE SaveFailureContext(w)
    <3>1. UNCHANGED <<status, claimedBy, interrupted, job>>
      BY <2>10 DEF SaveFailureContext
    <3>2. pc' = [pc EXCEPT ![w] = "done"] \/ pc' = [pc EXCEPT ![w] = "finalize"]
      BY <2>10 DEF SaveFailureContext
    <3> QED
      BY <3>1, <3>2
  <2>11. CASE OwnershipLost(w) BY <2>11 DEF OwnershipLost
  <2>12. CASE Crash(w) BY <2>12 DEF Crash
  <2>13. CASE HeartbeatCancels(w) BY <2>13 DEF HeartbeatCancels
  <2> QED
    BY <1>2, <2>1, <2>2, <2>3, <2>4, <2>5, <2>6, <2>7, <2>8, <2>9, <2>10, <2>11,
       <2>12, <2>13
<1>3. ASSUME NEW e \in Execution, e = job[w], Release(e), UNCHANGED <<interrupted, job>>,
             NEW s \in Status, status' = [status EXCEPT ![e] = s],
             NEW l \in ProgramCounter \ Looping, pc' = [pc EXCEPT ![w] = l],
             status[e] = "running", \A v \in Worker \ {w} : pc[v] \in Looping => job[v] # e
      PROVE  OwnerOnlyRunning' /\ RunnerOwnsOrInterrupted' /\ SingleRunner'
  <2>1. /\ \A f \in Execution \ {e} : status'[f] = status[f] /\ claimedBy'[f] = claimedBy[f]
        /\ claimedBy'[e] = None
    BY <1>0, <1>3 DEF Release
  <2>2. OwnerOnlyRunning'
    BY <2>1 DEF Owned, OwnerOnlyRunning
  <2>3. \A v \in Worker : pc'[v] \in Looping => pc[v] \in Looping /\ v # w
    BY <1>0, <1>3
  <2>4. SingleRunner'
    BY <1>3, <2>3 DEF Owned, SingleRunner
  <2>5. \A v \in Worker : pc[v] \in Looping => job[v] \in Execution
    BY DEF Owned, Typed, WorkerOK
  <2>6. RunnerOwnsOrInterrupted'
    BY <1>3, <2>1, <2>3, <2>5 DEF Owned, RunnerOwnsOrInterrupted
  <2> QED
    BY <2>2, <2>4, <2>6
<1>4. CASE ApprovalHandoff(w)
  <2>1. pc[w] = "handoff" /\ job[w] \in Execution
    BY <1>4 DEF ApprovalHandoff, Owned, Typed, WorkerOK, Looping
  <2>2. \A v \in Worker \ {w} : pc[v] \in Looping => job[v] # job[w]
    BY <2>1 DEF Owned, SingleRunner, Looping
  <2>3. \E l \in ProgramCounter \ Looping : pc' = [pc EXCEPT ![w] = l]
    BY <1>4 DEF ApprovalHandoff, ProgramCounter, Looping, Ending
  <2> QED
    BY <1>3, <1>4, <2>1, <2>2, <2>3 DEF ApprovalHandoff, HandoffAllowed, Status
<1>5. CASE Finalize(w)
  <2> DEFINE e == job[w]
  <2>1. pc[w] = "finalize" /\ e \in Execution
    BY <1>5 DEF Finalize, Owned, Typed, WorkerOK, Ending
  <2>2. status[e] = "running" /\ claimedBy[e] = w
    BY <1>5 DEF Finalize, OwnsLiveLease
  <2>3. \A v \in Worker \ {w} : pc[v] \in Looping => job[v] # e
    BY <2>2 DEF Owned, RunnerOwnsOrInterrupted
  <2>4. FinalStatus(w, e) \in Status
    BY <2>1 DEF FinalStatus, Owned, Typed, WorkerOK, Status
  <2>5. "done" \in ProgramCounter \ Looping
    BY DEF ProgramCounter, Looping
  <2> QED
    BY <1>3, <1>5, <2>1, <2>2, <2>3, <2>4, <2>5 DEF Finalize
<1>6. CASE LoadExecution(w)
  <2>1. PICK l \in ProgramCounter :
          /\ pc' = [pc EXCEPT ![w] = l]
          /\ l \in Looping => claimedBy[job[w]] = w /\ pc[w] = "load"
    BY <1>1, <1>6
  <2>2. UNCHANGED <<status, claimedBy, interrupted, job>>
    BY <1>1, <1>6
  <2> HIDE DEF rowVars, localVars, GoTo, Committed
  <2>3. l \in Looping => pc[w] \in Looping \/ (claimedBy[job[w]] = w /\ pc[w] = "load")
    BY <2>1
  <2> QED
    BY <2>1, <2>2, <2>3, StayOwned, Zenon
<1>7. CASE ~(LoadExecution(w) \/ ApprovalHandoff(w) \/ Finalize(w))
  <2>1. /\ UNCHANGED <<status, claimedBy, interrupted, job>>
        /\ \E l \in ProgramCounter :
             /\ pc' = [pc EXCEPT ![w] = l]
             /\ l \in Looping => pc[w] \in Looping
    <3> HIDE DEF GoTo, Committed, rowVars, localVars
    <3> QED
      BY <1>2, <1>7 DEF Run
  <2>2. PICK l \in ProgramCounter :
          /\ pc' = [pc EXCEPT ![w] = l]
          /\ l \in Looping => pc[w] \in Looping
    BY <2>1
  <2>3. l \in Looping => pc[w] \in Looping \/ (claimedBy[job[w]] = w /\ pc[w] = "load")
    BY <2>2
  <2> QED
    BY <2>1, <2>2, <2>3, StayOwned, Zenon
<1> QED
  BY <1>4, <1>5, <1>6, <1>7

\* A change of the row of an execution nobody has in the loop.
LEMMA RowOwned ==
  ASSUME Owned, NEW e \in Execution, NEW s \in Status,
         status' = [status EXCEPT ![e] = s],
         claimedBy' = claimedBy \/ Release(e), UNCHANGED <<interrupted, job, pc>>,
         status[e] \notin {"running", "failed"}
  PROVE  OwnerOnlyRunning' /\ RunnerOwnsOrInterrupted' /\ SingleRunner'
<1>1. /\ status \in [Execution -> Status]
      /\ claimedBy \in [Execution -> Worker \cup {None}]
  BY DEF Owned, Typed, TypeOK, ExecutionsTypeOK
<1>2. claimedBy[e] = None
  BY DEF Owned, OwnerOnlyRunning
<1>3. \A f \in Execution : /\ claimedBy'[f] = claimedBy[f]
                           /\ f # e => status'[f] = status[f]
  BY <1>1, <1>2 DEF Release
<1>4. \A v \in Worker : pc[v] \in Looping => job[v] # e /\ job[v] \in Execution
  BY DEF Owned, RunnerOwnsOrInterrupted, Typed, WorkerOK
<1>5. OwnerOnlyRunning'
  BY <1>2, <1>3 DEF Owned, OwnerOnlyRunning
<1>6. RunnerOwnsOrInterrupted'
  BY <1>3, <1>4 DEF Owned, RunnerOwnsOrInterrupted
<1> QED
  BY <1>5, <1>6 DEF Owned, SingleRunner

LEMMA NextOwned == Owned /\ [Next]_vars => Owned'
<1> SUFFICES ASSUME Owned, [Next]_vars PROVE Owned'
  OBVIOUS
<1> DEFINE Goal == OwnerOnlyRunning' /\ RunnerOwnsOrInterrupted' /\ SingleRunner'
<1>0. /\ pc \in [Worker -> ProgramCounter] /\ status \in [Execution -> Status]
      /\ claimedBy \in [Execution -> Worker \cup {None}]
      /\ job \in [Worker -> Execution \cup {None}]
      /\ interrupted \in [Execution -> BOOLEAN]
  BY DEF Owned, Typed, TypeOK, WorkersTypeOK, ExecutionsTypeOK
<1>1. Typed'
  BY NextTyped DEF Owned
<1>2. ASSUME NEW w \in Worker, NEW e \in Execution, ClaimPending(w, e) PROVE Goal
  <2>1. /\ status' = [status EXCEPT ![e] = "running"]
        /\ claimedBy' = [claimedBy EXCEPT ![e] = w]
        /\ pc' = [pc EXCEPT ![w] = "load"]
        /\ job' = [job EXCEPT ![w] = e]
        /\ UNCHANGED interrupted /\ status[e] = "pending"
    BY <1>2 DEF ClaimPending, GoTo, Claimable
  <2>2. /\ status'[e] = "running"
        /\ \A f \in Execution \ {e} : status'[f] = status[f] /\ claimedBy'[f] = claimedBy[f]
    BY <1>0, <2>1
  <2>3. \A v \in Worker : pc'[v] \in Looping =>
          pc[v] \in Looping /\ job'[v] = job[v] /\ job[v] # e /\ job[v] \in Execution
    BY <1>0, <2>1 DEF Looping, Owned, RunnerOwnsOrInterrupted, Typed, WorkerOK
  <2>4. OwnerOnlyRunning'
    BY <2>2 DEF Owned, OwnerOnlyRunning
  <2>5. RunnerOwnsOrInterrupted'
    BY <2>1, <2>2, <2>3 DEF Owned, RunnerOwnsOrInterrupted
  <2>6. SingleRunner'
    BY <2>3 DEF Owned, SingleRunner
  <2> QED
    BY <2>4, <2>5, <2>6
<1>3. ASSUME NEW e \in Execution, Request(e) PROVE Goal
  <2> USE DEF rowVars, localVars
  <2>1. CASE CreatePending(e)
    BY <2>1, RowOwned DEF CreatePending, Status
  <2>2. CASE RequestCancellation(e)
    <3>1. CASE status[e] = "running"
      BY <2>2, <3>1 DEF RequestCancellation, CancelledAtOnce, Owned, OwnerOnlyRunning,
         RunnerOwnsOrInterrupted, SingleRunner
    <3>2. CASE CancelledAtOnce(e) /\ status[e] # "running"
      BY <2>2, <3>2, RowOwned DEF RequestCancellation, CancelledAtOnce, Status
    <3> QED
      BY <2>2, <3>1, <3>2 DEF RequestCancellation
  <2>3. CASE ResolveEvent(e)
    BY <2>3 DEF ResolveEvent, Owned, OwnerOnlyRunning, RunnerOwnsOrInterrupted,
       SingleRunner
  <2>4. ASSUME NEW d \in {"approved", "rejected"}, DecideApproval(e, d) PROVE Goal
    BY <2>4, RowOwned DEF DecideApproval, Decidable, Status
  <2>5. ASSUME NEW r \in Execution, ReplayEvent(e, r) PROVE Goal
    BY <2>5, RowOwned DEF ReplayEvent, Status
  <2> QED
    BY <1>3, <2>1, <2>2, <2>3, <2>4, <2>5 DEF Request
<1>4. ASSUME NEW e \in Execution, CleanupExpired(e) PROVE Goal
  <2>1. /\ status' = [status EXCEPT ![e] = "failed"]
        /\ interrupted' = [interrupted EXCEPT ![e] = TRUE]
        /\ claimedBy' = [claimedBy EXCEPT ![e] = None]
        /\ UNCHANGED <<pc, job>>
    BY <1>4 DEF CleanupExpired, Release, localVars
  <2>2. /\ status'[e] = "failed" /\ interrupted'[e] /\ claimedBy'[e] = None
        /\ \A f \in Execution \ {e} : /\ status'[f] = status[f]
                                      /\ claimedBy'[f] = claimedBy[f]
                                      /\ interrupted'[f] = interrupted[f]
    BY <1>0, <2>1
  <2>3. \A v \in Worker : pc[v] \in Looping => job[v] \in Execution
    BY DEF Owned, Typed, WorkerOK
  <2>4. OwnerOnlyRunning'
    BY <2>2 DEF Owned, OwnerOnlyRunning
  <2>5. RunnerOwnsOrInterrupted'
    BY <2>1, <2>2, <2>3 DEF Owned, RunnerOwnsOrInterrupted
  <2> QED
    BY <2>1, <2>4, <2>5 DEF Owned, SingleRunner
<1>5. ASSUME NEW e \in Execution, LeaseExpires(e) PROVE Goal
  BY <1>5 DEF LeaseExpires, localVars, Owned, OwnerOnlyRunning, RunnerOwnsOrInterrupted,
     SingleRunner
<1>6. ASSUME UNCHANGED vars PROVE Goal
  BY <1>6 DEF vars, rowVars, localVars, Owned, OwnerOnlyRunning,
     RunnerOwnsOrInterrupted, SingleRunner
<1>7. Goal
  <2> HIDE DEF Goal
  <2>1. ASSUME NEW w \in Worker, Run(w) \/ Crash(w) \/ HeartbeatCancels(w)
        PROVE Goal
    BY <2>1, RunOwned DEF Goal
  <2> QED
    BY <1>2, <1>3, <1>4, <1>5, <1>6, <2>1 DEF Next
<1> QED
  BY <1>1, <1>7 DEF Owned

\* No two workers run one execution, however claims, lost leases, handoffs,
\* decisions and finalizations interleave.
THEOREM OneRunner == Spec => []SingleRunner
<1>1. Owned => SingleRunner
  BY DEF Owned
<1> QED
  BY <1>1, InitOwned, NextOwned, PTL DEF Spec

\* Nothing but a lost lease ends a run behind its worker's back.
THEOREM RunnerKeepsRow == Spec => []RunnerOwnsOrInterrupted
<1>1. Owned => RunnerOwnsOrInterrupted
  BY DEF Owned
<1> QED
  BY <1>1, InitOwned, NextOwned, PTL DEF Spec
-----------------------------------------------------------------------------
(* Refinement.  What the abstract life cycle knows about cancellation and  *)
(* replays is spread in the queue over outcomes of workers and dead        *)
(* letters; Linked says how they hang together.                            *)

\* Nothing is, or is about to be, cancelled that nobody asked to cancel.
CancelledOnRequest ==
  /\ \A e \in Execution : status[e] = "cancelled" => cancelRequested[e]
  /\ \A w \in Worker : pc[w] = "finalize" /\ outcome[w] = "cancelled"
                         => cancelRequested[job[w]]

\* Only a failed execution has a dead letter, and just one; whatever replays
\* the execution used that one up.
OneDeadLetter ==
  \A e \in Execution :
    /\ \A i \in DOMAIN deadLetters[e] : i = 1 /\ status[e] = "failed"
    /\ \A x \in Execution : replayOf[x] = e =>
         1 \in DOMAIN deadLetters[e] /\ deadLetters[e][1].status = "replayed"

Linked == Typed /\ CancelledOnRequest /\ OneDeadLetter

LEMMA InitLinked == Init => Linked
<1> SUFFICES ASSUME Init PROVE Linked
  OBVIOUS
<1>1. Typed
  BY InitTyped
<1>2. CancelledOnRequest
  BY DEF Init, CancelledOnRequest
<1>3. \A e \in Execution : DOMAIN deadLetters[e] = {}
  BY DEF Init
<1>4. \A x \in Execution : replayOf[x] \notin Execution
  BY QueueAssumption DEF Init
<1>5. OneDeadLetter
  BY <1>3, <1>4 DEF OneDeadLetter
<1> QED
  BY <1>1, <1>2, <1>5 DEF Linked

\* The actions of a worker that show in no row of executions but its context.
Quiet(w) ==
  \/ LoadExecution(w) \/ CheckCancellation(w) \/ CreateStep(w) \/ StartStep(w)
  \/ InvokeNode(w) \/ InvokeFails(w) \/ RecordCompleted(w)
  \/ HandoffRefused(w) \/ Raise(w) \/ MarkStepFailed(w) \/ SaveFailureContext(w)
  \/ OwnershipLost(w) \/ Crash(w) \/ HeartbeatCancels(w)

LEMMA QuietSteps ==
  ASSUME Linked, NEW w \in Worker, Quiet(w)
  PROVE  /\ UNCHANGED <<status, cancelRequested, replayOf, deadLetters, job>>
         /\ \A v \in Worker \ {w} : pc'[v] = pc[v] /\ outcome'[v] = outcome[v]
         /\ pc'[w] = "finalize" /\ outcome'[w] = "cancelled" => cancelRequested[job[w]]
<1> USE DEF GoTo, Committed, rowVars, localVars
<1> DEFINE Goal == /\ UNCHANGED <<status, cancelRequested, replayOf, deadLetters, job>>
                   /\ \A v \in Worker \ {w} : pc'[v] = pc[v] /\ outcome'[v] = outcome[v]
                   /\ pc'[w] = "finalize" /\ outcome'[w] = "cancelled" => cancelRequested[job[w]]
<1>0. pc \in [Worker -> ProgramCounter] /\ DOMAIN outcome = Worker /\ Worker = DOMAIN pc
  BY DEF Linked, Typed, TypeOK, WorkersTypeOK
<1>1. CASE LoadExecution(w)
  <2>1. /\ UNCHANGED <<status, cancelRequested, replayOf, deadLetters, job>>
        /\ \/ pc' = [pc EXCEPT ![w] = "done"] /\ UNCHANGED outcome
           \/ pc' = [pc EXCEPT ![w] = "check"] /\ UNCHANGED outcome
           \/ \E o \in {"completed", "failed"} :
                pc' = [pc EXCEPT ![w] = "finalize"] /\ outcome' = [outcome EXCEPT ![w] = o]
    BY <1>1 DEF LoadExecution
  <2> QED
    BY <1>0, <2>1
<1>2. CASE CheckCancellation(w)
  BY <1>0, <1>2 DEF CheckCancellation
<1>3. CASE CreateStep(w)
  BY <1>0, <1>3 DEF CreateStep
<1>4. CASE StartStep(w)
  BY <1>0, <1>4 DEF StartStep
<1>5. CASE InvokeNode(w)
  BY <1>0, <1>5 DEF InvokeNode
<1>6. CASE InvokeFails(w)
  BY <1>0, <1>6 DEF InvokeFails
<1>7. CASE RecordCompleted(w)
  <2>1. /\ UNCHANGED <<status, cancelRequested, replayOf, deadLetters, job>>
        /\ \/ \E l \in {"check", "mark_failed"} :
                pc' = [pc EXCEPT ![w] = l] /\ UNCHANGED outcome
           \/ \E l \in {"finalize", "mark_failed"} :
                pc' = [pc EXCEPT ![w] = l] /\ outcome' = [outcome EXCEPT ![w] = "completed"]
    BY <1>7 DEF RecordCompleted
  <2> QED
    BY <1>0, <2>1
<1>8. CASE HandoffRefused(w)
  <2>1. pc[w] = "handoff" /\ job[w] \in Execution
    BY <1>8 DEF HandoffRefused, Linked, Typed, WorkerOK, Looping
  <2>2. status[job[w]] = "cancelled" => cancelRequested[job[w]]
    BY <2>1 DEF Linked, CancelledOnRequest
  <2>3. CASE cancelRequested[job[w]]
    BY <1>0, <1>8, <2>3 DEF HandoffRefused
  <2>4. CASE ~cancelRequested[job[w]]
    BY <1>0, <1>8, <2>2, <2>4 DEF HandoffRefused
  <2> QED
    BY <2>3, <2>4
<1>9. CASE Raise(w)
  BY <1>0, <1>9 DEF Raise
<1>10. CASE MarkStepFailed(w)
  BY <1>0, <1>10 DEF MarkStepFailed
<1>11. CASE SaveFailureContext(w)
  <2>1. outcome[w] \in {"failed", "abandoned"}
    BY <1>11 DEF SaveFailureContext, Linked, Typed, WorkerOK
  <2> QED
    BY <1>0, <1>11, <2>1 DEF SaveFailureContext
<1>12. CASE OwnershipLost(w)
  BY <1>0, <1>12 DEF OwnershipLost
<1>13. CASE Crash(w)
  BY <1>0, <1>13 DEF Crash
<1>14. CASE HeartbeatCancels(w)
  BY <1>0, <1>14 DEF HeartbeatCancels
<1> QED
  BY <1>1, <1>2, <1>3, <1>4, <1>5, <1>6, <1>7, <1>8, <1>9, <1>10, <1>11, <1>12,
     <1>13, <1>14 DEF Quiet

\* A failed execution stays failed.
LEMMA NextLinked == Linked /\ [Next]_vars => Linked'
<1> SUFFICES ASSUME Linked, [Next]_vars PROVE Linked'
  OBVIOUS
<1> DEFINE Goal == CancelledOnRequest' /\ OneDeadLetter'
<1>0. /\ pc \in [Worker -> ProgramCounter] /\ status \in [Execution -> Status]
      /\ job \in [Worker -> Execution \cup {None}]
      /\ cancelRequested \in [Execution -> BOOLEAN]
      /\ replayOf \in [Execution -> Execution \cup {None}]
      /\ deadLetters \in [Execution -> Seq(DeadLetter)]
  BY DEF Linked, Typed, TypeOK, WorkersTypeOK, ExecutionsTypeOK, RecordsTypeOK
<1>00. \A v \in Worker : pc[v] = "finalize" => job[v] \in Execution
  BY DEF Linked, Typed, WorkerOK, Ending
<1>1. Typed'
  BY NextTyped DEF Linked
<1>2. ASSUME NEW w \in Worker, Quiet(w) PROVE Goal
  BY <1>2, QuietSteps DEF Linked, CancelledOnRequest, OneDeadLetter
\* A new status s for e that is not failed now; its dead letters, of which it
\* has none, gain at most one if it fails.
<1>3. ASSUME NEW e \in Execution, NEW s \in Status, status[e] # "failed",
             status' = [status EXCEPT ![e] = s],
             UNCHANGED replayOf,
             \/ UNCHANGED deadLetters
             \/ s = "failed" /\ \E d \in DeadLetter :
                  deadLetters' = [deadLetters EXCEPT ![e] = Append(@, d)]
      PROVE  OneDeadLetter'
  <2>1. /\ DOMAIN deadLetters[e] = {} /\ deadLetters[e] \in Seq(DeadLetter)
        /\ \A x \in Execution : replayOf[x] # e
    BY <1>0, <1>3 DEF Linked, OneDeadLetter
  <2>2. \A d \in DeadLetter : DOMAIN Append(deadLetters[e], d) = {1}
    <3> TAKE d \in DeadLetter
    <3>1. Len(deadLetters[e]) \in Nat /\ DOMAIN deadLetters[e] = 1..Len(deadLetters[e])
      BY <2>1, LenProperties
    <3>2. Len(deadLetters[e]) = 0
      <4> DEFINE n == Len(deadLetters[e])
      <4>1. n \in Nat /\ 1..n = {}
        BY <2>1, <3>1
      <4> HIDE DEF n
      <4>2. n = 0
        BY <4>1, 1 \in 1..n \/ n = 0
      <4> QED
        BY <4>2 DEF n
    <3>3. Append(deadLetters[e], d) \in Seq(DeadLetter) /\ Len(Append(deadLetters[e], d)) = 1
      BY <2>1, <3>2, AppendProperties
    <3> QED
      BY <3>3, LenProperties
  <2>3. \A f \in Execution \ {e} : status'[f] = status[f] /\ deadLetters'[f] = deadLetters[f]
    BY <1>0, <1>3
  <2>4. \A i \in DOMAIN deadLetters'[e] : i = 1 /\ status'[e] = "failed"
    BY <1>0, <1>3, <2>1, <2>2
  <2> QED
    BY <1>3, <2>1, <2>3, <2>4 DEF Linked, OneDeadLetter
<1>4. ASSUME NEW w \in Worker, ApprovalHandoff(w) \/ Finalize(w) PROVE Goal
  <2> DEFINE e == job[w]
  <2>1. e \in Execution /\ status[e] = "running"
    BY <1>4 DEF ApprovalHandoff, Finalize, HandoffAllowed, OwnsLiveLease, Linked,
       Typed, WorkerOK, Looping, Ending
  <2>2. UNCHANGED <<cancelRequested, replayOf, job, outcome>>
    BY <1>4 DEF ApprovalHandoff, Finalize, localVars
  <2>3. \A v \in Worker : pc'[v] = "finalize" => pc[v] = "finalize"
    BY <1>0, <1>4 DEF ApprovalHandoff, Finalize, GoTo, Committed
  <2>4. CASE ApprovalHandoff(w)
    <3>1. status' = [status EXCEPT ![e] = "waiting_for_approval"] /\ UNCHANGED deadLetters
      BY <2>4 DEF ApprovalHandoff
    <3>2. OneDeadLetter'
      BY <1>3, <2>1, <2>2, <3>1 DEF Status
    <3>3. CancelledOnRequest'
      BY <1>0, <2>1, <2>2, <2>3, <3>1 DEF Linked, CancelledOnRequest
    <3> QED
      BY <3>2, <3>3
  <2>5. CASE Finalize(w)
    <3> DEFINE s == FinalStatus(w, e)
    <3>1. pc[w] = "finalize" /\ status' = [status EXCEPT ![e] = s]
      BY <2>5 DEF Finalize
    <3>2. s \in Status /\ (s = "cancelled" => cancelRequested[e])
      BY <3>1 DEF FinalStatus, Linked, Typed, WorkerOK, CancelledOnRequest, Status
    <3>3. \/ UNCHANGED deadLetters
          \/ s = "failed" /\ \E d \in DeadLetter :
               deadLetters' = [deadLetters EXCEPT ![e] = Append(@, d)]
      <4>1. \A k \in 0..Len(steps[e]) : [step |-> k, status |-> "pending"] \in DeadLetter
        BY <2>1, LenProperties DEF DeadLetter, Linked, Typed, TypeOK, RecordsTypeOK
      <4> QED
        BY <2>5, <4>1 DEF Finalize
    <3> HIDE DEF s
    <3>4. OneDeadLetter'
      BY <1>3, <2>1, <2>2, <3>1, <3>2, <3>3
    <3>5. CancelledOnRequest'
      BY <1>0, <2>1, <2>2, <2>3, <3>1, <3>2 DEF Linked, CancelledOnRequest
    <3> QED
      BY <3>4, <3>5
  <2> QED
    BY <1>4, <2>4, <2>5
<1>5. ASSUME NEW w \in Worker, NEW e \in Execution, ClaimPending(w, e) PROVE Goal
  <2>1. /\ status' = [status EXCEPT ![e] = "running"] /\ status[e] = "pending"
        /\ job' = [job EXCEPT ![w] = e] /\ pc' = [pc EXCEPT ![w] = "load"]
        /\ UNCHANGED <<cancelRequested, replayOf, deadLetters, outcome>>
    BY <1>5 DEF ClaimPending, Claimable, GoTo
  <2>2. OneDeadLetter'
    BY <1>3, <2>1 DEF Status
  <2>3. CancelledOnRequest'
    BY <1>0, <2>1 DEF Linked, CancelledOnRequest
  <2> QED
    BY <2>2, <2>3
<1>6. ASSUME NEW e \in Execution, Request(e) PROVE Goal
  <2>1. CASE CreatePending(e)
    <3>1. /\ status' = [status EXCEPT ![e] = "pending"] /\ status[e] = "absent"
          /\ UNCHANGED <<cancelRequested, replayOf, deadLetters, outcome, job, pc>>
      BY <2>1 DEF CreatePending, localVars
    <3> QED
      BY <1>0, <1>3, <3>1 DEF Linked, CancelledOnRequest, Status
  <2>2. CASE RequestCancellation(e)
    <3>1. /\ cancelRequested' = [cancelRequested EXCEPT ![e] = TRUE]
          /\ UNCHANGED <<replayOf, deadLetters, outcome, job, pc>>
          /\ \/ UNCHANGED status
             \/ status[e] # "failed" /\ status' = [status EXCEPT ![e] = "cancelled"]
      BY <2>2 DEF RequestCancellation, CancelledAtOnce, localVars
    <3>2. CancelledOnRequest'
      BY <1>0, <1>00, <3>1 DEF Linked, CancelledOnRequest
    <3>3. OneDeadLetter'
      BY <1>3, <3>1 DEF Status, Linked, OneDeadLetter
    <3> QED
      BY <3>2, <3>3
  <2>3. CASE ResolveEvent(e)
    <3>1. PICK i \in DOMAIN deadLetters[e] :
            /\ deadLetters[e][i].status = "pending"
            /\ deadLetters' = [deadLetters EXCEPT ![e][i].status = "resolved"]
            /\ UNCHANGED <<status, cancelRequested, replayOf, pc, job, outcome>>
      BY <2>3 DEF ResolveEvent, rowVars, localVars
    <3>2. i = 1 /\ \A x \in Execution : replayOf[x] # e
      BY <3>1 DEF Linked, OneDeadLetter
    <3>3. /\ DOMAIN deadLetters'[e] = DOMAIN deadLetters[e]
          /\ \A f \in Execution \ {e} : deadLetters'[f] = deadLetters[f]
      BY <1>0, <3>1, DeadLetterUpdate
    <3>4. OneDeadLetter'
      BY <3>1, <3>2, <3>3 DEF Linked, OneDeadLetter
    <3> QED
      BY <3>1, <3>4 DEF Linked, CancelledOnRequest
  <2>4. ASSUME NEW d \in {"approved", "rejected"}, DecideApproval(e, d) PROVE Goal
    <3>1. /\ status' = [status EXCEPT ![e] = "pending"]
          /\ status[e] = "waiting_for_approval"
          /\ UNCHANGED <<cancelRequested, replayOf, deadLetters, outcome, job, pc>>
      BY <2>4 DEF DecideApproval, Decidable, localVars
    <3> QED
      BY <1>0, <1>3, <3>1 DEF Linked, CancelledOnRequest, Status
  <2>5. ASSUME NEW r \in Execution, ReplayEvent(e, r) PROVE Goal
    <3>1. PICK i \in DOMAIN deadLetters[e] :
            /\ deadLetters[e][i].status = "pending" /\ status[e] = "failed"
            /\ status[r] = "absent" /\ status' = [status EXCEPT ![r] = "pending"]
            /\ replayOf' = [replayOf EXCEPT ![r] = e]
            /\ deadLetters' = [deadLetters EXCEPT ![e][i].status = "replayed"]
            /\ UNCHANGED <<cancelRequested, pc, job, outcome>>
      BY <2>5 DEF ReplayEvent, Replayable, localVars
    <3>2. i = 1 /\ DOMAIN deadLetters[r] = {} /\ r # e
      BY <3>1 DEF Linked, OneDeadLetter
    <3>3. /\ DOMAIN deadLetters'[e] = DOMAIN deadLetters[e]
          /\ \A f \in Execution \ {e} : deadLetters'[f] = deadLetters[f]
          /\ deadLetters'[e][i] = [deadLetters[e][i] EXCEPT !.status = "replayed"]
      BY <1>0, <3>1, DeadLetterUpdate
    <3>4. deadLetters'[e][i].status = "replayed"
      <4>1. deadLetters[e][i] \in DeadLetter
        BY <1>0, <3>1, ElementOfSeq, LenProperties
      <4> QED
        BY <3>3, <4>1 DEF DeadLetter
    <3>5. \A f \in Execution : f # r => status'[f] = status[f]
      BY <1>0, <3>1
    <3>6. \A f \in Execution : \A j \in DOMAIN deadLetters'[f] : j = 1 /\ status'[f] = "failed"
      BY <3>2, <3>3, <3>5 DEF Linked, OneDeadLetter
    <3>7. \A x \in Execution : replayOf'[x] = IF x = r THEN e ELSE replayOf[x]
      BY <1>0, <3>1
    <3>8. \A f, x \in Execution : replayOf'[x] = f =>
            1 \in DOMAIN deadLetters'[f] /\ deadLetters'[f][1].status = "replayed"
      <4> TAKE f, x \in Execution
      <4> HAVE replayOf'[x] = f
      <4>1. CASE f = e
        BY <3>1, <3>2, <3>3, <3>4, <4>1
      <4>2. CASE f # e
        <5>1. replayOf[x] = f
          BY <3>7, <4>2
        <5> QED
          BY <3>3, <4>2, <5>1 DEF Linked, OneDeadLetter
      <4> QED
        BY <4>1, <4>2
    <3>9. OneDeadLetter'
      BY <3>6, <3>8 DEF OneDeadLetter
    <3>10. CancelledOnRequest'
      BY <1>0, <3>1 DEF Linked, CancelledOnRequest
    <3> QED
      BY <3>9, <3>10
  <2> QED
    BY <1>6, <2>1, <2>2, <2>3, <2>4, <2>5 DEF Request
<1>7. ASSUME NEW e \in Execution, CleanupExpired(e) PROVE Goal
  <2>1. /\ status' = [status EXCEPT ![e] = "failed"] /\ status[e] = "running"
        /\ UNCHANGED <<cancelRequested, replayOf, deadLetters, outcome, job, pc>>
    BY <1>7 DEF CleanupExpired, Expired, localVars
  <2> QED
    BY <1>0, <1>3, <2>1 DEF Linked, CancelledOnRequest, Status
<1>8. ASSUME UNCHANGED vars \/ \E e \in Execution : LeaseExpires(e) PROVE Goal
  <2>1. UNCHANGED <<status, cancelRequested, replayOf, deadLetters, outcome, job, pc>>
    BY <1>8 DEF LeaseExpires, vars, rowVars, localVars
  <2> QED
    BY <2>1 DEF Linked, CancelledOnRequest, OneDeadLetter
<1>9. Goal
  <2> HIDE DEF Goal
  <2> QED
    BY <1>2, <1>4, <1>5, <1>6, <1>7, <1>8 DEF Next, Run, Quiet
<1> QED
  BY <1>1, <1>9 DEF Linked

\* Every step of the queue is a step of the life cycle, or shows in none of
\* its variables.
LEMMA StepRefines == Linked /\ [Next]_vars => [Lifecycle!Next]_(Lifecycle!vars)
<1> SUFFICES ASSUME Linked, [Next]_vars PROVE [Lifecycle!Next]_(Lifecycle!vars)
  OBVIOUS
<1> USE DEF Lifecycle!Become
<1> DEFINE Goal == [Lifecycle!Next]_(Lifecycle!vars)
<1>1. ASSUME UNCHANGED <<status, cancelRequested, replayOf>> PROVE Goal
  BY <1>1 DEF Lifecycle!vars
<1>2. ASSUME NEW w \in Worker, Quiet(w) PROVE Goal
  BY <1>1, <1>2, QuietSteps
<1>3. ASSUME NEW w \in Worker, ApprovalHandoff(w) PROVE Goal
  <2>1. job[w] \in Execution
    BY <1>3 DEF ApprovalHandoff, Linked, Typed, WorkerOK, Looping
  <2>2. Lifecycle!Suspend(job[w])
    BY <1>3 DEF ApprovalHandoff, HandoffAllowed, Lifecycle!Suspend
  <2> QED
    BY <2>1, <2>2 DEF Lifecycle!Next
<1>4. ASSUME NEW w \in Worker, Finalize(w) PROVE Goal
  <2> DEFINE e == job[w]
             s == FinalStatus(w, e)
  <2>1. /\ pc[w] = "finalize" /\ e \in Execution /\ status[e] = "running"
        /\ status' = [status EXCEPT ![e] = s]
        /\ UNCHANGED <<cancelRequested, replayOf>>
    BY <1>4 DEF Finalize, OwnsLiveLease, Linked, Typed, WorkerOK, Ending
  <2>2. s \in IF cancelRequested[e] THEN {"cancelled", "failed"} ELSE {"completed", "failed"}
    BY <2>1 DEF FinalStatus, Linked, Typed, WorkerOK, CancelledOnRequest
  <2>3. Lifecycle!Finish(e)
    BY <2>1, <2>2 DEF Lifecycle!Finish
  <2> QED
    BY <2>1, <2>3 DEF Lifecycle!Next
<1>5. ASSUME NEW w \in Worker, NEW e \in Execution, ClaimPending(w, e) PROVE Goal
  <2>1. Lifecycle!Start(e)
    BY <1>5 DEF ClaimPending, Claimable, Lifecycle!Start
  <2> QED
    BY <2>1 DEF Lifecycle!Next
<1>6. ASSUME NEW e \in Execution, Request(e) PROVE Goal
  <2>1. CASE CreatePending(e)
    BY <2>1 DEF CreatePending, Lifecycle!Submit, Lifecycle!Next
  <2>2. CASE RequestCancellation(e)
    BY <2>2 DEF RequestCancellation, CancelledAtOnce, Lifecycle!RequestCancellation,
       Lifecycle!Idle, Lifecycle!Next
  <2>3. CASE ResolveEvent(e)
    BY <1>1, <2>3 DEF ResolveEvent, rowVars
  <2>4. ASSUME NEW d \in {"approved", "rejected"}, DecideApproval(e, d) PROVE Goal
    BY <2>4 DEF DecideApproval, Decidable, Lifecycle!Resume, Lifecycle!Next
  <2>5. ASSUME NEW r \in Execution, ReplayEvent(e, r) PROVE Goal
    <3>1. PICK i \in DOMAIN deadLetters[e] :
            /\ deadLetters[e][i].status = "pending" /\ status[e] = "failed"
            /\ status[r] = "absent" /\ status' = [status EXCEPT ![r] = "pending"]
            /\ replayOf' = [replayOf EXCEPT ![r] = e]
            /\ UNCHANGED cancelRequested
      BY <2>5 DEF ReplayEvent, Replayable
    <3>2. \A x \in Execution : replayOf[x] # e
      BY <3>1 DEF Linked, OneDeadLetter
    <3>3. Lifecycle!Replay(e, r)
      BY <3>1, <3>2 DEF Lifecycle!Replay
    <3> QED
      BY <3>3 DEF Lifecycle!Next
  <2> QED
    BY <1>6, <2>1, <2>2, <2>3, <2>4, <2>5 DEF Request
<1>7. ASSUME NEW e \in Execution, CleanupExpired(e) PROVE Goal
  <2>1. Lifecycle!Finish(e)
    BY <1>7 DEF CleanupExpired, Expired, Lifecycle!Finish
  <2> QED
    BY <2>1 DEF Lifecycle!Next
<1>8. ASSUME UNCHANGED vars \/ \E e \in Execution : LeaseExpires(e) PROVE Goal
  BY <1>1, <1>8 DEF LeaseExpires, vars, rowVars
<1> QED
  <2> HIDE DEF Goal
  <2>1. Goal
    BY <1>2, <1>3, <1>4, <1>5, <1>6, <1>7, <1>8 DEF Next, Run, Quiet
  <2> QED
    BY <2>1 DEF Goal

\* Seen through the API, the queue with its workers, leases, crashes and
\* partial failures is the life cycle users are promised.
THEOREM Refinement == Spec => ImplementsLifecycle
<1>1. Init => Lifecycle!Init
  BY DEF Init, Lifecycle!Init
<1> QED
  BY <1>1, InitLinked, NextLinked, StepRefines, PTL
     DEF Spec, ImplementsLifecycle, Lifecycle!Spec

-----------------------------------------------------------------------------
(* What the transactions do to status and approval of the steps.           *)

LEMMA StepsAreSteps ==
  ASSUME Typed, NEW e \in Execution, NEW i \in DOMAIN steps[e]
  PROVE  steps[e][i] \in Step
<1>1. steps[e] \in Seq(Step)
  BY DEF Typed, TypeOK, RecordsTypeOK
<1> QED
  BY <1>1, LenProperties, ElementOfSeq

\* Only step i of execution e changes, to status s and approval a.
OnlyStep(e, i, s, a) ==
  /\ DOMAIN steps'[e] = DOMAIN steps[e]
  /\ \A f \in Execution \ {e} : steps'[f] = steps[f]
  /\ \A j \in DOMAIN steps[e] \ {i} : steps'[e][j] = steps[e][j]
  /\ i \in DOMAIN steps[e] => /\ steps'[e][i].node = steps[e][i].node
                             /\ steps'[e][i].status = s
                             /\ steps'[e][i].approval = a

LEMMA SetStepEffect ==
  ASSUME Typed, NEW w \in Worker, pc[w] \in Looping \cup Ending,
         NEW s \in StepStatus, SetStep(w, s)
  PROVE  OnlyStep(job[w], step[w], s, steps[job[w]][step[w]].approval)
<1> DEFINE e == job[w]
           i == step[w]
<1>1. e \in Execution
  BY DEF Typed, WorkerOK
<1>2. /\ DOMAIN steps'[e] = DOMAIN steps[e]
      /\ \A f \in Execution \ {e} : steps'[f] = steps[f]
      /\ \A j \in DOMAIN steps[e] \ {i} : steps'[e][j] = steps[e][j]
      /\ i \in DOMAIN steps[e] =>
           steps'[e][i] = [steps[e][i] EXCEPT !.status = s]
  BY SetStepFacts
<1>3. i \in DOMAIN steps[e] => steps[e][i] \in Step
  BY <1>1, StepsAreSteps
<1> HIDE DEF e, i
<1>4. OnlyStep(e, i, s, steps[e][i].approval)
  BY <1>2, <1>3 DEF OnlyStep, Step
<1> QED
  BY <1>4 DEF e, i

LEMMA HandoffEffect ==
  ASSUME Typed, NEW w \in Worker, ApprovalHandoff(w)
  PROVE  OnlyStep(job[w], step[w], "waiting_for_approval", "pending")
<1> DEFINE e == job[w]
           i == step[w]
           x == [steps[e][i] EXCEPT !.status = "waiting_for_approval",
                                    !.approval = "pending"]
<1>1. e \in Execution /\ steps \in [Execution -> Seq(Step)]
  BY DEF ApprovalHandoff, Looping, Typed, TypeOK, RecordsTypeOK, WorkerOK
<1>2. i \in DOMAIN steps[e] => steps[e][i] \in Step
  BY <1>1, StepsAreSteps
<1>3. "waiting_for_approval" \in StepStatus /\ "pending" \in ApprovalStatus
  BY DEF StepStatus, ApprovalStatus
<1>4. i \in DOMAIN steps[e] => /\ x \in Step
                               /\ x.node = steps[e][i].node
                               /\ x.status = "waiting_for_approval"
                               /\ x.approval = "pending"
  BY <1>2, <1>3, StepFields DEF Step
<1>5. steps' = [steps EXCEPT ![e][i] = x]
  BY DEF ApprovalHandoff
<1> HIDE DEF e, i, x
<1>6. LET new == [steps EXCEPT ![e][i] = x] IN
         /\ new \in [Execution -> Seq(Step)]
         /\ DOMAIN new[e] = DOMAIN steps[e]
         /\ \A f \in Execution \ {e} : new[f] = steps[f]
         /\ \A j \in DOMAIN steps[e] \ {i} : new[e][j] = steps[e][j]
         /\ i \in DOMAIN steps[e] => new[e][i] = x
  BY <1>1, <1>4, StepUpdateFacts
<1>7. OnlyStep(e, i, "waiting_for_approval", "pending")
  BY <1>4, <1>5, <1>6 DEF OnlyStep
<1> QED
  BY <1>7 DEF e, i

LEMMA DecisionEffect ==
  ASSUME Typed, NEW e \in Execution, NEW i \in DOMAIN steps[e],
         NEW d \in {"approved", "rejected"},
         steps' = [steps EXCEPT ![e][i] =
                     [@ EXCEPT !.approval = d, !.status = "completed"]]
  PROVE  OnlyStep(e, i, "completed", d)
<1> DEFINE x == [steps[e][i] EXCEPT !.approval = d, !.status = "completed"]
<1>1. steps \in [Execution -> Seq(Step)]
  BY DEF Typed, TypeOK, RecordsTypeOK
<1>2. steps[e][i] \in Step
  BY StepsAreSteps
<1>3. "completed" \in StepStatus /\ d \in ApprovalStatus
  BY DEF StepStatus, ApprovalStatus
<1>4. /\ x \in Step
      /\ x.node = steps[e][i].node /\ x.status = "completed" /\ x.approval = d
  BY <1>2, <1>3, StepFields DEF Step
<1>5. steps' = [steps EXCEPT ![e][i] = x]
  OBVIOUS
<1> HIDE DEF x
<1>6. LET new == [steps EXCEPT ![e][i] = x] IN
         /\ new \in [Execution -> Seq(Step)]
         /\ DOMAIN new[e] = DOMAIN steps[e]
         /\ \A f \in Execution \ {e} : new[f] = steps[f]
         /\ \A j \in DOMAIN steps[e] \ {i} : new[e][j] = steps[e][j]
         /\ i \in DOMAIN steps[e] => new[e][i] = x
  BY <1>1, <1>4, StepUpdateFacts
<1> QED
  BY <1>4, <1>5, <1>6 DEF OnlyStep

\* The steps of e keep their status, but those in `open` get status s.
Closing(e, open, s) ==
  /\ DOMAIN steps'[e] = DOMAIN steps[e]
  /\ \A f \in Execution \ {e} : steps'[f] = steps[f]
  /\ \A i \in DOMAIN steps[e] :
       /\ steps'[e][i].node = steps[e][i].node
       /\ steps'[e][i].status =
            IF steps[e][i].status \in open THEN s ELSE steps[e][i].status

\* Cleanup leaves approvals alone; a cancellation cancels the pending ones.
LEMMA CloseEffect ==
  ASSUME Typed, NEW e \in Execution, NEW open, NEW s \in StepStatus,
         steps' = [steps EXCEPT ![e] = CloseSteps(e, open, s)]
  PROVE  /\ Closing(e, open, s)
         /\ \A i \in DOMAIN steps[e] : steps'[e][i].approval = steps[e][i].approval
<1> DEFINE ss == CloseSteps(e, open, s)
<1>1. steps \in [Execution -> Seq(Step)]
  BY DEF Typed, TypeOK, RecordsTypeOK
<1>2. /\ DOMAIN ss = DOMAIN steps[e]
      /\ \A i \in DOMAIN steps[e] :
           ss[i] = IF steps[e][i].status \in open
                     THEN [steps[e][i] EXCEPT !.status = s] ELSE steps[e][i]
  BY <1>1, CloseStepsFacts
<1>3. \A i \in DOMAIN steps[e] : steps[e][i] \in Step
  BY StepsAreSteps
<1>4. steps'[e] = ss /\ \A f \in Execution \ {e} : steps'[f] = steps[f]
  BY <1>1
<1> HIDE DEF ss
<1>5. \A i \in DOMAIN steps[e] :
        /\ ss[i].node = steps[e][i].node
        /\ ss[i].approval = steps[e][i].approval
        /\ ss[i].status = IF steps[e][i].status \in open THEN s ELSE steps[e][i].status
  BY <1>2, <1>3 DEF Step
<1> QED
  BY <1>2, <1>4, <1>5 DEF Closing

LEMMA CancelEffect ==
  ASSUME Typed, NEW e \in Execution, NEW open, NEW s \in StepStatus,
         steps' = [steps EXCEPT ![e] = CancelApprovals(CloseSteps(e, open, s))]
  PROVE  /\ Closing(e, open, s)
         /\ \A i \in DOMAIN steps[e] :
              steps'[e][i].approval =
                IF steps[e][i].approval = "pending" THEN "cancelled"
                                                    ELSE steps[e][i].approval
<1> DEFINE ss == CloseSteps(e, open, s)
           cs == CancelApprovals(ss)
<1>1. steps \in [Execution -> Seq(Step)]
  BY DEF Typed, TypeOK, RecordsTypeOK
<1>2. /\ ss \in Seq(Step) /\ DOMAIN ss = DOMAIN steps[e]
      /\ \A i \in DOMAIN steps[e] :
           ss[i] = IF steps[e][i].status \in open
                     THEN [steps[e][i] EXCEPT !.status = s] ELSE steps[e][i]
  BY <1>1, CloseStepsFacts
<1>3. \A i \in DOMAIN steps[e] : steps[e][i] \in Step
  BY StepsAreSteps
<1> HIDE DEF ss
<1>4. /\ DOMAIN cs = DOMAIN ss
      /\ \A i \in DOMAIN ss :
           cs[i] = IF ss[i].approval = "pending"
                     THEN [ss[i] EXCEPT !.approval = "cancelled"] ELSE ss[i]
  BY <1>2, CancelApprovalsFacts
<1>5. steps'[e] = cs /\ \A f \in Execution \ {e} : steps'[f] = steps[f]
  BY <1>1 DEF ss
<1> HIDE DEF cs
<1>6. \A i \in DOMAIN ss : ss[i] \in Step
  BY <1>2, LenProperties, ElementOfSeq
<1>7. \A i \in DOMAIN steps[e] :
        /\ ss[i].node = steps[e][i].node
        /\ ss[i].approval = steps[e][i].approval
        /\ ss[i].status = IF steps[e][i].status \in open THEN s ELSE steps[e][i].status
  BY <1>2, <1>3 DEF Step
<1>8. \A i \in DOMAIN ss :
        /\ cs[i].node = ss[i].node
        /\ cs[i].status = ss[i].status
        /\ cs[i].approval = IF ss[i].approval = "pending" THEN "cancelled"
                                                          ELSE ss[i].approval
  BY <1>4, <1>6 DEF Step
<1> QED
  BY <1>2, <1>4, <1>5, <1>7, <1>8 DEF Closing

LEMMA CreateEffect ==
  ASSUME Typed, NEW w \in Worker, CreateStep(w)
  PROVE  LET e == job[w]
             k == step'[w] IN
         /\ k = Len(steps[e]) + 1
         /\ k \notin DOMAIN steps[e] /\ DOMAIN steps'[e] = DOMAIN steps[e] \cup {k}
         /\ \A f \in Execution \ {e} : steps'[f] = steps[f]
         /\ \A j \in DOMAIN steps[e] : steps'[e][j] = steps[e][j]
         /\ steps'[e][k].node = at[w]
         /\ steps'[e][k].status = "pending" /\ steps'[e][k].approval = "none"
<1> DEFINE e == job[w]
           x == [node |-> at[w], status |-> "pending", approval |-> "none"]
<1>1. e \in Execution /\ at[w] \in Node /\ steps \in [Execution -> Seq(Step)]
  BY DEF CreateStep, Looping, Typed, TypeOK, RecordsTypeOK, WorkerOK
<1>2. x \in Step
  BY <1>1 DEF Step, StepStatus, ApprovalStatus
<1>3. x.node = at[w] /\ x.status = "pending" /\ x.approval = "none"
  OBVIOUS
<1>4. steps' = [steps EXCEPT ![e] = Append(@, x)] /\ step'[w] = Len(steps[e]) + 1
  BY DEF CreateStep, Typed, TypeOK, WorkersTypeOK
<1> HIDE DEF e, x
<1>5. LET new == [steps EXCEPT ![e] = Append(@, x)]
          k == Len(steps[e]) + 1 IN
      /\ k \notin DOMAIN steps[e]
      /\ DOMAIN new[e] = DOMAIN steps[e] \cup {k}
      /\ \A f \in Execution \ {e} : new[f] = steps[f]
      /\ \A j \in DOMAIN steps[e] : new[e][j] = steps[e][j]
      /\ new[e][k] = x
  BY <1>1, <1>2, AppendStepFacts
<1> QED
  BY <1>3, <1>4, <1>5 DEF e
-----------------------------------------------------------------------------
(* Approvals.  The steps of an execution that is running, or failed while  *)
(* its worker goes on, are none of them waiting, so what a worker does to  *)
(* its step disturbs no approval; the handoff needs that there is a step.  *)

\* ApprovalCoupling, for an execution with status st and steps ss.
CoupledRow(st, ss) ==
  /\ \A i \in DOMAIN ss :
       ss[i].approval = "pending" <=> ss[i].status = "waiting_for_approval"
  /\ st = "waiting_for_approval" =>
       \E i \in DOMAIN ss : \A j \in DOMAIN ss : ss[j].approval = "pending" <=> j = i
  /\ st # "waiting_for_approval" =>
       \A i \in DOMAIN ss : ss[i].approval # "pending"

RowsCoupled == \A e \in Execution : CoupledRow(status[e], steps[e])

\* A worker between the creation and the end of its step has a step.
AtOwnStep ==
  \A w \in Worker : pc[w] \in {"start", "invoke", "record", "handoff"} =>
    step[w] \in DOMAIN steps[job[w]]

Coupled == Owned /\ RowsCoupled /\ AtOwnStep

LEMMA CouplingOfRows == RowsCoupled => ApprovalCoupling
<1> SUFFICES ASSUME RowsCoupled, NEW e \in Execution
             PROVE  LET pending == {i \in DOMAIN steps[e] : steps[e][i].approval = "pending"}
                        waiting == {i \in DOMAIN steps[e] :
                                      steps[e][i].status = "waiting_for_approval"} IN
                    /\ pending = waiting
                    /\ IF status[e] = "waiting_for_approval"
                         THEN \E i \in DOMAIN steps[e] : pending = {i}
                         ELSE pending = {}
  BY DEF ApprovalCoupling
<1> DEFINE pending == {i \in DOMAIN steps[e] : steps[e][i].approval = "pending"}
           waiting == {i \in DOMAIN steps[e] :
                         steps[e][i].status = "waiting_for_approval"}
<1>1. CoupledRow(status[e], steps[e])
  BY DEF RowsCoupled
<1>2. pending = waiting
  BY <1>1 DEF CoupledRow
<1>3. CASE status[e] = "waiting_for_approval"
  <2>1. PICK i \in DOMAIN steps[e] : \A j \in DOMAIN steps[e] :
          steps[e][j].approval = "pending" <=> j = i
    BY <1>1, <1>3 DEF CoupledRow
  <2>2. pending = {i}
    BY <2>1
  <2> QED
    BY <1>2, <1>3, <2>2
<1>4. CASE status[e] # "waiting_for_approval"
  <2>1. pending = {}
    BY <1>1, <1>4 DEF CoupledRow
  <2> QED
    BY <1>2, <1>4, <2>1
<1> QED
  BY <1>3, <1>4

LEMMA InitCoupled == Init => Coupled
<1> SUFFICES ASSUME Init PROVE Coupled
  OBVIOUS
<1>1. \A e \in Execution : DOMAIN steps[e] = {} /\ status[e] = "absent"
  BY DEF Init
<1>2. RowsCoupled
  BY <1>1 DEF RowsCoupled, CoupledRow
<1>3. AtOwnStep
  BY DEF Init, AtOwnStep
<1> QED
  BY <1>2, <1>3, InitOwned DEF Coupled

\* What a worker in the loop may rely on.
LEMMA LoopFacts ==
  ASSUME Coupled, NEW w \in Worker, pc[w] \in Looping
  PROVE  LET e == job[w] IN
         /\ Typed /\ e \in Execution
         /\ \/ status[e] = "running" /\ claimedBy[e] = w
            \/ status[e] = "failed" /\ interrupted[e]
         /\ \A i \in DOMAIN steps[e] : /\ steps[e][i].approval # "pending"
                                       /\ steps[e][i].status # "waiting_for_approval"
<1>1. Typed /\ job[w] \in Execution
  BY DEF Coupled, Owned, Typed, WorkerOK
<1>2. \/ status[job[w]] = "running" /\ claimedBy[job[w]] = w
      \/ status[job[w]] = "failed" /\ interrupted[job[w]]
  BY DEF Coupled, Owned, RunnerOwnsOrInterrupted
<1>3. CoupledRow(status[job[w]], steps[job[w]])
  BY <1>1 DEF Coupled, RowsCoupled
<1> QED
  BY <1>1, <1>2, <1>3 DEF CoupledRow

\* A worker moves to label l, and executions only get more steps.
LEMMA OwnStepKept ==
  ASSUME Coupled, NEW w \in Worker, NEW l, pc' = [pc EXCEPT ![w] = l], UNCHANGED job,
         \A v \in Worker \ {w} : step'[v] = step[v],
         \A f \in Execution : DOMAIN steps[f] \subseteq DOMAIN steps'[f],
         l \in {"start", "invoke", "record", "handoff"} =>
           step'[w] \in DOMAIN steps'[job[w]]
  PROVE  AtOwnStep'
<1>1. pc \in [Worker -> ProgramCounter]
  BY DEF Coupled, Owned, Typed, TypeOK, WorkersTypeOK
<1>2. \A v \in Worker : pc[v] \in Looping => job[v] \in Execution
  BY DEF Coupled, Owned, Typed, WorkerOK
<1>3. \A v \in Worker \ {w} : pc'[v] = pc[v]
  BY <1>1
<1>4. pc'[w] = l
  BY <1>1
<1> QED
  BY <1>2, <1>3, <1>4 DEF Coupled, AtOwnStep, Looping

\* Step i of e changes, and keeps its approval: neither before nor after is it
\* waiting.
LEMMA StepNotWaiting ==
  ASSUME RowsCoupled, NEW e \in Execution, NEW i, NEW s, UNCHANGED status,
         OnlyStep(e, i, s, steps[e][i].approval), s # "waiting_for_approval",
         i \in DOMAIN steps[e] => steps[e][i].status # "waiting_for_approval"
  PROVE  RowsCoupled'
<1>1. ASSUME NEW f \in Execution PROVE CoupledRow(status[f], steps'[f])
  <2>1. CoupledRow(status[f], steps[f])
    BY DEF RowsCoupled
  <2>2. CASE f # e
    BY <2>1, <2>2 DEF OnlyStep
  <2>3. CASE f = e
    <3>1. /\ DOMAIN steps'[e] = DOMAIN steps[e]
          /\ \A j \in DOMAIN steps[e] :
               /\ steps'[e][j].approval = steps[e][j].approval
               /\ steps'[e][j].status = "waiting_for_approval"
                    <=> steps[e][j].status = "waiting_for_approval"
      BY DEF OnlyStep
    <3> QED
      BY <2>1, <2>3, <3>1 DEF CoupledRow
  <2> QED
    BY <2>2, <2>3
<1> QED
  BY <1>1 DEF RowsCoupled

LEMMA RunCoupled ==
  ASSUME Coupled, NEW w \in Worker, Run(w) \/ Crash(w) \/ HeartbeatCancels(w)
  PROVE  RowsCoupled' /\ AtOwnStep'
<1> DEFINE Goal == RowsCoupled' /\ AtOwnStep'
           e == job[w]
           Own == {"start", "invoke", "record", "handoff"}
<1>0. Typed /\ RowsCoupled
  BY DEF Coupled, Owned
<1>1. ASSUME UNCHANGED <<status, steps, job>>, \A v \in Worker : step'[v] = step[v],
             NEW l, pc' = [pc EXCEPT ![w] = l],
             l \in Own => pc[w] \in Own
      PROVE  Goal
  <2>1. RowsCoupled'
    BY <1>0, <1>1 DEF RowsCoupled
  <2>2. l \in Own => step'[w] \in DOMAIN steps'[job[w]]
    BY <1>1 DEF Coupled, AtOwnStep
  <2> QED
    BY <1>1, <2>1, <2>2, OwnStepKept
<1>2. CASE \/ LoadExecution(w) \/ CheckCancellation(w) \/ InvokeNode(w) \/ InvokeFails(w)
           \/ HandoffRefused(w) \/ Raise(w) \/ SaveFailureContext(w)
           \/ OwnershipLost(w) \/ Crash(w)
  <2>1. /\ UNCHANGED <<status, steps, job, step>>
        /\ \E l \in ProgramCounter : /\ pc' = [pc EXCEPT ![w] = l]
                                     /\ l \in Own => pc[w] \in Own
    <3> USE DEF GoTo, rowVars, localVars, ProgramCounter, Looping, Ending
    <3>1. CASE LoadExecution(w)
      BY <3>1 DEF LoadExecution
    <3>2. CASE CheckCancellation(w)
      <4>1. UNCHANGED <<status, steps, job, step>>
        BY <3>2 DEF CheckCancellation
      <4>2. pc' = [pc EXCEPT ![w] = "finalize"] \/ pc' = [pc EXCEPT ![w] = "create"]
        BY <3>2 DEF CheckCancellation
      <4> QED
        BY <4>1, <4>2
    <3>3. CASE InvokeNode(w) \/ InvokeFails(w)
      BY <3>3 DEF InvokeNode, InvokeFails
    <3>4. CASE HandoffRefused(w)
      BY <3>4 DEF HandoffRefused
    <3>5. CASE Raise(w)
      BY <3>5 DEF Raise
    <3>6. CASE SaveFailureContext(w)
      <4>1. UNCHANGED <<status, steps, job, step>>
        BY <3>6 DEF SaveFailureContext
      <4>2. pc' = [pc EXCEPT ![w] = "done"] \/ pc' = [pc EXCEPT ![w] = "finalize"]
        BY <3>6 DEF SaveFailureContext
      <4> QED
        BY <4>1, <4>2
    <3>7. CASE OwnershipLost(w) \/ Crash(w)
      BY <3>7 DEF OwnershipLost, Crash
    <3> QED
      BY <1>2, <3>1, <3>2, <3>3, <3>4, <3>5, <3>6, <3>7
  <2> QED
    BY <1>1, <2>1
<1>3. CASE CreateStep(w)
  <2>1. /\ pc[w] \in Looping /\ UNCHANGED <<status, job>>
        /\ \A v \in Worker \ {w} : step'[v] = step[v]
        /\ \E l \in ProgramCounter : pc' = [pc EXCEPT ![w] = l]
    BY <1>3 DEF CreateStep, Committed, GoTo, rowVars, ProgramCounter, Looping, Ending
  <2>2. LET k == step'[w] IN
        /\ k \notin DOMAIN steps[e] /\ DOMAIN steps'[e] = DOMAIN steps[e] \cup {k}
        /\ \A f \in Execution \ {e} : steps'[f] = steps[f]
        /\ \A j \in DOMAIN steps[e] : steps'[e][j] = steps[e][j]
        /\ steps'[e][k].status = "pending" /\ steps'[e][k].approval = "none"
    BY <1>0, <1>3, CreateEffect
  <2>3. /\ e \in Execution /\ status[e] # "waiting_for_approval"
        /\ \A i \in DOMAIN steps[e] : /\ steps[e][i].approval # "pending"
                                      /\ steps[e][i].status # "waiting_for_approval"
    BY <2>1, LoopFacts
  <2> HIDE DEF e
  <2>4. CoupledRow(status[e], steps'[e])
    BY <2>2, <2>3 DEF CoupledRow
  <2>5. RowsCoupled'
    BY <1>0, <2>1, <2>2, <2>4 DEF RowsCoupled
  <2>6. \A f \in Execution : DOMAIN steps[f] \subseteq DOMAIN steps'[f]
    BY <2>2
  <2>7. step'[w] \in DOMAIN steps'[job[w]]
    BY <2>2 DEF e
  <2> QED
    BY <2>1, <2>5, <2>6, <2>7, OwnStepKept
<1>4. ASSUME NEW s \in StepStatus \ {"waiting_for_approval"},
             OnlyStep(e, step[w], s, steps[e][step[w]].approval),
             UNCHANGED <<status, job, step>>, e \in Execution,
             step[w] \in DOMAIN steps[e] =>
               steps[e][step[w]].status # "waiting_for_approval",
             NEW l, pc' = [pc EXCEPT ![w] = l], l \in Own => pc[w] \in Own
      PROVE  Goal
  <2> HIDE DEF e
  <2>1. RowsCoupled'
    BY <1>0, <1>4, StepNotWaiting
  <2>2. \A f \in Execution : DOMAIN steps[f] \subseteq DOMAIN steps'[f]
    BY <1>4 DEF OnlyStep
  <2>3. l \in Own => step'[w] \in DOMAIN steps'[job[w]]
    <3>1. pc[w] \in Own => step[w] \in DOMAIN steps[e]
      BY DEF Coupled, AtOwnStep, e
    <3> QED
      BY <1>4, <2>2, <3>1 DEF e
  <2> QED
    BY <1>4, <2>1, <2>2, <2>3, OwnStepKept
<1>5. CASE StartStep(w) \/ RecordCompleted(w)
  <2>1. PICK s \in {"running", "completed"} : SetStep(w, s)
    BY <1>5 DEF StartStep, RecordCompleted
  <2>2. /\ UNCHANGED <<status, job, step>> /\ pc[w] \in {"start", "record"}
        /\ \E l \in ProgramCounter : pc' = [pc EXCEPT ![w] = l]
    <3> USE DEF GoTo, Committed, rowVars, localVars, ProgramCounter, Looping, Ending
    <3>1. CASE StartStep(w)
      BY <3>1 DEF StartStep
    <3>2. CASE RecordCompleted(w)
      BY <3>2 DEF RecordCompleted
    <3> QED
      BY <1>5, <3>1, <3>2
  <2>3. pc[w] \in Looping
    BY <2>2 DEF Looping
  <2>4. OnlyStep(e, step[w], s, steps[e][step[w]].approval)
    BY <1>0, <2>1, <2>3, SetStepEffect DEF StepStatus
  <2>5. e \in Execution /\ \A i \in DOMAIN steps[e] :
          steps[e][i].status # "waiting_for_approval"
    BY <2>3, LoopFacts
  <2> HIDE DEF e
  <2>6. s \in StepStatus \ {"waiting_for_approval"}
    BY <2>1 DEF StepStatus
  <2> QED
    BY <1>4, <2>2, <2>4, <2>5, <2>6
<1>6. CASE MarkStepFailed(w) \/ HeartbeatCancels(w)
  <2>1. /\ pc[w] = "mark_failed" /\ UNCHANGED <<status, job, step>>
        /\ pc' = [pc EXCEPT ![w] = "save_context"]
        /\ FailOpenStep(w) \/ UNCHANGED steps
    BY <1>6 DEF MarkStepFailed, HeartbeatCancels, GoTo, rowVars
  <2>2. e \in Execution
    BY <1>0, <2>1 DEF Typed, WorkerOK, Ending
  <2>3. CASE UNCHANGED steps
    BY <1>1, <2>1, <2>3
  <2>4. CASE ~UNCHANGED steps
    <3>1. /\ steps[e][step[w]].status \in {"pending", "running"}
          /\ SetStep(w, "failed")
      BY <2>1, <2>4 DEF FailOpenStep
    <3>2. OnlyStep(e, step[w], "failed", steps[e][step[w]].approval)
      BY <1>0, <2>1, <3>1, SetStepEffect DEF StepStatus, Ending
    <3>3. "failed" \in StepStatus \ {"waiting_for_approval"}
      BY DEF StepStatus
    <3> HIDE DEF e
    <3> QED
      BY <1>4, <2>1, <2>2, <3>1, <3>2, <3>3
  <2> QED
    BY <2>3, <2>4
<1>7. CASE ApprovalHandoff(w)
  <2>1. /\ pc[w] = "handoff" /\ UNCHANGED <<job, step>>
        /\ status[e] = "running"
        /\ status' = [status EXCEPT ![e] = "waiting_for_approval"]
        /\ \E l \in {"done", "mark_failed"} : pc' = [pc EXCEPT ![w] = l]
    BY <1>7 DEF ApprovalHandoff, HandoffAllowed, Committed, GoTo, localVars
  <2>2. OnlyStep(e, step[w], "waiting_for_approval", "pending")
    BY <1>0, <1>7, HandoffEffect
  <2>3. /\ e \in Execution
        /\ \A i \in DOMAIN steps[e] : /\ steps[e][i].approval # "pending"
                                      /\ steps[e][i].status # "waiting_for_approval"
    BY <2>1, LoopFacts DEF Looping
  <2>4. step[w] \in DOMAIN steps[e]
    BY <2>1 DEF Coupled, AtOwnStep
  <2>5. status \in [Execution -> Status]
    BY <1>0 DEF Typed, TypeOK, ExecutionsTypeOK
  <2> HIDE DEF e
  <2>6. CoupledRow("waiting_for_approval", steps'[e])
    BY <2>2, <2>3, <2>4 DEF CoupledRow, OnlyStep
  <2>7. RowsCoupled'
    BY <1>0, <2>1, <2>2, <2>3, <2>5, <2>6 DEF RowsCoupled, OnlyStep
  <2>8. \A f \in Execution : DOMAIN steps[f] \subseteq DOMAIN steps'[f]
    BY <2>2 DEF OnlyStep
  <2> QED
    BY <2>1, <2>7, <2>8, OwnStepKept
<1>8. CASE Finalize(w)
  <2>1. /\ pc[w] = "finalize" /\ UNCHANGED <<job, step>>
        /\ status[e] = "running"
        /\ status' = [status EXCEPT ![e] = FinalStatus(w, e)]
        /\ pc' = [pc EXCEPT ![w] = "done"]
        /\ \/ UNCHANGED steps
           \/ steps' = [steps EXCEPT ![e] = CancelApprovals(CloseSteps(e,
                {"pending", "running", "waiting_for_approval"}, "cancelled"))]
    BY <1>8 DEF Finalize, OwnsLiveLease, GoTo, localVars
  <2>2. e \in Execution /\ FinalStatus(w, e) # "waiting_for_approval"
    BY <1>0, <2>1 DEF Typed, WorkerOK, Ending, FinalStatus
  <2>3. CoupledRow(status[e], steps[e])
    BY <1>0, <2>2 DEF RowsCoupled
  <2>4. UNCHANGED steps \/
          /\ Closing(e, {"pending", "running", "waiting_for_approval"}, "cancelled")
          /\ \A i \in DOMAIN steps[e] :
               steps'[e][i].approval =
                 IF steps[e][i].approval = "pending" THEN "cancelled"
                                                     ELSE steps[e][i].approval
    <3> HIDE DEF e
    <3> QED BY <1>0, <2>1, <2>2, CancelEffect DEF StepStatus
  <2>5. status \in [Execution -> Status]
    BY <1>0 DEF Typed, TypeOK, ExecutionsTypeOK
  <2> HIDE DEF e
  <2>6. CoupledRow(FinalStatus(w, e), steps'[e])
    BY <2>1, <2>2, <2>3, <2>4 DEF CoupledRow, Closing
  <2>7. RowsCoupled'
    BY <1>0, <2>1, <2>2, <2>4, <2>5, <2>6 DEF RowsCoupled, Closing
  <2>8. \A f \in Execution : DOMAIN steps[f] \subseteq DOMAIN steps'[f]
    BY <2>4 DEF Closing
  <2> QED
    BY <2>1, <2>7, <2>8, OwnStepKept
<1> HIDE DEF Goal
<1>9. Goal
  BY <1>2, <1>3, <1>5, <1>6, <1>7, <1>8 DEF Run, Goal
<1> QED
  BY <1>9 DEF Goal

\* The row of e changes while no worker has e in the loop, or its steps stay.
LEMMA RequestCoupled ==
  ASSUME Coupled, NEW e \in Execution, Request(e)
  PROVE  RowsCoupled' /\ \A f \in Execution : DOMAIN steps[f] \subseteq DOMAIN steps'[f]
<1> DEFINE Goal == RowsCoupled' /\ \A f \in Execution : DOMAIN steps[f] \subseteq DOMAIN steps'[f]
<1> USE DEF rowVars, localVars
<1>0. /\ Typed /\ RowsCoupled /\ CoupledRow(status[e], steps[e])
      /\ status \in [Execution -> Status]
  BY DEF Coupled, Owned, RowsCoupled, Typed, TypeOK, ExecutionsTypeOK
<1>1. ASSUME NEW f \in Execution, NEW s \in Status \ {"waiting_for_approval"},
             status' = [status EXCEPT ![f] = s], UNCHANGED steps,
             status[f] # "waiting_for_approval"
      PROVE  Goal
  <2>1. CoupledRow(s, steps[f])
    BY <1>0, <1>1 DEF RowsCoupled, CoupledRow
  <2> QED
    BY <1>0, <1>1, <2>1 DEF RowsCoupled
<1>2. ASSUME UNCHANGED <<status, steps>> PROVE Goal
  BY <1>0, <1>2 DEF RowsCoupled
<1>3. CASE CreatePending(e)
  BY <1>1, <1>3 DEF CreatePending, Status
<1>4. CASE RequestCancellation(e)
  <2>1. CASE status[e] = "running"
    BY <1>2, <1>4, <2>1 DEF RequestCancellation, CancelledAtOnce
  <2>2. CASE status[e] = "pending"
    BY <1>1, <1>4, <2>2 DEF RequestCancellation, Status
  <2>3. CASE status[e] = "waiting_for_approval"
    <3>1. /\ status' = [status EXCEPT ![e] = "cancelled"]
          /\ steps' = [steps EXCEPT ![e] = CancelApprovals(
                         CloseSteps(e, {"waiting_for_approval"}, "cancelled"))]
      BY <1>4, <2>3 DEF RequestCancellation
    <3>2. /\ Closing(e, {"waiting_for_approval"}, "cancelled")
          /\ \A i \in DOMAIN steps[e] :
               steps'[e][i].approval =
                 IF steps[e][i].approval = "pending" THEN "cancelled"
                                                     ELSE steps[e][i].approval
      BY <1>0, <3>1, CancelEffect DEF StepStatus
    <3>3. CoupledRow("cancelled", steps'[e])
      BY <1>0, <3>2 DEF CoupledRow, Closing
    <3> QED
      BY <1>0, <3>1, <3>2, <3>3 DEF RowsCoupled, Closing
  <2> QED
    BY <1>4, <2>1, <2>2, <2>3 DEF RequestCancellation, CancelledAtOnce
<1>5. CASE ResolveEvent(e)
  BY <1>2, <1>5 DEF ResolveEvent
<1>6. ASSUME NEW d \in {"approved", "rejected"}, DecideApproval(e, d) PROVE Goal
  <2>1. PICK i \in DOMAIN steps[e] :
          /\ Decidable(e, i)
          /\ steps' = [steps EXCEPT ![e][i] =
               [@ EXCEPT !.approval = d, !.status = "completed"]]
          /\ status' = [status EXCEPT ![e] = "pending"]
    BY <1>6 DEF DecideApproval
  <2>2. OnlyStep(e, i, "completed", d)
    BY <1>0, <1>6, <2>1, DecisionEffect
  <2>3. \A j \in DOMAIN steps[e] : steps[e][j].approval = "pending" <=> j = i
    BY <1>0, <2>1 DEF CoupledRow, Decidable
  <2>4. CoupledRow("pending", steps'[e])
    BY <1>0, <1>6, <2>2, <2>3 DEF CoupledRow, OnlyStep
  <2> QED
    BY <1>0, <2>1, <2>2, <2>4 DEF RowsCoupled, OnlyStep
<1>7. ASSUME NEW r \in Execution, ReplayEvent(e, r) PROVE Goal
  BY <1>1, <1>7 DEF ReplayEvent, Status
<1> QED
  BY <1>3, <1>4, <1>5, <1>6, <1>7 DEF Request

LEMMA NextCoupled == Coupled /\ [Next]_vars => Coupled'
<1> SUFFICES ASSUME Coupled, [Next]_vars PROVE Coupled'
  OBVIOUS
<1> DEFINE Goal == RowsCoupled' /\ AtOwnStep'
<1>0. /\ Typed /\ RowsCoupled
      /\ pc \in [Worker -> ProgramCounter] /\ job \in [Worker -> Execution \cup {None}]
      /\ status \in [Execution -> Status]
  BY DEF Coupled, Owned, Typed, TypeOK, WorkersTypeOK, ExecutionsTypeOK
<1>1. Owned'
  BY NextOwned DEF Coupled
<1>2. ASSUME NEW w \in Worker, NEW e \in Execution, ClaimPending(w, e) PROVE Goal
  <2>1. /\ status[e] = "pending" /\ status' = [status EXCEPT ![e] = "running"]
        /\ pc' = [pc EXCEPT ![w] = "load"] /\ job' = [job EXCEPT ![w] = e]
        /\ UNCHANGED <<steps, step>>
    BY <1>2 DEF ClaimPending, Claimable, GoTo
  <2>2. CoupledRow("running", steps[e])
    BY <1>0, <2>1 DEF RowsCoupled, CoupledRow
  <2>3. RowsCoupled'
    BY <1>0, <2>1, <2>2 DEF RowsCoupled
  <2>4. \A v \in Worker \ {w} : pc'[v] = pc[v] /\ job'[v] = job[v]
    BY <1>0, <2>1
  <2>5. pc'[w] = "load"
    BY <1>0, <2>1
  <2>6. AtOwnStep'
    BY <2>1, <2>4, <2>5 DEF Coupled, AtOwnStep
  <2> QED
    BY <2>3, <2>6
<1>3. ASSUME UNCHANGED <<pc, job, step>>,
             \A f \in Execution : DOMAIN steps[f] \subseteq DOMAIN steps'[f]
      PROVE  AtOwnStep'
  <2>1. \A v \in Worker : pc[v] \in Looping => job[v] \in Execution
    BY <1>0 DEF Typed, WorkerOK
  <2> QED
    BY <1>3, <2>1 DEF Coupled, AtOwnStep, Looping
<1>4. ASSUME NEW e \in Execution, Request(e) PROVE Goal
  <2>1. UNCHANGED <<pc, job, step>>
    BY <1>4 DEF Request, CreatePending, RequestCancellation, ResolveEvent,
       DecideApproval, ReplayEvent, localVars
  <2> QED
    BY <1>3, <1>4, <2>1, RequestCoupled
<1>5. ASSUME NEW e \in Execution, CleanupExpired(e) PROVE Goal
  <2>1. /\ status[e] = "running" /\ status' = [status EXCEPT ![e] = "failed"]
        /\ steps' = [steps EXCEPT ![e] = CloseSteps(e, {"pending", "running"}, "failed")]
        /\ UNCHANGED <<pc, job, step>>
    BY <1>5 DEF CleanupExpired, Expired, localVars
  <2>2. /\ Closing(e, {"pending", "running"}, "failed")
        /\ \A i \in DOMAIN steps[e] : steps'[e][i].approval = steps[e][i].approval
    BY <1>0, <2>1, CloseEffect DEF StepStatus
  <2>3. CoupledRow(status[e], steps[e])
    BY <1>0 DEF RowsCoupled
  <2>4. CoupledRow("failed", steps'[e])
    BY <2>1, <2>2, <2>3 DEF CoupledRow, Closing
  <2>5. RowsCoupled'
    BY <1>0, <2>1, <2>2, <2>4 DEF RowsCoupled, Closing
  <2> QED
    BY <1>3, <2>1, <2>2, <2>5 DEF Closing
<1>6. ASSUME UNCHANGED <<status, steps, pc, job, step>> PROVE Goal
  BY <1>0, <1>3, <1>6 DEF RowsCoupled
<1>7. ASSUME NEW e \in Execution, LeaseExpires(e) PROVE Goal
  BY <1>6, <1>7 DEF LeaseExpires, localVars
<1>8. ASSUME UNCHANGED vars PROVE Goal
  BY <1>6, <1>8 DEF vars, rowVars, localVars
<1>9. Goal
  <2> HIDE DEF Goal
  <2>1. ASSUME NEW w \in Worker, Run(w) \/ Crash(w) \/ HeartbeatCancels(w)
        PROVE Goal
    BY <2>1, RunCoupled DEF Goal
  <2> QED
    BY <1>2, <1>4, <1>5, <1>7, <1>8, <2>1 DEF Next
<1> QED
  BY <1>1, <1>9 DEF Coupled

\* Execution, step and approval agree whatever interleaves: an execution waits
\* iff exactly one approval is pending, that of its one waiting step.
THEOREM ApprovalsAgree == Spec => []ApprovalCoupling
<1>1. Coupled => ApprovalCoupling
  BY CouplingOfRows DEF Coupled
<1> QED
  BY <1>1, InitCoupled, NextCoupled, PTL DEF Spec
-----------------------------------------------------------------------------
(* Open steps.  The owner of an execution has completed every step but the *)
(* one it is at, and closes that before it asks for the execution to end.  *)
(* A worker that fails its step after it gave the execution away finds     *)
(* the step closed, so it cannot fail a step of the next owner.            *)

Unfinished == {"pending", "running"}

Done(x) == x.status = "completed" /\ x.approval \in {"none", "approved", "rejected"}
AllDone(e) == \A i \in DOMAIN steps[e] : Done(steps[e][i])
NoneOpen(e) == \A i \in DOMAIN steps[e] : steps[e][i].status \notin Unfinished

\* None is open, but if the commit that fails the step can be lost.
Closed(e) == NoneOpen(e) \/ "mark_failed_lost" \in Fault

RowSettled(e) ==
  /\ status[e] \in {"absent", "pending", "completed"} => AllDone(e)
  /\ status[e] = "waiting_for_approval" =>
       \A i \in DOMAIN steps[e] :
         Done(steps[e][i]) \/ steps[e][i].status = "waiting_for_approval"
  /\ status[e] = "cancelled" => NoneOpen(e)
  /\ status[e] = "failed" /\ ~interrupted[e] => Closed(e)

\* All steps but the worker's own are done.
DoneBefore(w) ==
  \A i \in DOMAIN steps[job[w]] \ {step[w]} : Done(steps[job[w]][i])

OwnerSettled(w) ==
  /\ pc[w] \in {"load", "check", "create"} => AllDone(job[w])
  /\ pc[w] \in {"start", "invoke", "record", "handoff"} =>
       /\ DoneBefore(w)
       /\ steps[job[w]][step[w]].status \in Unfinished
       /\ steps[job[w]][step[w]].approval = "none"
  /\ pc[w] = "mark_failed" => DoneBefore(w)
  /\ pc[w] = "save_context" /\ outcome[w] = "failed" => Closed(job[w])
  /\ pc[w] = "finalize" /\ outcome[w] = "completed" => AllDone(job[w])
  /\ pc[w] = "finalize" /\ outcome[w] = "failed" => Closed(job[w])

\* A worker about to fail a step of an execution that is no longer its own.
StaleSettled(w) ==
  pc[w] = "mark_failed" =>
    \/ status[job[w]] = "failed"
    \/ step[w] \in DOMAIN steps[job[w]]
       /\ steps[job[w]][step[w]].status \notin Unfinished

WorkerSettled(w) ==
  pc[w] \in {"load"} \cup Looping \cup Ending =>
    IF claimedBy[job[w]] = w THEN OwnerSettled(w) ELSE StaleSettled(w)

Settled ==
  /\ Coupled
  /\ \A e \in Execution : RowSettled(e)
  /\ \A w \in Worker : WorkerSettled(w)

LEMMA SettledMeans == Settled => OpenStepsAccounted /\ CompletedMeansStepsCompleted
<1> SUFFICES ASSUME Settled, NEW e \in Execution, NEW i \in DOMAIN steps[e]
             PROVE  /\ steps[e][i].status \in {"pending", "running"} =>
                         \/ status[e] = "running"
                         \/ status[e] = "failed" /\ interrupted[e]
                         \/ status[e] = "failed" /\ "mark_failed_lost" \in Fault
                    /\ status[e] = "completed" =>
                         /\ steps[e][i].status = "completed"
                         /\ steps[e][i].approval \in {"none", "approved", "rejected"}
  BY DEF OpenStepsAccounted, CompletedMeansStepsCompleted
<1>1. status[e] \in Status
  BY DEF Settled, Coupled, Owned, Typed, TypeOK, ExecutionsTypeOK
<1>2. RowSettled(e)
  BY DEF Settled
<1> QED
  BY <1>1, <1>2 DEF RowSettled, AllDone, NoneOpen, Closed, Done, Unfinished, Status

LEMMA InitSettled == Init => Settled
<1> SUFFICES ASSUME Init PROVE Settled
  OBVIOUS
<1>1. \A e \in Execution : DOMAIN steps[e] = {} /\ status[e] = "absent"
  BY DEF Init
<1>2. \A e \in Execution : RowSettled(e)
  BY <1>1 DEF RowSettled, AllDone
<1>3. \A w \in Worker : WorkerSettled(w)
  BY DEF Init, WorkerSettled, Looping, Ending
<1> QED
  BY <1>2, <1>3, InitCoupled DEF Settled

\* Closed steps of e stay closed.
StayClosed(e) ==
  \A i \in DOMAIN steps[e] :
    /\ i \in DOMAIN steps'[e]
    /\ steps[e][i].status \notin Unfinished => steps'[e][i].status \notin Unfinished

\* A worker that did not move: its execution is as it was, or belongs to
\* another worker and its closed steps stay closed, or was interrupted.
LEMMA OtherSettled ==
  ASSUME NEW v \in Worker, WorkerSettled(v), UNCHANGED <<job[v], step[v], outcome[v], pc[v]>>,
         LET e == job[v] IN
           pc[v] \in {"load"} \cup Looping \cup Ending =>
             \/ /\ steps'[e] = steps[e] /\ status'[e] = status[e]
                /\ claimedBy'[e] = claimedBy[e]
             \/ /\ claimedBy'[e] # v /\ claimedBy[e] # v /\ StayClosed(e)
                /\ status[e] = "failed" => status'[e] = "failed"
             \/ claimedBy'[e] # v /\ status'[e] = "failed"
  PROVE  WorkerSettled(v)'
<1> SUFFICES ASSUME pc[v] \in {"load"} \cup Looping \cup Ending PROVE WorkerSettled(v)'
  BY DEF WorkerSettled
<1> DEFINE e == job[v]
<1>1. CASE /\ steps'[e] = steps[e] /\ status'[e] = status[e]
           /\ claimedBy'[e] = claimedBy[e]
  BY <1>1 DEF WorkerSettled, OwnerSettled, StaleSettled, AllDone, DoneBefore, Closed,
     NoneOpen, Done
<1>2. CASE /\ claimedBy'[e] # v /\ claimedBy[e] # v /\ StayClosed(e)
           /\ status[e] = "failed" => status'[e] = "failed"
  BY <1>2 DEF WorkerSettled, StaleSettled, StayClosed
<1>3. CASE claimedBy'[e] # v /\ status'[e] = "failed"
  BY <1>3 DEF WorkerSettled, StaleSettled
<1> QED
  BY <1>1, <1>2, <1>3

\* What is left to show of a worker's move: its execution, and the worker.
LEMMA MoveSettled ==
  ASSUME Settled, NEW w \in Worker, NEW l, pc' = [pc EXCEPT ![w] = l], UNCHANGED job,
         \A v \in Worker \ {w} : step'[v] = step[v] /\ outcome'[v] = outcome[v],
         NEW e \in Execution, e = job[w],
         \A f \in Execution \ {e} : /\ steps'[f] = steps[f] /\ status'[f] = status[f]
                                    /\ claimedBy'[f] = claimedBy[f]
                                    /\ interrupted'[f] = interrupted[f],
         \/ /\ steps'[e] = steps[e] /\ status'[e] = status[e]
            /\ claimedBy'[e] = claimedBy[e]
         \/ /\ claimedBy[e] \in {w, None} /\ claimedBy'[e] \in {w, None} /\ StayClosed(e)
            /\ status[e] = "failed" => status'[e] = "failed"
         \/ claimedBy'[e] = None /\ status'[e] = "failed",
         RowSettled(e)', WorkerSettled(w)'
  PROVE  (\A f \in Execution : RowSettled(f)') /\ (\A v \in Worker : WorkerSettled(v)')
<1>1. ASSUME NEW f \in Execution \ {e} PROVE RowSettled(f)'
  BY <1>1 DEF Settled, RowSettled, AllDone, NoneOpen, Closed, Done
<1>2. ASSUME NEW v \in Worker \ {w} PROVE WorkerSettled(v)'
  <2>1. pc \in [Worker -> ProgramCounter]
    BY DEF Settled, Coupled, Owned, Typed, TypeOK, WorkersTypeOK
  <2>2. UNCHANGED <<job[v], step[v], outcome[v], pc[v]>>
    BY <1>2, <2>1
  <2>3. pc[v] \in {"load"} \cup Looping \cup Ending => job[v] \in Execution
    BY DEF Settled, Coupled, Owned, Typed, WorkerOK
  <2>4. v # None /\ WorkerSettled(v)
    BY QueueAssumption DEF Settled
  <2> HIDE DEF Looping, Ending
  <2>5. CASE job[v] # e
    BY <1>2, <2>2, <2>3, <2>4, <2>5, OtherSettled
  <2>6. CASE job[v] = e
    BY <1>2, <2>2, <2>4, <2>6, OtherSettled
  <2> QED
    BY <2>5, <2>6
<1> QED
  BY <1>1, <1>2

\* Moves that show in no table but the contexts.
LEMMA QuietSettled ==
  ASSUME Settled, NEW w \in Worker,
         \/ LoadExecution(w) \/ CheckCancellation(w) \/ InvokeNode(w) \/ InvokeFails(w)
         \/ HandoffRefused(w) \/ Raise(w) \/ SaveFailureContext(w)
         \/ OwnershipLost(w) \/ Crash(w)
  PROVE  (\A f \in Execution : RowSettled(f)') /\ (\A v \in Worker : WorkerSettled(v)')
<1> DEFINE e == job[w]
<1>0. /\ Typed /\ WorkerSettled(w) /\ pc \in [Worker -> ProgramCounter]
      /\ outcome \in [Worker -> {"none", "completed", "failed", "cancelled", "abandoned"}]
      /\ Worker = DOMAIN pc
  BY DEF Settled, Coupled, Owned, Typed, TypeOK, WorkersTypeOK
<1>1. ASSUME UNCHANGED <<status, claimedBy, interrupted, steps, job, step>>,
             \A v \in Worker \ {w} : outcome'[v] = outcome[v],
             pc[w] \in {"load"} \cup Looping \cup Ending,
             NEW l, pc' = [pc EXCEPT ![w] = l],
             \/ l = "done"
             \/ /\ claimedBy[e] = w => OwnerSettled(w)'
                /\ claimedBy[e] # w => StaleSettled(w)'
      PROVE  (\A f \in Execution : RowSettled(f)') /\ (\A v \in Worker : WorkerSettled(v)')
  <2>1. e \in Execution
    BY <1>0, <1>1 DEF Typed, WorkerOK
  <2>2. RowSettled(e)'
    BY <1>1, <2>1 DEF Settled, RowSettled, AllDone, NoneOpen, Closed, Done
  <2>3. WorkerSettled(w)'
    <3>1. pc'[w] = l
      BY <1>0, <1>1
    <3> QED
      BY <1>1, <3>1 DEF WorkerSettled, Looping, Ending
  <2> QED
    BY <1>1, <2>1, <2>2, <2>3, MoveSettled
<1>2. CASE LoadExecution(w)
  <2>1. /\ UNCHANGED <<status, claimedBy, interrupted, steps, job, step>>
        /\ pc[w] = "load"
        /\ \/ pc' = [pc EXCEPT ![w] = "done"] /\ UNCHANGED outcome
           \/ /\ claimedBy[e] = w
              /\ \/ pc' = [pc EXCEPT ![w] = "check"] /\ UNCHANGED outcome
                 \/ /\ pc' = [pc EXCEPT ![w] = "finalize"]
                    /\ \E o \in {"completed", "failed"} : outcome' = [outcome EXCEPT ![w] = o]
    BY <1>2 DEF LoadExecution, GoTo, rowVars, localVars
  <2>2. CASE pc' = [pc EXCEPT ![w] = "done"] /\ UNCHANGED outcome
    BY <1>1, <2>1, <2>2 DEF Looping
  <2>3. CASE claimedBy[e] = w /\ (pc' = [pc EXCEPT ![w] = "check"] \/ pc' = [pc EXCEPT ![w] = "finalize"])
    <3>1. AllDone(e)
      BY <1>0, <2>1, <2>3 DEF WorkerSettled, OwnerSettled
    <3>2. AllDone(job[w])' /\ Closed(job[w])'
      BY <2>1, <3>1 DEF AllDone, Closed, NoneOpen, Done, Unfinished
    <3>3. pc'[w] \in {"check", "finalize"}
      BY <1>0, <2>3
    <3>4. OwnerSettled(w)'
      BY <3>2, <3>3 DEF OwnerSettled
    <3>5. \A v \in Worker \ {w} : outcome'[v] = outcome[v]
      BY <1>0, <2>1
    <3> QED
      BY <1>1, <2>1, <2>3, <3>4, <3>5
  <2> QED
    BY <2>1, <2>2, <2>3
<1>3. CASE CheckCancellation(w)
  <2>1. /\ UNCHANGED <<status, claimedBy, interrupted, steps, job, step>>
        /\ pc[w] = "check"
        /\ \E o \in {"cancelled", "none"} : outcome' = [outcome EXCEPT ![w] = o]
        /\ \/ pc' = [pc EXCEPT ![w] = "create"]
           \/ pc' = [pc EXCEPT ![w] = "finalize"] /\ outcome' = [outcome EXCEPT ![w] = "cancelled"]
    <3>1. UNCHANGED <<status, claimedBy, interrupted, steps, job, step>> /\ pc[w] = "check"
      BY <1>3 DEF CheckCancellation, rowVars
    <3>2. CASE status[e] = "running" /\ cancelRequested[e]
      BY <1>3, <3>1, <3>2 DEF CheckCancellation, GoTo
    <3>3. CASE ~(status[e] = "running" /\ cancelRequested[e])
      BY <1>3, <3>1, <3>3 DEF CheckCancellation, GoTo
    <3> QED
      BY <3>2, <3>3
  <2>2. /\ \A v \in Worker \ {w} : outcome'[v] = outcome[v]
        /\ pc'[w] = "create" \/ (pc'[w] = "finalize" /\ outcome'[w] = "cancelled")
    <3>1. \A v \in Worker \ {w} : outcome'[v] = outcome[v]
      BY <1>0, <2>1
    <3>2. CASE pc' = [pc EXCEPT ![w] = "create"]
      <4>1. pc'[w] = "create"
        BY <1>0, <3>2
      <4> QED
        BY <3>1, <4>1
    <3>3. CASE pc' = [pc EXCEPT ![w] = "finalize"] /\ outcome' = [outcome EXCEPT ![w] = "cancelled"]
      BY <1>0, <3>1, <3>3
    <3> QED
      BY <2>1, <3>2, <3>3
  <2>3. claimedBy[e] = w => OwnerSettled(w)'
    BY <1>0, <2>1, <2>2 DEF WorkerSettled, OwnerSettled, AllDone, Done, Looping
  <2>4. StaleSettled(w)'
    BY <2>2 DEF StaleSettled
  <2> QED
    BY <1>1, <2>1, <2>2, <2>3, <2>4 DEF Looping
<1>4. CASE InvokeNode(w)
  <2>1. /\ UNCHANGED <<status, claimedBy, interrupted, steps, job, step, outcome>>
        /\ pc[w] = "invoke" /\ pc' = [pc EXCEPT ![w] = "record"]
    BY <1>4 DEF InvokeNode, GoTo, rowVars
  <2>2. pc'[w] = "record"
    BY <1>0, <2>1
  <2>3. claimedBy[e] = w => OwnerSettled(w)'
    BY <1>0, <2>1, <2>2 DEF WorkerSettled, OwnerSettled, DoneBefore, Done, Looping
  <2>4. StaleSettled(w)'
    BY <2>2 DEF StaleSettled
  <2> QED
    BY <1>1, <2>1, <2>3, <2>4 DEF Looping
<1>5. CASE \/ InvokeFails(w) \/ Raise(w)
           \/ HandoffRefused(w) /\ pc' = [pc EXCEPT ![w] = "mark_failed"]
  <2>1. /\ UNCHANGED <<status, claimedBy, interrupted, steps, job, step>>
        /\ \A v \in Worker \ {w} : outcome'[v] = outcome[v]
        /\ pc[w] \in Looping /\ pc' = [pc EXCEPT ![w] = "mark_failed"]
    <3> USE DEF GoTo, rowVars, localVars, Looping
    <3>1. CASE InvokeFails(w) \/ Raise(w)
      BY <3>1 DEF InvokeFails, Raise
    <3>2. CASE HandoffRefused(w) /\ pc' = [pc EXCEPT ![w] = "mark_failed"]
      <4>1. \A v \in Worker \ {w} : outcome'[v] = outcome[v]
        BY <1>0, <3>2 DEF HandoffRefused
      <4> QED
        BY <3>2, <4>1 DEF HandoffRefused
    <3> QED
      BY <1>5, <3>1, <3>2
  <2>2. pc'[w] = "mark_failed"
    BY <1>0, <2>1
  <2>3. claimedBy[e] = w => OwnerSettled(w)'
    <3>1. claimedBy[e] = w => DoneBefore(w)
      BY <1>0, <2>1 DEF WorkerSettled, OwnerSettled, AllDone, DoneBefore, Looping
    <3> QED
      BY <2>1, <2>2, <3>1 DEF OwnerSettled, DoneBefore, Done
  <2>4. claimedBy[e] # w => StaleSettled(w)'
    BY <2>1, <2>2, LoopFacts DEF StaleSettled, Settled
  <2> QED
    BY <1>1, <2>1, <2>3, <2>4
<1>6. CASE HandoffRefused(w) /\ pc' # [pc EXCEPT ![w] = "mark_failed"]
  <2>1. /\ UNCHANGED <<status, claimedBy, interrupted, steps, job, step>>
        /\ pc[w] = "handoff" /\ pc' = [pc EXCEPT ![w] = "finalize"]
        /\ outcome' = [outcome EXCEPT ![w] = "cancelled"]
    BY <1>6 DEF HandoffRefused, GoTo, rowVars
  <2>2. /\ pc'[w] = "finalize" /\ outcome'[w] = "cancelled"
        /\ \A v \in Worker \ {w} : outcome'[v] = outcome[v]
    BY <1>0, <2>1
  <2>3. OwnerSettled(w)' /\ StaleSettled(w)'
    BY <2>2 DEF OwnerSettled, StaleSettled
  <2> QED
    BY <1>1, <2>1, <2>2, <2>3 DEF Looping
<1>7. CASE SaveFailureContext(w)
  <2>1. /\ UNCHANGED <<status, claimedBy, interrupted, steps, job, step, outcome>>
        /\ pc[w] = "save_context"
    BY <1>7 DEF SaveFailureContext, localVars
  <2>2. CASE outcome[w] = "abandoned"
    <3>1. pc' = [pc EXCEPT ![w] = "done"]
      BY <1>7, <2>2 DEF SaveFailureContext, GoTo
    <3> QED
      BY <1>1, <2>1, <3>1 DEF Ending
  <2>3. CASE outcome[w] # "abandoned"
    <3>1. pc' = [pc EXCEPT ![w] = "finalize"]
      BY <1>7, <2>3 DEF SaveFailureContext, GoTo
    <3>2. pc'[w] = "finalize" /\ outcome[w] = "failed"
      BY <1>0, <2>1, <2>3, <3>1 DEF Typed, WorkerOK
    <3>3. claimedBy[e] = w => OwnerSettled(w)'
      BY <1>0, <2>1, <3>2 DEF WorkerSettled, OwnerSettled, Closed, NoneOpen, Ending
    <3>4. StaleSettled(w)'
      BY <3>2 DEF StaleSettled
    <3> QED
      BY <1>1, <2>1, <3>1, <3>3, <3>4 DEF Ending
  <2> QED
    BY <2>2, <2>3
<1>8. CASE OwnershipLost(w) \/ Crash(w)
  <2>1. /\ UNCHANGED <<status, claimedBy, interrupted, steps, job, step, outcome>>
        /\ pc[w] \in {"load"} \cup Looping \cup Ending
        /\ pc' = [pc EXCEPT ![w] = "done"]
    BY <1>8 DEF OwnershipLost, Crash, GoTo, rowVars, localVars, Ending
  <2> QED
    BY <1>1, <2>1
<1> QED
  BY <1>2, <1>3, <1>4, <1>5, <1>6, <1>7, <1>8

\* Moves of a worker in the loop that change its own step.
LEMMA LoopSettled ==
  ASSUME Settled, NEW w \in Worker, CreateStep(w) \/ StartStep(w) \/ RecordCompleted(w)
  PROVE  (\A f \in Execution : RowSettled(f)') /\ (\A v \in Worker : WorkerSettled(v)')
<1> DEFINE e == job[w]
           i == step'[w]
<1>0. /\ Typed /\ Coupled /\ WorkerSettled(w) /\ pc \in [Worker -> ProgramCounter]
      /\ step \in [Worker -> Nat]
      /\ outcome \in [Worker -> {"none", "completed", "failed", "cancelled", "abandoned"}]
      /\ claimedBy \in [Execution -> Worker \cup {None}]
  BY DEF Settled, Coupled, Owned, Typed, TypeOK, WorkersTypeOK, ExecutionsTypeOK
<1>1. /\ UNCHANGED <<status, claimedBy, interrupted, job>> /\ pc[w] \in {"create", "start", "record"}
      /\ \A v \in Worker \ {w} : step'[v] = step[v] /\ outcome'[v] = outcome[v]
  <2> USE DEF rowVars, localVars
  <2>1. CASE CreateStep(w)
    BY <1>0, <2>1 DEF CreateStep
  <2>2. CASE StartStep(w)
    BY <2>2 DEF StartStep
  <2>3. CASE RecordCompleted(w)
    <3>1. UNCHANGED outcome \/ outcome' = [outcome EXCEPT ![w] = "completed"]
      BY <2>3 DEF RecordCompleted
    <3> QED
      BY <1>0, <2>3, <3>1 DEF RecordCompleted
  <2> QED
    BY <2>1, <2>2, <2>3
<1>2. /\ e \in Execution
      /\ \/ status[e] = "running" /\ claimedBy[e] = w
         \/ status[e] = "failed" /\ interrupted[e] /\ claimedBy[e] = None
  <2>1. /\ e \in Execution
        /\ \/ status[e] = "running" /\ claimedBy[e] = w
           \/ status[e] = "failed" /\ interrupted[e]
    BY <1>0, <1>1, LoopFacts DEF Looping
  <2>2. claimedBy[e] # None => status[e] = "running"
    BY <1>0, <2>1 DEF Coupled, Owned, OwnerOnlyRunning
  <2> QED
    BY <2>1, <2>2
<1>3. RowSettled(e)'
  BY <1>1, <1>2 DEF RowSettled
<1>4. CASE CreateStep(w)
  <2>1. /\ i \notin DOMAIN steps[e] /\ DOMAIN steps'[e] = DOMAIN steps[e] \cup {i}
        /\ \A f \in Execution \ {e} : steps'[f] = steps[f]
        /\ \A j \in DOMAIN steps[e] : steps'[e][j] = steps[e][j]
        /\ steps'[e][i].status = "pending" /\ steps'[e][i].approval = "none"
    BY <1>0, <1>4, CreateEffect
  <2>2. \E l \in {"start", "mark_failed"} : pc' = [pc EXCEPT ![w] = l]
    BY <1>4 DEF CreateStep, Committed, GoTo
  <2>3. pc'[w] \in {"start", "mark_failed"}
    BY <1>0, <2>2
  <2>4. ASSUME claimedBy[e] = w PROVE WorkerSettled(w)'
    <3>1. AllDone(e)
      BY <1>0, <1>4, <2>4 DEF CreateStep, WorkerSettled, OwnerSettled, Looping
    <3>2. DoneBefore(w)'
      BY <1>1, <2>1, <3>1 DEF DoneBefore, AllDone, Done
    <3>3. OwnerSettled(w)'
      BY <1>1, <2>1, <2>3, <3>2 DEF OwnerSettled, Unfinished
    <3> QED
      BY <1>1, <2>4, <3>3 DEF WorkerSettled
  <2>5. ASSUME claimedBy[e] # w PROVE WorkerSettled(w)'
    BY <1>1, <1>2, <2>3, <2>5 DEF WorkerSettled, StaleSettled
  <2>6. WorkerSettled(w)'
    BY <2>4, <2>5
  <2>7. StayClosed(e)
    BY <2>1 DEF StayClosed
  <2> HIDE DEF e, i
  <2>8. \/ /\ claimedBy[e] \in {w, None} /\ claimedBy'[e] \in {w, None} /\ StayClosed(e)
           /\ status[e] = "failed" => status'[e] = "failed"
        \/ claimedBy'[e] = None /\ status'[e] = "failed"
    BY <1>1, <1>2, <2>7
  <2> QED
    BY <1>1, <1>2, <1>3, <2>1, <2>2, <2>6, <2>8, MoveSettled DEF e
<1>5. ASSUME NEW s \in {"running", "completed"}, SetStep(w, s), UNCHANGED step,
             pc[w] \in {"start", "record"},
             NEW l, pc' = [pc EXCEPT ![w] = l],
             \/ s = "running" /\ l \in {"handoff", "invoke", "mark_failed"}
             \/ s = "completed" /\ l \in {"check", "mark_failed"}
             \/ s = "completed" /\ l = "finalize" /\ outcome'[w] = "completed"
      PROVE  (\A f \in Execution : RowSettled(f)') /\ (\A v \in Worker : WorkerSettled(v)')
  <2>1. OnlyStep(e, i, s, steps[e][i].approval)
    BY <1>0, <1>5, SetStepEffect DEF StepStatus, Looping
  <2>2. i \in DOMAIN steps[e]
    BY <1>0, <1>5 DEF Coupled, AtOwnStep
  <2>3. pc'[w] = l
    BY <1>0, <1>5
  <2>4. ASSUME claimedBy[e] = w PROVE OwnerSettled(w)' /\ steps[e][i].status \in Unfinished
    <3>1. /\ DoneBefore(w) /\ steps[e][i].status \in Unfinished
          /\ steps[e][i].approval = "none"
      BY <1>0, <1>5, <2>4 DEF WorkerSettled, OwnerSettled, Looping
    <3>2. \A j \in DOMAIN steps'[e] \ {i} : Done(steps'[e][j])
      BY <1>5, <2>1, <3>1 DEF DoneBefore, OnlyStep
    <3>3. DoneBefore(w)'
      BY <1>1, <3>2 DEF DoneBefore, Done
    <3>4. steps'[e][i].status = s /\ steps'[e][i].approval = "none"
      BY <2>1, <2>2, <3>1 DEF OnlyStep
    <3>5. s = "completed" => AllDone(e)'
      BY <1>1, <3>2, <3>4 DEF AllDone, Done
    <3>6. OwnerSettled(w)'
      BY <1>1, <1>5, <2>3, <3>3, <3>4, <3>5 DEF OwnerSettled, Unfinished
    <3> QED
      BY <3>1, <3>6
  <2>5. WorkerSettled(w)'
    <3>1. CASE claimedBy[e] = w
      BY <1>1, <2>4, <3>1 DEF WorkerSettled
    <3>2. CASE claimedBy[e] # w
      BY <1>1, <1>2, <3>2 DEF WorkerSettled, StaleSettled
    <3> QED
      BY <3>1, <3>2
  <2> HIDE DEF i
  <2>6. claimedBy[e] = w => StayClosed(e)
    BY <2>1, <2>4 DEF StayClosed, OnlyStep
  <2> HIDE DEF e
  <2>7. \/ /\ claimedBy[e] \in {w, None} /\ claimedBy'[e] \in {w, None} /\ StayClosed(e)
           /\ status[e] = "failed" => status'[e] = "failed"
        \/ claimedBy'[e] = None /\ status'[e] = "failed"
    BY <1>1, <1>2, <2>6
  <2>8. \A f \in Execution \ {e} : steps'[f] = steps[f]
    BY <2>1 DEF e, OnlyStep
  <2> QED
    BY <1>1, <1>2, <1>3, <1>5, <2>5, <2>7, <2>8, MoveSettled DEF e
<1>6. CASE StartStep(w)
  <2>1. /\ SetStep(w, "running") /\ UNCHANGED step /\ pc[w] = "start"
        /\ \E l \in {"handoff", "invoke", "mark_failed"} : pc' = [pc EXCEPT ![w] = l]
    BY <1>6 DEF StartStep, Committed, GoTo, localVars
  <2> QED
    BY <1>5, <2>1
<1>7. CASE RecordCompleted(w)
  <2>1. /\ SetStep(w, "completed") /\ UNCHANGED step /\ pc[w] = "record"
        /\ \/ \E l \in {"check", "mark_failed"} : pc' = [pc EXCEPT ![w] = l]
           \/ /\ pc' = [pc EXCEPT ![w] = "finalize"]
              /\ outcome' = [outcome EXCEPT ![w] = "completed"]
    BY <1>7 DEF RecordCompleted, Committed, GoTo, localVars
  <2>2. CASE \E l \in {"check", "mark_failed"} : pc' = [pc EXCEPT ![w] = l]
    BY <1>5, <2>1, <2>2
  <2>3. CASE /\ pc' = [pc EXCEPT ![w] = "finalize"]
             /\ outcome' = [outcome EXCEPT ![w] = "completed"]
    <3>1. outcome'[w] = "completed"
      BY <1>0, <2>3
    <3> QED
      BY <1>5, <2>1, <2>3, <3>1
  <2> QED
    BY <2>1, <2>2, <2>3
<1> QED
  BY <1>4, <1>6, <1>7

\* The except clause: an open step is failed, and only the owner finds one.
LEMMA FailSettled ==
  ASSUME Settled, NEW w \in Worker, MarkStepFailed(w) \/ HeartbeatCancels(w)
  PROVE  (\A f \in Execution : RowSettled(f)') /\ (\A v \in Worker : WorkerSettled(v)')
<1> DEFINE e == job[w]
           i == step[w]
<1>0. /\ Typed /\ WorkerSettled(w) /\ pc \in [Worker -> ProgramCounter]
      /\ outcome \in [Worker -> {"none", "completed", "failed", "cancelled", "abandoned"}]
      /\ claimedBy \in [Execution -> Worker \cup {None}]
      /\ status \in [Execution -> Status]
  BY DEF Settled, Coupled, Owned, Typed, TypeOK, WorkersTypeOK, ExecutionsTypeOK
<1>1. /\ pc[w] = "mark_failed" /\ UNCHANGED <<status, claimedBy, interrupted, job, step>>
      /\ pc' = [pc EXCEPT ![w] = "save_context"]
      /\ FailOpenStep(w) \/ UNCHANGED steps
      /\ \/ outcome' = [outcome EXCEPT ![w] = "abandoned"]
         \/ /\ outcome' = [outcome EXCEPT ![w] = "failed"]
            /\ FailOpenStep(w) \/ "mark_failed_lost" \in Fault
  BY DEF MarkStepFailed, HeartbeatCancels, GoTo, rowVars
<1>2. /\ e \in Execution /\ pc'[w] = "save_context"
      /\ \A v \in Worker \ {w} : outcome'[v] = outcome[v]
      /\ \/ outcome'[w] = "abandoned"
         \/ FailOpenStep(w) \/ "mark_failed_lost" \in Fault
  <2>1. e \in Execution /\ pc'[w] = "save_context"
    BY <1>0, <1>1 DEF Typed, WorkerOK, Ending
  <2>2. CASE outcome' = [outcome EXCEPT ![w] = "abandoned"]
    BY <1>0, <2>1, <2>2
  <2>3. CASE /\ outcome' = [outcome EXCEPT ![w] = "failed"]
             /\ FailOpenStep(w) \/ "mark_failed_lost" \in Fault
    BY <1>0, <2>1, <2>3
  <2> QED
    BY <1>1, <2>2, <2>3
<1>3. UNCHANGED steps \/ ( /\ OnlyStep(e, i, "failed", steps[e][i].approval)
                           /\ i \in DOMAIN steps[e] /\ steps[e][i].status \in Unfinished )
  <2>1. CASE ~UNCHANGED steps
    <3>1. /\ i \in DOMAIN steps[e] /\ steps[e][i].status \in Unfinished
          /\ SetStep(w, "failed")
      BY <1>1, <2>1 DEF FailOpenStep, Unfinished
    <3> QED
      BY <1>0, <1>1, <3>1, SetStepEffect DEF StepStatus, Ending
  <2> QED
    BY <2>1
<1>4. RowSettled(e)'
  <2>1. RowSettled(e)
    BY <1>2 DEF Settled
  <2>2. CASE UNCHANGED steps
    BY <1>1, <2>1, <2>2 DEF RowSettled, AllDone, NoneOpen, Closed, Done
  <2>3. CASE /\ OnlyStep(e, i, "failed", steps[e][i].approval)
             /\ i \in DOMAIN steps[e] /\ steps[e][i].status \in Unfinished
    <3>1. ~AllDone(e) /\ ~NoneOpen(e)
      BY <2>3 DEF AllDone, NoneOpen, Done, Unfinished
    <3>2. status[e] # "waiting_for_approval"
      BY <2>1, <2>3 DEF RowSettled, Done, Unfinished
    <3> QED
      BY <1>1, <2>1, <3>1, <3>2 DEF RowSettled, Closed
  <2> QED
    BY <1>3, <2>2, <2>3
<1>5. ASSUME claimedBy[e] = w, FailOpenStep(w) PROVE NoneOpen(e)'
  <2>1. DoneBefore(w)
    BY <1>0, <1>1, <1>5 DEF WorkerSettled, OwnerSettled, Ending
  <2>2. i \in DOMAIN steps'[e] => steps'[e][i].status \notin Unfinished
    <3>1. CASE i \in DOMAIN steps[e] /\ steps[e][i].status \in Unfinished
      <4>1. SetStep(w, "failed")
        BY <1>5, <3>1 DEF FailOpenStep, Unfinished
      <4>2. OnlyStep(e, i, "failed", steps[e][i].approval)
        BY <1>0, <1>1, <4>1, SetStepEffect DEF StepStatus, Ending
      <4> QED
        BY <3>1, <4>2 DEF OnlyStep, Unfinished
    <3>2. CASE ~(i \in DOMAIN steps[e] /\ steps[e][i].status \in Unfinished)
      <4>1. UNCHANGED steps
        BY <1>5, <3>2 DEF FailOpenStep, Unfinished
      <4> QED
        BY <3>2, <4>1
    <3> QED
      BY <3>1, <3>2
  <2>3. \A j \in DOMAIN steps'[e] \ {i} : steps'[e][j].status \notin Unfinished
    BY <1>3, <2>1 DEF DoneBefore, Done, OnlyStep, Unfinished
  <2> QED
    BY <1>1, <2>2, <2>3 DEF NoneOpen
<1>6. WorkerSettled(w)'
  <2>1. claimedBy[e] = w /\ outcome'[w] = "failed" => Closed(job[w])'
    BY <1>1, <1>2, <1>5 DEF Closed
  <2> QED
    BY <1>1, <1>2, <2>1 DEF WorkerSettled, OwnerSettled, StaleSettled
<1>7. \/ /\ steps'[e] = steps[e] /\ status'[e] = status[e] /\ claimedBy'[e] = claimedBy[e]
      \/ /\ claimedBy[e] \in {w, None} /\ claimedBy'[e] \in {w, None} /\ StayClosed(e)
         /\ status[e] = "failed" => status'[e] = "failed"
  <2>1. CASE UNCHANGED steps
    BY <1>1, <2>1
  <2>2. CASE /\ OnlyStep(e, i, "failed", steps[e][i].approval)
             /\ i \in DOMAIN steps[e] /\ steps[e][i].status \in Unfinished
    <3>1. StayClosed(e)
      BY <2>2 DEF StayClosed, OnlyStep, Unfinished
    <3>2. claimedBy[e] # w => status[e] = "failed"
      BY <1>0, <1>1, <2>2 DEF WorkerSettled, StaleSettled, Ending
    <3>3. claimedBy[e] # None => status[e] = "running"
      BY <1>2 DEF Settled, Coupled, Owned, OwnerOnlyRunning
    <3> QED
      BY <1>1, <3>1, <3>2, <3>3
  <2> QED
    BY <1>3, <2>1, <2>2
<1>8. \A f \in Execution \ {e} : steps'[f] = steps[f]
  BY <1>3 DEF OnlyStep
<1> QED
  BY <1>1, <1>2, <1>4, <1>6, <1>7, <1>8, MoveSettled

\* The moves that give an execution away.
LEMMA EndSettled ==
  ASSUME Settled, NEW w \in Worker, ApprovalHandoff(w) \/ Finalize(w)
  PROVE  (\A f \in Execution : RowSettled(f)') /\ (\A v \in Worker : WorkerSettled(v)')
<1> DEFINE e == job[w]
           i == step[w]
<1>0. /\ Typed /\ Coupled /\ WorkerSettled(w) /\ pc \in [Worker -> ProgramCounter]
      /\ status \in [Execution -> Status]
      /\ claimedBy \in [Execution -> Worker \cup {None}] /\ w # None
  BY QueueAssumption
     DEF Settled, Coupled, Owned, Typed, TypeOK, WorkersTypeOK, ExecutionsTypeOK
<1>1. /\ pc[w] \in {"handoff", "finalize"} /\ UNCHANGED <<job, step, outcome, interrupted>>
      /\ status[e] = "running" /\ claimedBy' = [claimedBy EXCEPT ![e] = None]
      /\ \E s \in Status : status' = [status EXCEPT ![e] = s]
  <2>1. CASE ApprovalHandoff(w)
    BY <2>1 DEF ApprovalHandoff, HandoffAllowed, Release, localVars, Status
  <2>2. CASE Finalize(w)
    <3>1. FinalStatus(w, e) \in Status
      BY <1>0, <2>2 DEF Finalize, FinalStatus, Typed, WorkerOK, Status
    <3> QED
      BY <2>2, <3>1 DEF Finalize, OwnsLiveLease, Release, localVars
  <2> QED
    BY <2>1, <2>2
<1>2. /\ e \in Execution /\ claimedBy'[e] = None
      /\ \A f \in Execution \ {e} : status'[f] = status[f] /\ claimedBy'[f] = claimedBy[f]
  BY <1>0, <1>1 DEF Typed, WorkerOK, Looping, Ending
<1>3. CASE ApprovalHandoff(w)
  <2>1. \E l \in {"done", "mark_failed"} : pc' = [pc EXCEPT ![w] = l]
    BY <1>3 DEF ApprovalHandoff, Committed, GoTo
  <2>2. pc[w] = "handoff" /\ status'[e] = "waiting_for_approval"
    BY <1>0, <1>2, <1>3 DEF ApprovalHandoff
  <2>3. OnlyStep(e, i, "waiting_for_approval", "pending") /\ i \in DOMAIN steps[e]
    BY <1>0, <1>3, <2>2, HandoffEffect DEF Coupled, AtOwnStep
  <2>4. claimedBy[e] = w
    BY <1>0, <1>1, <2>2, LoopFacts DEF Looping
  <2>5. DoneBefore(w)
    BY <1>0, <2>2, <2>4 DEF WorkerSettled, OwnerSettled, Looping
  <2>6. RowSettled(e)'
    <3>1. \A j \in DOMAIN steps'[e] :
            Done(steps'[e][j]) \/ steps'[e][j].status = "waiting_for_approval"
      BY <2>3, <2>5 DEF DoneBefore, OnlyStep
    <3> QED
      BY <1>1, <2>2, <3>1 DEF RowSettled, Done
  <2>7. WorkerSettled(w)'
    BY <1>0, <1>1, <1>2, <2>1, <2>3 DEF WorkerSettled, StaleSettled, OnlyStep, Unfinished
  <2>8. StayClosed(e) /\ \A f \in Execution \ {e} : steps'[f] = steps[f]
    BY <2>3 DEF StayClosed, OnlyStep, Unfinished
  <2> QED
    BY <1>1, <1>2, <2>1, <2>4, <2>6, <2>7, <2>8, MoveSettled
<1>4. CASE Finalize(w)
  <2>1. /\ pc[w] = "finalize" /\ pc' = [pc EXCEPT ![w] = "done"]
        /\ claimedBy[e] = w /\ status'[e] = FinalStatus(w, e)
        /\ IF FinalStatus(w, e) = "cancelled"
             THEN steps' = [steps EXCEPT ![e] = CancelApprovals(CloseSteps(e,
                    {"pending", "running", "waiting_for_approval"}, "cancelled"))]
             ELSE UNCHANGED steps
    BY <1>0, <1>2, <1>4 DEF Finalize, OwnsLiveLease, GoTo
  <2>2. outcome[w] \in {"completed", "failed", "cancelled"} /\ OwnerSettled(w)
    BY <1>0, <2>1 DEF Typed, WorkerOK, WorkerSettled, Ending
  <2>3. WorkerSettled(w)'
    <3>1. pc'[w] = "done"
      BY <1>0, <2>1
    <3> QED
      BY <3>1 DEF WorkerSettled, Looping, Ending
  <2>4. CASE FinalStatus(w, e) = "cancelled"
    <3>1. Closing(e, {"pending", "running", "waiting_for_approval"}, "cancelled")
      <4> HIDE DEF e
      <4> QED BY <1>0, <1>2, <2>1, <2>4, CancelEffect DEF StepStatus
    <3>2. NoneOpen(e)'
      BY <1>1, <3>1 DEF NoneOpen, Closing, Unfinished
    <3>3. RowSettled(e)'
      BY <1>1, <2>1, <2>4, <3>2 DEF RowSettled
    <3>4. StayClosed(e) /\ \A f \in Execution \ {e} : steps'[f] = steps[f]
      BY <3>1 DEF StayClosed, Closing, Unfinished
    <3> QED
      BY <1>1, <1>2, <2>1, <2>3, <3>3, <3>4, MoveSettled
  <2>5. CASE FinalStatus(w, e) # "cancelled"
    <3>1. UNCHANGED steps /\ status'[e] = outcome[w] /\ outcome[w] \in {"completed", "failed"}
      BY <2>1, <2>2, <2>5 DEF FinalStatus
    <3>2. outcome[w] = "completed" => AllDone(e)'
      BY <1>1, <2>1, <2>2, <3>1 DEF OwnerSettled, AllDone, Done
    <3>3. outcome[w] = "failed" => Closed(e)'
      BY <1>1, <2>1, <2>2, <3>1 DEF OwnerSettled, Closed, NoneOpen
    <3>4. RowSettled(e)'
      BY <1>1, <3>1, <3>2, <3>3 DEF RowSettled
    <3>5. StayClosed(e)
      BY <3>1 DEF StayClosed
    <3> QED
      BY <1>1, <1>2, <2>1, <2>3, <3>1, <3>4, <3>5, MoveSettled
  <2> QED
    BY <2>4, <2>5
<1> QED
  BY <1>3, <1>4

\* A request or the dispatcher changes the row of e, and no worker moves.
LEMMA RowChangeSettled ==
  ASSUME Settled, NEW e \in Execution, UNCHANGED <<pc, job, step, outcome>>,
         \A f \in Execution \ {e} : /\ steps'[f] = steps[f] /\ status'[f] = status[f]
                                    /\ claimedBy'[f] = claimedBy[f]
                                    /\ interrupted'[f] = interrupted[f],
         \/ /\ steps'[e] = steps[e] /\ status'[e] = status[e]
            /\ claimedBy'[e] = claimedBy[e]
         \/ /\ claimedBy[e] = None /\ claimedBy'[e] = None /\ StayClosed(e)
            /\ status[e] = "failed" => status'[e] = "failed"
         \/ claimedBy'[e] = None /\ status'[e] = "failed",
         RowSettled(e)'
  PROVE  (\A f \in Execution : RowSettled(f)') /\ (\A v \in Worker : WorkerSettled(v)')
<1>1. ASSUME NEW f \in Execution \ {e} PROVE RowSettled(f)'
  BY <1>1 DEF Settled, RowSettled, AllDone, NoneOpen, Closed, Done
<1>2. ASSUME NEW v \in Worker PROVE WorkerSettled(v)'
  <2>1. pc[v] \in {"load"} \cup Looping \cup Ending => job[v] \in Execution
    BY DEF Settled, Coupled, Owned, Typed, WorkerOK
  <2>2. v # None /\ WorkerSettled(v)
    BY QueueAssumption DEF Settled
  <2> HIDE DEF Looping, Ending
  <2> QED
    BY <2>1, <2>2, OtherSettled
<1> QED
  BY <1>1, <1>2

LEMMA RequestSettled ==
  ASSUME Settled, NEW e \in Execution, Request(e)
  PROVE  (\A f \in Execution : RowSettled(f)') /\ (\A v \in Worker : WorkerSettled(v)')
<1> DEFINE Goal == (\A f \in Execution : RowSettled(f)') /\ (\A v \in Worker : WorkerSettled(v)')
<1> USE DEF rowVars, localVars
<1>0. /\ Typed /\ RowsCoupled /\ status \in [Execution -> Status]
      /\ claimedBy \in [Execution -> Worker \cup {None}]
      /\ \A f \in Execution : RowSettled(f)
      /\ \A f \in Execution : claimedBy[f] # None => status[f] = "running"
  BY DEF Settled, Coupled, Owned, OwnerOnlyRunning, Typed, TypeOK, ExecutionsTypeOK
<1>1. UNCHANGED <<pc, job, step, outcome, interrupted>>
  BY DEF Request, CreatePending, RequestCancellation, ResolveEvent, DecideApproval,
     ReplayEvent
<1>2. ASSUME NEW f \in Execution, NEW s \in {"pending", "cancelled"},
             status' = [status EXCEPT ![f] = s], UNCHANGED steps,
             claimedBy' = claimedBy \/ Release(f), status[f] \in {"absent", "pending"}
      PROVE  Goal
  <2>1. AllDone(f)
    BY <1>0, <1>2 DEF RowSettled
  <2>2. status'[f] = s /\ \A g \in Execution \ {f} : status'[g] = status[g]
    BY <1>0, <1>2
  <2>3. claimedBy[f] = None /\ UNCHANGED claimedBy
    BY <1>0, <1>2 DEF Release
  <2>4. RowSettled(f)'
    BY <1>2, <2>1, <2>2 DEF RowSettled, AllDone, NoneOpen, Done, Unfinished
  <2>5. StayClosed(f)
    BY <1>2 DEF StayClosed
  <2> QED
    BY <1>1, <1>2, <2>2, <2>3, <2>4, <2>5, RowChangeSettled
<1>3. ASSUME UNCHANGED <<status, claimedBy, steps>> PROVE Goal
  <2>1. RowSettled(e)'
    BY <1>0, <1>1, <1>3 DEF RowSettled, AllDone, NoneOpen, Closed, Done
  <2> QED
    BY <1>1, <1>3, <2>1, RowChangeSettled
<1>4. CASE CreatePending(e)
  BY <1>2, <1>4 DEF CreatePending
<1>5. CASE RequestCancellation(e)
  <2>1. CASE status[e] = "running"
    BY <1>3, <1>5, <2>1 DEF RequestCancellation, CancelledAtOnce
  <2>2. CASE status[e] = "pending"
    BY <1>2, <1>5, <2>2 DEF RequestCancellation
  <2>3. CASE status[e] = "waiting_for_approval"
    <3>1. /\ status' = [status EXCEPT ![e] = "cancelled"] /\ Release(e)
          /\ steps' = [steps EXCEPT ![e] = CancelApprovals(
                         CloseSteps(e, {"waiting_for_approval"}, "cancelled"))]
      BY <1>5, <2>3 DEF RequestCancellation
    <3>2. Closing(e, {"waiting_for_approval"}, "cancelled")
      BY <1>0, <3>1, CancelEffect DEF StepStatus
    <3>3. /\ status'[e] = "cancelled" /\ claimedBy[e] = None /\ UNCHANGED claimedBy
          /\ \A g \in Execution \ {e} : status'[g] = status[g]
      BY <1>0, <2>3, <3>1 DEF Release
    <3>4. \A i \in DOMAIN steps[e] :
            Done(steps[e][i]) \/ steps[e][i].status = "waiting_for_approval"
      BY <1>0, <2>3 DEF RowSettled
    <3>5. NoneOpen(e)'
      BY <3>2, <3>4 DEF NoneOpen, Closing, Done, Unfinished
    <3>6. RowSettled(e)'
      BY <3>3, <3>5 DEF RowSettled
    <3>7. StayClosed(e) /\ \A f \in Execution \ {e} : steps'[f] = steps[f]
      BY <3>2 DEF StayClosed, Closing, Unfinished
    <3>8. status[e] # "failed"
      BY <2>3
    <3> QED
      BY <1>1, <3>3, <3>6, <3>7, <3>8, RowChangeSettled
  <2> QED
    BY <1>5, <2>1, <2>2, <2>3 DEF RequestCancellation, CancelledAtOnce
<1>6. CASE ResolveEvent(e)
  BY <1>3, <1>6 DEF ResolveEvent
<1>7. ASSUME NEW d \in {"approved", "rejected"}, DecideApproval(e, d) PROVE Goal
  <2>1. PICK i \in DOMAIN steps[e] :
          /\ Decidable(e, i)
          /\ steps' = [steps EXCEPT ![e][i] =
               [@ EXCEPT !.approval = d, !.status = "completed"]]
          /\ status' = [status EXCEPT ![e] = "pending"]
          /\ UNCHANGED claimedBy
    BY <1>7 DEF DecideApproval
  <2>2. OnlyStep(e, i, "completed", d)
    BY <1>0, <1>7, <2>1, DecisionEffect
  <2>3. status[e] = "waiting_for_approval" /\ steps[e][i].approval = "pending"
    BY <2>1 DEF Decidable
  <2>4. \A j \in DOMAIN steps[e] \ {i} : Done(steps[e][j])
    <3>1. CoupledRow(status[e], steps[e])
      BY <1>0 DEF RowsCoupled
    <3>2. \A j \in DOMAIN steps[e] : steps[e][j].status = "waiting_for_approval" => j = i
      BY <2>3, <3>1 DEF CoupledRow
    <3> QED
      BY <1>0, <2>3, <3>2 DEF RowSettled
  <2>5. AllDone(e)'
    <3>1. \A j \in DOMAIN steps'[e] : Done(steps'[e][j])
      BY <1>7, <2>2, <2>4 DEF OnlyStep, Done
    <3> QED
      BY <3>1 DEF AllDone, Done
  <2>6. /\ status'[e] = "pending" /\ claimedBy[e] = None
        /\ \A g \in Execution \ {e} : status'[g] = status[g]
    BY <1>0, <2>1, <2>3
  <2>7. RowSettled(e)'
    BY <2>5, <2>6 DEF RowSettled
  <2>8. StayClosed(e) /\ \A f \in Execution \ {e} : steps'[f] = steps[f]
    BY <2>2 DEF StayClosed, OnlyStep, Unfinished
  <2>9. status[e] # "failed"
    BY <2>3
  <2> QED
    BY <1>1, <2>1, <2>6, <2>7, <2>8, <2>9, RowChangeSettled
<1>8. ASSUME NEW r \in Execution, ReplayEvent(e, r) PROVE Goal
  BY <1>2, <1>8 DEF ReplayEvent
<1> QED
  BY <1>4, <1>5, <1>6, <1>7, <1>8 DEF Request

LEMMA NextSettled == Settled /\ [Next]_vars => Settled'
<1> SUFFICES ASSUME Settled, [Next]_vars PROVE Settled'
  OBVIOUS
<1> DEFINE Goal == (\A f \in Execution : RowSettled(f)') /\ (\A v \in Worker : WorkerSettled(v)')
<1>0. /\ Typed /\ pc \in [Worker -> ProgramCounter]
      /\ job \in [Worker -> Execution \cup {None}]
      /\ status \in [Execution -> Status]
      /\ claimedBy \in [Execution -> Worker \cup {None}]
      /\ interrupted \in [Execution -> BOOLEAN]
      /\ \A f \in Execution : claimedBy[f] # None => status[f] = "running"
  BY DEF Settled, Coupled, Owned, OwnerOnlyRunning, Typed, TypeOK, WorkersTypeOK,
     ExecutionsTypeOK
<1>1. Coupled'
  BY NextCoupled DEF Settled
<1>2. ASSUME NEW w \in Worker, NEW e \in Execution, ClaimPending(w, e) PROVE Goal
  <2>1. /\ status[e] = "pending" /\ status' = [status EXCEPT ![e] = "running"]
        /\ claimedBy' = [claimedBy EXCEPT ![e] = w]
        /\ pc' = [pc EXCEPT ![w] = "load"] /\ job' = [job EXCEPT ![w] = e]
        /\ UNCHANGED <<steps, step, outcome, interrupted>>
    BY <1>2 DEF ClaimPending, Claimable, GoTo
  <2>2. /\ status'[e] = "running" /\ claimedBy'[e] = w /\ pc'[w] = "load" /\ job'[w] = e
        /\ \A f \in Execution \ {e} : status'[f] = status[f] /\ claimedBy'[f] = claimedBy[f]
        /\ \A v \in Worker \ {w} : pc'[v] = pc[v] /\ job'[v] = job[v]
        /\ claimedBy[e] = None
    BY <1>0, <2>1
  <2>3. ASSUME NEW f \in Execution PROVE RowSettled(f)'
    BY <2>1, <2>2 DEF Settled, RowSettled, AllDone, NoneOpen, Closed, Done
  <2>4. AllDone(e)
    BY <2>1 DEF Settled, RowSettled
  <2>5. WorkerSettled(w)'
    BY <2>1, <2>2, <2>4 DEF WorkerSettled, OwnerSettled, AllDone, Done
  <2>6. ASSUME NEW v \in Worker \ {w} PROVE WorkerSettled(v)'
    <3>1. UNCHANGED <<job[v], step[v], outcome[v], pc[v]>>
      BY <2>1, <2>2, <2>6
    <3>2. pc[v] \in {"load"} \cup Looping \cup Ending => job[v] \in Execution
      BY <1>0, <2>6 DEF Typed, WorkerOK
    <3>3. v # None /\ WorkerSettled(v)
      BY QueueAssumption DEF Settled
    <3>4. StayClosed(e)
      BY <2>1 DEF StayClosed
    <3> HIDE DEF Looping, Ending
    <3>5. CASE job[v] # e
      BY <2>1, <2>2, <2>6, <3>1, <3>2, <3>3, <3>5, OtherSettled
    <3>6. CASE job[v] = e
      BY <2>1, <2>2, <2>6, <3>1, <3>3, <3>4, <3>6, OtherSettled
    <3> QED
      BY <3>5, <3>6
  <2> QED
    BY <2>3, <2>5, <2>6
<1>3. ASSUME NEW e \in Execution, CleanupExpired(e) PROVE Goal
  <2>1. /\ status' = [status EXCEPT ![e] = "failed"]
        /\ interrupted' = [interrupted EXCEPT ![e] = TRUE]
        /\ claimedBy' = [claimedBy EXCEPT ![e] = None]
        /\ steps' = [steps EXCEPT ![e] = CloseSteps(e, {"pending", "running"}, "failed")]
        /\ UNCHANGED <<pc, job, step, outcome>>
    BY <1>3 DEF CleanupExpired, Release, localVars
  <2>2. Closing(e, {"pending", "running"}, "failed")
    BY <1>0, <2>1, CloseEffect DEF StepStatus
  <2>3. /\ status'[e] = "failed" /\ interrupted'[e] /\ claimedBy'[e] = None
        /\ \A f \in Execution \ {e} : /\ status'[f] = status[f]
                                      /\ claimedBy'[f] = claimedBy[f]
                                      /\ interrupted'[f] = interrupted[f]
    BY <1>0, <2>1
  <2>4. RowSettled(e)'
    BY <2>3 DEF RowSettled
  <2>5. \A f \in Execution \ {e} : steps'[f] = steps[f]
    BY <2>2 DEF Closing
  <2> QED
    BY <2>1, <2>3, <2>4, <2>5, RowChangeSettled
<1>4. ASSUME UNCHANGED <<status, claimedBy, interrupted, steps, pc, job, step, outcome>>
      PROVE  Goal
  <2>1. ASSUME NEW f \in Execution PROVE RowSettled(f)'
    BY <1>4 DEF Settled, RowSettled, AllDone, NoneOpen, Closed, Done
  <2>2. ASSUME NEW v \in Worker PROVE WorkerSettled(v)'
    BY <1>4, OtherSettled DEF Settled
  <2> QED
    BY <2>1, <2>2
<1>5. ASSUME NEW e \in Execution, LeaseExpires(e) PROVE Goal
  BY <1>4, <1>5 DEF LeaseExpires, localVars
<1>6. ASSUME UNCHANGED vars PROVE Goal
  BY <1>4, <1>6 DEF vars, rowVars, localVars
<1> HIDE DEF Goal
<1>7. ASSUME NEW w \in Worker, Run(w) \/ Crash(w) \/ HeartbeatCancels(w) PROVE Goal
  BY <1>7, QuietSettled, LoopSettled, FailSettled, EndSettled DEF Run, Goal
<1>8. ASSUME NEW e \in Execution, Request(e) PROVE Goal
  BY <1>8, RequestSettled DEF Goal
<1>9. Goal
  BY <1>2, <1>3, <1>5, <1>6, <1>7, <1>8 DEF Next
<1> QED
  BY <1>1, <1>9 DEF Settled, Goal

\* A terminal execution leaves no step open, unless its worker lost the lease
\* or the commit that fails the step was lost.
THEOREM StepsAccountedFor == Spec => []OpenStepsAccounted
<1>1. Settled => OpenStepsAccounted
  BY SettledMeans
<1> QED
  BY <1>1, InitSettled, NextSettled, PTL DEF Spec

\* What a completed execution did is complete: no step of it failed, was
\* cancelled or still waits for a decision.
THEOREM CompletionIsComplete == Spec => []CompletedMeansStepsCompleted
<1>1. Settled => CompletedMeansStepsCompleted
  BY SettledMeans
<1> QED
  BY <1>1, InitSettled, NextSettled, PTL DEF Spec

-----------------------------------------------------------------------------
(* What a step of the system leaves alone.                                 *)

\* The worker has claimed an execution and not let go of it.
Active == {"load"} \cup Looping \cup Ending

\* A failure that is final: the execution is never run again.
Dead(e) == status[e] = "failed" /\ ~interrupted[e]

SameRow(f) ==
  /\ status'[f] = status[f] /\ claimedBy'[f] = claimedBy[f]
  /\ interrupted'[f] = interrupted[f] /\ context'[f] = context[f]
  /\ replayOf'[f] = replayOf[f] /\ replayStart'[f] = replayStart[f]
  /\ steps'[f] = steps[f] /\ deadLetters'[f] = deadLetters[f]
  /\ effects'[f] = effects[f]

SameWorker(v) ==
  /\ pc'[v] = pc[v] /\ job'[v] = job[v] /\ at'[v] = at[v]
  /\ step'[v] = step[v] /\ outcome'[v] = outcome[v]

\* Types, one variable at a time.
LEMMA TypesOf ==
  ASSUME Typed
  PROVE  /\ status \in [Execution -> Status]
         /\ claimedBy \in [Execution -> Worker \cup {None}]
         /\ interrupted \in [Execution -> BOOLEAN]
         /\ context \in [Execution -> Context]
         /\ replayOf \in [Execution -> Execution \cup {None}]
         /\ replayStart \in [Execution -> Node \cup {None}]
         /\ steps \in [Execution -> Seq(Step)]
         /\ deadLetters \in [Execution -> Seq(DeadLetter)]
         /\ effects \in [Execution -> [Node -> Nat]]
         /\ pc \in [Worker -> ProgramCounter]
         /\ job \in [Worker -> Execution \cup {None}]
         /\ at \in [Worker -> Node \cup {None}]
         /\ step \in [Worker -> Nat]
         /\ outcome \in [Worker -> {"none", "completed", "failed", "cancelled",
                                    "abandoned"}]
  BY DEF Typed, TypeOK, ExecutionsTypeOK, RecordsTypeOK, WorkersTypeOK

\* A worker's step concerns its own execution only.
LEMMA WorkerTouches ==
  ASSUME Typed, NEW w \in Worker, Run(w) \/ Crash(w) \/ HeartbeatCancels(w)
  PROVE  /\ pc[w] \in Active /\ job[w] \in Execution
         /\ UNCHANGED <<interrupted, replayOf, replayStart, job>>
         /\ \A f \in Execution \ {job[w]} : SameRow(f)
         /\ \A v \in Worker \ {w} : SameWorker(v)
<1> USE TypesOf DEF GoTo, Committed, rowVars, localVars, SameRow, SameWorker
<1>0. ASSUME pc[w] \in Active PROVE job[w] \in Execution
  BY <1>0 DEF Active, Typed, WorkerOK
<1>1. CASE LoadExecution(w)
  <2>1. pc[w] \in Active
    BY <1>1 DEF LoadExecution, Active
  <2> QED BY <1>0, <1>1, <2>1 DEF LoadExecution
<1>2. CASE CheckCancellation(w)
  <2>1. pc[w] \in Active
    BY <1>2 DEF CheckCancellation, Active, Looping
  <2> QED BY <1>0, <1>2, <2>1 DEF CheckCancellation
<1>3. CASE CreateStep(w)
  <2>1. pc[w] \in Active
    BY <1>3 DEF CreateStep, Active, Looping
  <2> QED BY <1>0, <1>3, <2>1 DEF CreateStep
<1>4. CASE StartStep(w)
  <2>1. pc[w] \in Active
    BY <1>4 DEF StartStep, Active, Looping
  <2> QED BY <1>0, <1>4, <2>1 DEF StartStep, SetStep
<1>5. CASE InvokeNode(w)
  <2>1. pc[w] \in Active
    BY <1>5 DEF InvokeNode, Active, Looping
  <2> QED BY <1>0, <1>5, <2>1 DEF InvokeNode, CallProvider
<1>6. CASE InvokeFails(w)
  <2>1. pc[w] \in Active
    BY <1>6 DEF InvokeFails, Active, Looping
  <2> QED BY <1>0, <1>6, <2>1 DEF InvokeFails, CallProvider
<1>7. CASE RecordCompleted(w)
  <2>1. pc[w] \in Active
    BY <1>7 DEF RecordCompleted, Active, Looping
  <2>2. /\ UNCHANGED <<rowVars, deadLetters, job, step, effects>>
        /\ \E l \in ProgramCounter : pc' = [pc EXCEPT ![w] = l]
        /\ steps' = [steps EXCEPT ![job[w]][step[w]].status = "completed"]
        /\ UNCHANGED at \/ \E n \in Node : at' = [at EXCEPT ![w] = n]
        /\ UNCHANGED outcome \/ outcome' = [outcome EXCEPT ![w] = "completed"]
    <3>1. at[w] \in Node
      BY <1>7 DEF RecordCompleted, Typed, WorkerOK, Looping
    <3>2. \A b \in Branch : Successor[at[w]][b] \in Node \cup {None}
      BY <3>1, QueueAssumption
    <3>3. {"true", "false", "next"} \subseteq Branch
      BY DEF Branch
    <3>4. /\ UNCHANGED <<rowVars, deadLetters, job, step, effects>>
          /\ steps' = [steps EXCEPT ![job[w]][step[w]].status = "completed"]
      BY <1>7 DEF RecordCompleted, SetStep
    <3>5. PICK b \in Branch :
            LET next == Successor[at[w]][b] IN
            \/ /\ next # None
               /\ at' = [at EXCEPT ![w] = next]
               /\ Committed(w, "check")
               /\ UNCHANGED outcome
            \/ /\ next = None
               /\ outcome' = [outcome EXCEPT ![w] = "completed"]
               /\ Committed(w, "finalize")
               /\ UNCHANGED at
      BY <1>7, <3>3 DEF RecordCompleted
    <3> QED
      BY <3>2, <3>4, <3>5 DEF ProgramCounter, Looping, Ending
  <2> QED BY <1>0, <2>1, <2>2
<1>8. CASE ApprovalHandoff(w)
  <2>1. pc[w] \in Active
    BY <1>8 DEF ApprovalHandoff, Active, Looping
  <2> QED BY <1>0, <1>8, <2>1 DEF ApprovalHandoff, Release
<1>9. CASE HandoffRefused(w)
  <2>1. pc[w] \in Active
    BY <1>9 DEF HandoffRefused, Active, Looping
  <2> QED BY <1>0, <1>9, <2>1 DEF HandoffRefused
<1>10. CASE Raise(w)
  <2>1. pc[w] \in Active
    BY <1>10 DEF Raise, Active, Looping
  <2> QED BY <1>0, <1>10, <2>1 DEF Raise
<1>11. CASE MarkStepFailed(w)
  <2>1. pc[w] \in Active
    BY <1>11 DEF MarkStepFailed, Active, Ending
  <2> QED BY <1>0, <1>11, <2>1 DEF MarkStepFailed, FailOpenStep, SetStep
<1>12. CASE SaveFailureContext(w)
  <2>1. pc[w] \in Active
    BY <1>12 DEF SaveFailureContext, Active, Ending
  <2> QED BY <1>0, <1>12, <2>1 DEF SaveFailureContext
<1>13. CASE Finalize(w)
  <2>1. pc[w] \in Active
    BY <1>13 DEF Finalize, Active, Ending
  <2>2. \A f \in Execution \ {job[w]} : context'[f] = context[f]
    BY <1>13 DEF Finalize
  <2>3. \A f \in Execution \ {job[w]} : steps'[f] = steps[f]
    BY <1>13 DEF Finalize
  <2>4. \A f \in Execution \ {job[w]} : deadLetters'[f] = deadLetters[f]
    BY <1>13 DEF Finalize
  <2> QED BY <1>0, <1>13, <2>1, <2>2, <2>3, <2>4 DEF Finalize, Release
<1>14. CASE OwnershipLost(w)
  <2>1. pc[w] \in Active
    BY <1>14 DEF OwnershipLost, Active, Ending
  <2> QED BY <1>0, <1>14, <2>1 DEF OwnershipLost
<1>15. CASE Crash(w)
  <2>1. pc[w] \in Active
    BY <1>15 DEF Crash, Active
  <2> QED BY <1>0, <1>15, <2>1 DEF Crash
<1>16. CASE HeartbeatCancels(w)
  <2>1. pc[w] \in Active
    BY <1>16 DEF HeartbeatCancels, Active, Ending
  <2> QED BY <1>0, <1>16, <2>1 DEF HeartbeatCancels, FailOpenStep, SetStep
<1> QED
  BY <1>1, <1>2, <1>3, <1>4, <1>5, <1>6, <1>7, <1>8, <1>9, <1>10, <1>11, <1>12,
     <1>13, <1>14, <1>15, <1>16 DEF Run

\* What it may do to the steps of that execution.
LEMMA WorkerSteps ==
  ASSUME Typed, NEW w \in Worker, Run(w) \/ Crash(w) \/ HeartbeatCancels(w)
  PROVE  LET e == job[w] IN
         \/ steps'[e] = steps[e]
         \/ CreateStep(w)
         \/ /\ pc[w] \in {"start", "record"}
            /\ \E s \in {"running", "completed"} :
                 OnlyStep(e, step[w], s, steps[e][step[w]].approval)
         \/ /\ pc[w] = "mark_failed"
            /\ step[w] \in DOMAIN steps[e] /\ steps[e][step[w]].status \in Unfinished
            /\ OnlyStep(e, step[w], "failed", steps[e][step[w]].approval)
         \/ /\ pc[w] = "handoff" /\ status[e] = "running"
            /\ OnlyStep(e, step[w], "waiting_for_approval", "pending")
         \/ /\ pc[w] = "finalize" /\ status[e] = "running" /\ claimedBy[e] = w
            /\ Closing(e, {"pending", "running", "waiting_for_approval"}, "cancelled")
<1> DEFINE e == job[w]
<1>0. e \in Execution
  BY WorkerTouches
<1>1. CASE \/ LoadExecution(w) \/ CheckCancellation(w) \/ InvokeNode(w)
           \/ InvokeFails(w) \/ HandoffRefused(w) \/ Raise(w)
           \/ SaveFailureContext(w) \/ OwnershipLost(w) \/ Crash(w)
  <2>1. UNCHANGED steps
    BY <1>1 DEF LoadExecution, CheckCancellation, InvokeNode, InvokeFails,
       HandoffRefused, Raise, SaveFailureContext, OwnershipLost, Crash
  <2> QED
    BY <2>1
<1>2. CASE CreateStep(w)
  BY <1>2
<1>3. ASSUME NEW s \in {"running", "completed"}, SetStep(w, s), pc[w] \in {"start", "record"}
      PROVE  OnlyStep(e, step[w], s, steps[e][step[w]].approval)
  BY <1>3, SetStepEffect DEF StepStatus, Looping
<1>4. CASE StartStep(w) \/ RecordCompleted(w)
  BY <1>3, <1>4 DEF StartStep, RecordCompleted
<1>5. CASE MarkStepFailed(w) \/ HeartbeatCancels(w)
  <2>1. pc[w] = "mark_failed" /\ (FailOpenStep(w) \/ UNCHANGED steps)
    BY <1>5 DEF MarkStepFailed, HeartbeatCancels
  <2>2. CASE UNCHANGED steps
    BY <2>2
  <2>3. CASE ~UNCHANGED steps
    <3>1. /\ step[w] \in DOMAIN steps[e] /\ steps[e][step[w]].status \in Unfinished
          /\ SetStep(w, "failed")
      BY <2>1, <2>3 DEF FailOpenStep, Unfinished
    <3>2. OnlyStep(e, step[w], "failed", steps[e][step[w]].approval)
      BY <2>1, <3>1, SetStepEffect DEF StepStatus, Ending
    <3> QED
      BY <2>1, <3>1, <3>2
  <2> QED
    BY <2>2, <2>3
<1>6. CASE ApprovalHandoff(w)
  <2>1. OnlyStep(e, step[w], "waiting_for_approval", "pending")
    BY <1>6, HandoffEffect
  <2> QED
    BY <1>6, <2>1 DEF ApprovalHandoff, HandoffAllowed
<1>7. CASE Finalize(w)
  <2>1. /\ pc[w] = "finalize" /\ status[e] = "running" /\ claimedBy[e] = w
        /\ \/ UNCHANGED steps
           \/ steps' = [steps EXCEPT ![e] = CancelApprovals(CloseSteps(e,
                {"pending", "running", "waiting_for_approval"}, "cancelled"))]
    BY <1>7 DEF Finalize, OwnsLiveLease
  <2> HIDE DEF e
  <2>2. \/ steps'[e] = steps[e]
        \/ Closing(e, {"pending", "running", "waiting_for_approval"}, "cancelled")
    BY <1>0, <2>1, CancelEffect DEF StepStatus
  <2> QED
    BY <2>1, <2>2 DEF e
<1> QED
  BY <1>1, <1>2, <1>4, <1>5, <1>6, <1>7 DEF Run

\* What a request or the dispatcher may do to the steps of an execution.
LEMMA EventSteps ==
  ASSUME Typed, NEW e \in Execution, Request(e) \/ LeaseExpires(e) \/ CleanupExpired(e)
  PROVE  /\ UNCHANGED <<pc, localVars, effects>>
         /\ \/ UNCHANGED steps
            \/ /\ status[e] = "waiting_for_approval"
               /\ Closing(e, {"waiting_for_approval"}, "cancelled")
            \/ /\ status[e] = "waiting_for_approval"
               /\ \E i \in DOMAIN steps[e], d \in {"approved", "rejected"} :
                    OnlyStep(e, i, "completed", d)
            \/ /\ status[e] = "running"
               /\ Closing(e, {"pending", "running"}, "failed")
<1>1. CASE CreatePending(e) \/ ResolveEvent(e) \/ LeaseExpires(e)
  BY <1>1 DEF CreatePending, ResolveEvent, LeaseExpires, rowVars
<1>2. CASE RequestCancellation(e)
  <2>1. /\ UNCHANGED <<pc, localVars, effects>>
        /\ \/ UNCHANGED steps
           \/ /\ status[e] = "waiting_for_approval"
              /\ steps' = [steps EXCEPT ![e] = CancelApprovals(
                     CloseSteps(e, {"waiting_for_approval"}, "cancelled"))]
    BY <1>2 DEF RequestCancellation, CancelledAtOnce
  <2> QED
    BY <2>1, CancelEffect DEF StepStatus
<1>3. ASSUME NEW d \in {"approved", "rejected"}, DecideApproval(e, d)
      PROVE  /\ UNCHANGED <<pc, localVars, effects>>
             /\ status[e] = "waiting_for_approval"
             /\ \E i \in DOMAIN steps[e] : OnlyStep(e, i, "completed", d)
  <2>1. PICK i \in DOMAIN steps[e] :
          /\ Decidable(e, i)
          /\ steps' = [steps EXCEPT ![e][i] =
                 [@ EXCEPT !.approval = d, !.status = "completed"]]
          /\ UNCHANGED <<pc, localVars, effects>>
    BY <1>3 DEF DecideApproval
  <2>2. OnlyStep(e, i, "completed", d)
    BY <1>3, <2>1, DecisionEffect
  <2> QED
    BY <2>1, <2>2 DEF Decidable
<1>4. ASSUME NEW r \in Execution, ReplayEvent(e, r)
      PROVE  UNCHANGED <<pc, localVars, effects, steps>>
  BY <1>4 DEF ReplayEvent
<1>5. CASE CleanupExpired(e)
  BY <1>5, CloseEffect DEF CleanupExpired, Expired, StepStatus
<1> QED
  BY <1>1, <1>2, <1>3, <1>4, <1>5 DEF Request

\* No step is ever removed or moved to another node.
LEMMA HistoryKept ==
  ASSUME Typed, [Next]_vars, NEW e \in Execution, NEW i \in DOMAIN steps[e]
  PROVE  i \in DOMAIN steps'[e] /\ steps'[e][i].node = steps[e][i].node
<1>1. ASSUME NEW w \in Worker, Run(w) \/ Crash(w) \/ HeartbeatCancels(w)
      PROVE  i \in DOMAIN steps'[e] /\ steps'[e][i].node = steps[e][i].node
  <2>1. CASE e # job[w]
    BY <1>1, <2>1, WorkerTouches DEF SameRow
  <2>2. CASE e = job[w]
    <3>1. CASE CreateStep(w)
      BY <2>2, <3>1, CreateEffect
    <3>2. CASE ~CreateStep(w)
      BY <1>1, <2>2, <3>2, WorkerSteps DEF OnlyStep, Closing
    <3> QED
      BY <3>1, <3>2
  <2> QED
    BY <2>1, <2>2
<1>2. ASSUME NEW f \in Execution, Request(f) \/ LeaseExpires(f) \/ CleanupExpired(f)
      PROVE  i \in DOMAIN steps'[e] /\ steps'[e][i].node = steps[e][i].node
  <2>1. CASE e = f
    BY <1>2, <2>1, EventSteps DEF OnlyStep, Closing
  <2>2. CASE e # f
    BY <1>2, <2>2, EventSteps DEF OnlyStep, Closing
  <2> QED
    BY <2>1, <2>2
<1>3. ASSUME UNCHANGED steps PROVE i \in DOMAIN steps'[e] /\ steps'[e][i].node = steps[e][i].node
  BY <1>3
<1> QED
  BY <1>1, <1>2, <1>3 DEF Next, ClaimPending, vars

\* Which of its transactions write to the tables.
LEMMA WorkerWrites ==
  ASSUME NEW w \in Worker, Run(w) \/ Crash(w) \/ HeartbeatCancels(w)
  PROVE  \/ ApprovalHandoff(w)
         \/ Finalize(w)
         \/ /\ UNCHANGED <<status, claimedBy, deadLetters>>
            /\ pc[w] # "invoke" => UNCHANGED effects
            /\ UNCHANGED context \/ SaveFailureContext(w)
<1> USE DEF rowVars
<1>1. CASE \/ LoadExecution(w) \/ CheckCancellation(w) \/ CreateStep(w)
           \/ StartStep(w) \/ RecordCompleted(w) \/ HandoffRefused(w) \/ Raise(w)
           \/ MarkStepFailed(w) \/ OwnershipLost(w) \/ Crash(w) \/ HeartbeatCancels(w)
  BY <1>1 DEF LoadExecution, CheckCancellation, CreateStep, StartStep,
     RecordCompleted, HandoffRefused, Raise, MarkStepFailed, OwnershipLost, Crash,
     HeartbeatCancels
<1>2. CASE InvokeNode(w) \/ InvokeFails(w)
  BY <1>2 DEF InvokeNode, InvokeFails
<1>3. CASE SaveFailureContext(w)
  BY <1>3 DEF SaveFailureContext
<1> QED
  BY <1>1, <1>2, <1>3 DEF Run

\* The checkpoint is cleared or kept when a failure is saved.
LEMMA SaveEffect ==
  ASSUME Typed, NEW w \in Worker, SaveFailureContext(w)
  PROVE  context'[job[w]] = context[job[w]] \/ context'[job[w]].resume = NoResume
<1> DEFINE c == [saved |-> TRUE, outputs |-> outputs[w], resume |-> NoResume]
<1>1. job[w] \in Execution /\ context \in [Execution -> Context]
  BY TypesOf, WorkerTouches DEF Run
<1>2. context' = [context EXCEPT ![job[w]] = c] \/ UNCHANGED context
  BY DEF SaveFailureContext
<1>3. c.resume = NoResume
  OBVIOUS
<1> HIDE DEF c
<1> QED
  BY <1>1, <1>2, <1>3

\* A final failure stays as it is: its steps and what they did are settled,
\* and only the saved context may still be replaced by one to start afresh from.
LEMMA DeadStaysDead ==
  ASSUME Settled, [Next]_vars, NEW e \in Execution, Dead(e)
  PROVE  /\ status'[e] = "failed" /\ ~interrupted'[e]
         /\ DOMAIN steps'[e] = DOMAIN steps[e]
         /\ \A i \in DOMAIN steps[e] :
              steps[e][i].status = "failed" => steps'[e][i].status = "failed"
         /\ effects'[e] = effects[e]
         /\ context'[e] = context[e] \/ context'[e].resume = NoResume
         /\ replayOf'[e] = replayOf[e] /\ replayStart'[e] = replayStart[e]
<1> DEFINE Goal ==
         /\ status'[e] = "failed" /\ ~interrupted'[e]
         /\ DOMAIN steps'[e] = DOMAIN steps[e]
         /\ \A i \in DOMAIN steps[e] :
              steps[e][i].status = "failed" => steps'[e][i].status = "failed"
         /\ effects'[e] = effects[e]
         /\ context'[e] = context[e] \/ context'[e].resume = NoResume
         /\ replayOf'[e] = replayOf[e] /\ replayStart'[e] = replayStart[e]
<1>0. Typed /\ Coupled /\ status[e] = "failed" /\ ~interrupted[e]
  BY DEF Settled, Coupled, Owned, Dead
<1>1. ASSUME NEW w \in Worker, Run(w) \/ Crash(w) \/ HeartbeatCancels(w) PROVE Goal
  <2>1. CASE e # job[w]
    BY <1>0, <1>1, <2>1, WorkerTouches DEF SameRow
  <2>2. CASE e = job[w]
    <3>1. pc[w] \notin Looping
      BY <1>0, <2>2, LoopFacts
    <3>2. ~CreateStep(w) /\ ~ApprovalHandoff(w) /\ ~Finalize(w)
      BY <1>0, <2>2, <3>1 DEF CreateStep, ApprovalHandoff, Finalize, OwnsLiveLease, Looping
    <3>3. /\ DOMAIN steps'[e] = DOMAIN steps[e]
          /\ \A i \in DOMAIN steps[e] :
              steps[e][i].status = "failed" => steps'[e][i].status = "failed"
      BY <1>0, <1>1, <2>2, <3>1, <3>2, WorkerSteps DEF OnlyStep, Looping
    <3>4. /\ UNCHANGED <<status, effects>>
          /\ UNCHANGED context \/ SaveFailureContext(w)
      BY <1>1, <3>1, <3>2, WorkerWrites DEF Looping
    <3>5. UNCHANGED <<interrupted, replayOf, replayStart>>
      BY <1>0, <1>1, WorkerTouches
    <3> QED
      BY <1>0, <2>2, <3>3, <3>4, <3>5, SaveEffect
  <2> QED
    BY <2>1, <2>2
<1>2. ASSUME NEW w \in Worker, NEW f \in Execution, ClaimPending(w, f) PROVE Goal
  BY <1>0, <1>2, TypesOf DEF ClaimPending, Claimable
<1>3. ASSUME NEW f \in Execution, Request(f) \/ LeaseExpires(f) \/ CleanupExpired(f) PROVE Goal
  <2>1. /\ UNCHANGED effects
        /\ DOMAIN steps'[e] = DOMAIN steps[e]
        /\ \A i \in DOMAIN steps[e] :
              steps[e][i].status = "failed" => steps'[e][i].status = "failed"
    <3>1. UNCHANGED effects
      BY <1>0, <1>3, EventSteps
    <3>2. CASE f # e
      BY <1>0, <1>3, <3>2, EventSteps DEF OnlyStep, Closing
    <3>3. CASE f = e
      BY <1>0, <1>3, <3>3, EventSteps
    <3> QED
      BY <3>1, <3>2, <3>3
  <2>2. /\ status'[e] = "failed" /\ ~interrupted'[e] /\ context'[e] = context[e]
        /\ replayOf'[e] = replayOf[e] /\ replayStart'[e] = replayStart[e]
    <3> USE <1>0, TypesOf DEF rowVars
    <3>1. CASE CreatePending(f) \/ ResolveEvent(f) \/ LeaseExpires(f)
      BY <3>1 DEF CreatePending, ResolveEvent, LeaseExpires
    <3>2. CASE RequestCancellation(f)
      BY <3>2 DEF RequestCancellation, CancelledAtOnce
    <3>3. ASSUME NEW d \in {"approved", "rejected"}, DecideApproval(f, d)
          PROVE  /\ status'[e] = "failed" /\ ~interrupted'[e] /\ context'[e] = context[e]
                 /\ replayOf'[e] = replayOf[e] /\ replayStart'[e] = replayStart[e]
      BY <3>3 DEF DecideApproval, Decidable
    <3>4. ASSUME NEW r \in Execution, ReplayEvent(f, r)
          PROVE  /\ status'[e] = "failed" /\ ~interrupted'[e] /\ context'[e] = context[e]
                 /\ replayOf'[e] = replayOf[e] /\ replayStart'[e] = replayStart[e]
      BY <3>4 DEF ReplayEvent
    <3>5. CASE CleanupExpired(f)
      BY <3>5 DEF CleanupExpired, Expired
    <3> QED
      BY <1>3, <3>1, <3>2, <3>3, <3>4, <3>5 DEF Request
  <2> QED
    BY <2>1, <2>2
<1>4. ASSUME UNCHANGED vars PROVE Goal
  BY <1>0, <1>4 DEF vars, rowVars
<1> HIDE DEF Goal
<1>5. Goal
  BY <1>1, <1>2, <1>3, <1>4 DEF Next
<1> QED
  BY <1>5 DEF Goal

-----------------------------------------------------------------------------
(* Dead letters.                                                           *)

\* Nothing is known of an execution before it is created.
Blank(e) ==
  /\ steps[e] = <<>> /\ context[e].resume = NoResume
  /\ replayOf[e] = None /\ replayStart[e] = None
  /\ \A n \in Node : effects[e][n] = 0

Begun ==
  /\ \A w \in Worker : pc[w] \in Active => status[job[w]] # "absent"
  /\ \A e \in Execution : status[e] = "absent" => Blank(e)

LEMMA InitBegun == Init => Begun
<1> SUFFICES ASSUME Init PROVE Begun
  OBVIOUS
<1>1. \A w \in Worker : pc[w] \notin Active
  BY DEF Init, Active, Looping, Ending
<1>2. \A e \in Execution : Blank(e)
  BY DEF Init, Blank, EmptyContext
<1> QED
  BY <1>1, <1>2 DEF Begun

LEMMA NextBegun == Settled /\ Begun /\ [Next]_vars => Begun'
<1> SUFFICES ASSUME Settled, Begun, [Next]_vars PROVE Begun'
  OBVIOUS
<1> DEFINE Goal == /\ \A v \in Worker : pc'[v] \in Active =>
                        /\ job'[v] \in Execution /\ status'[job'[v]] # "absent"
                   /\ \A f \in Execution : status'[f] = "absent" =>
                        /\ status[f] = "absent" /\ steps'[f] = steps[f]
                        /\ context'[f] = context[f]
                        /\ replayOf'[f] = replayOf[f]
                        /\ replayStart'[f] = replayStart[f]
                        /\ effects'[f] = effects[f]
<1>0. Typed /\ \A v \in Worker : pc[v] \in Active => job[v] \in Execution
  BY DEF Settled, Coupled, Owned, Typed, WorkerOK, Active
<1>1. ASSUME NEW w \in Worker, Run(w) \/ Crash(w) \/ HeartbeatCancels(w) PROVE Goal
  <2> DEFINE e == job[w]
  <2>1. /\ pc[w] \in Active /\ e \in Execution /\ UNCHANGED job
        /\ \A f \in Execution \ {e} : SameRow(f)
        /\ \A v \in Worker \ {w} : SameWorker(v)
    BY <1>0, <1>1, WorkerTouches
  <2>2. status[e] # "absent"
    BY <2>1 DEF Begun
  <2>3. status'[e] # "absent"
    <3>1. CASE ApprovalHandoff(w)
      BY <1>0, <2>1, <3>1, TypesOf DEF ApprovalHandoff
    <3>2. CASE Finalize(w)
      BY <1>0, <2>1, <3>2, TypesOf DEF Finalize, FinalStatus, Typed, WorkerOK
    <3>3. CASE UNCHANGED status
      BY <2>2, <3>3
    <3> QED
      BY <1>1, <3>1, <3>2, <3>3, WorkerWrites
  <2>4. \A v \in Worker : pc'[v] \in Active => pc[v] \in Active
    BY <2>1 DEF SameWorker
  <2> QED
    BY <1>0, <2>1, <2>3, <2>4 DEF Begun, SameRow
<1>2. ASSUME NEW w \in Worker, NEW f \in Execution, ClaimPending(w, f) PROVE Goal
  <2>1. /\ status' = [status EXCEPT ![f] = "running"]
        /\ pc' = [pc EXCEPT ![w] = "load"] /\ job' = [job EXCEPT ![w] = f]
        /\ UNCHANGED <<steps, context, replayOf, replayStart, effects>>
    BY <1>2 DEF ClaimPending, GoTo
  <2>2. \A v \in Worker \ {w} : pc'[v] = pc[v] /\ job'[v] = job[v]
    BY <1>0, <2>1, TypesOf
  <2>3. /\ job'[w] = f /\ status'[f] = "running"
        /\ \A g \in Execution \ {f} : status'[g] = status[g]
    BY <1>0, <2>1, TypesOf
  <2> QED
    BY <1>0, <1>2, <2>1, <2>2, <2>3 DEF Begun
<1>3. ASSUME NEW f \in Execution, Request(f) \/ LeaseExpires(f) \/ CleanupExpired(f) PROVE Goal
  <2>1. UNCHANGED <<pc, job, effects>>
    BY <1>0, <1>3, EventSteps DEF localVars
  <2>2. \A g \in Execution : \/ status'[g] = status[g] /\ UNCHANGED <<steps[g], context[g], replayOf[g], replayStart[g]>>
                             \/ status'[g] # "absent"
    <3> USE <1>0, TypesOf DEF rowVars, Release
    <3>1. CASE CreatePending(f) \/ ResolveEvent(f) \/ LeaseExpires(f)
      BY <3>1 DEF CreatePending, ResolveEvent, LeaseExpires
    <3>2. CASE RequestCancellation(f)
      BY <3>2 DEF RequestCancellation, CancelledAtOnce
    <3>3. ASSUME NEW d \in {"approved", "rejected"}, DecideApproval(f, d), NEW g \in Execution
          PROVE  \/ status'[g] = status[g] /\ UNCHANGED <<steps[g], context[g], replayOf[g], replayStart[g]>>
                 \/ status'[g] # "absent"
      BY <3>3 DEF DecideApproval
    <3>4. ASSUME NEW r \in Execution, ReplayEvent(f, r), NEW g \in Execution
          PROVE  \/ status'[g] = status[g] /\ UNCHANGED <<steps[g], context[g], replayOf[g], replayStart[g]>>
                 \/ status'[g] # "absent"
      BY <3>4 DEF ReplayEvent
    <3>5. CASE CleanupExpired(f)
      BY <3>5 DEF CleanupExpired
    <3> QED
      BY <1>3, <3>1, <3>2, <3>3, <3>4, <3>5 DEF Request
  <2>3. \A g \in Execution : status[g] # "absent" => status'[g] # "absent"
    BY <2>2
  <2> QED
    BY <1>0, <2>1, <2>2, <2>3 DEF Begun
<1>4. ASSUME UNCHANGED vars PROVE Goal
  BY <1>0, <1>4 DEF vars, rowVars, localVars, Begun
<1> HIDE DEF Goal
<1>5. Goal
  BY <1>1, <1>2, <1>3, <1>4 DEF Next
<1> QED
  BY <1>5 DEF Goal, Begun, Blank

\* The dead letter of e names a step that failed, or no step.
NamesFailedStep(e) ==
  LET k == deadLetters[e][1].step IN
  k # 0 => k \in DOMAIN steps[e] /\ steps[e][k].status = "failed"

\* A final failure has its dead letter, an interruption has none; the letter is
\* replayed iff there is a replay, and there is one replay at most.
FiledRow(e) ==
  /\ interrupted[e] => status[e] = "failed"
  /\ DOMAIN deadLetters[e] = IF Dead(e) THEN {1} ELSE {}
  /\ Dead(e) => NamesFailedStep(e)
  /\ Dead(e) /\ deadLetters[e][1].status = "replayed" =>
       \E x \in Execution : replayOf[x] = e
  /\ \A x, y \in Execution : replayOf[x] = e /\ replayOf[y] = e => x = y

Filed == Settled /\ Linked /\ Begun /\ \A e \in Execution : FiledRow(e)

LEMMA FiledMeans == Filed => DeadLetterCoverage
<1> SUFFICES ASSUME Filed, NEW e \in Execution
             PROVE  LET replays == {r \in Execution : replayOf[r] = e} IN
                    /\ Len(deadLetters[e]) =
                         IF status[e] = "failed" /\ ~interrupted[e] THEN 1 ELSE 0
                    /\ \A i \in DOMAIN deadLetters[e] :
                         LET d == deadLetters[e][i] IN
                         /\ d.step # 0 => steps[e][d.step].status = "failed"
                         /\ Cardinality(replays) = IF d.status = "replayed" THEN 1 ELSE 0
  BY DEF DeadLetterCoverage
<1> DEFINE replays == {r \in Execution : replayOf[r] = e}
<1>1. FiledRow(e) /\ deadLetters[e] \in Seq(DeadLetter)
  BY TypesOf DEF Filed, Linked
<1>2. Len(deadLetters[e]) = IF Dead(e) THEN 1 ELSE 0
  <2> DEFINE n == Len(deadLetters[e])
  <2>1. n \in Nat /\ DOMAIN deadLetters[e] = 1..n
    BY <1>1, LenProperties
  <2>2. 1..n = IF Dead(e) THEN {1} ELSE {}
    BY <1>1, <2>1 DEF FiledRow
  <2> HIDE DEF n
  <2>3. CASE Dead(e)
    <3>1. 1 \in 1..n /\ 2 \notin 1..n
      BY <2>2, <2>3
    <3>2. n \in Nat
      BY <2>1
    <3>3. n = 1
      BY <3>1, <3>2
    <3> QED
      BY <2>3, <3>3 DEF n
  <2>4. CASE ~Dead(e)
    <3>1. 1 \notin 1..n
      BY <2>2, <2>4
    <3> QED
      BY <2>1, <2>4, <3>1 DEF n
  <2> QED
    BY <2>3, <2>4
<1>3. ASSUME NEW i \in DOMAIN deadLetters[e] PROVE i = 1 /\ Dead(e)
  BY <1>1, <1>3 DEF FiledRow
<1>4. ASSUME Dead(e) PROVE
        Cardinality(replays) = IF deadLetters[e][1].status = "replayed" THEN 1 ELSE 0
  <2>1. CASE deadLetters[e][1].status = "replayed"
    <3>1. PICK x \in Execution : replayOf[x] = e
      BY <1>1, <1>4, <2>1 DEF FiledRow
    <3>2. replays = {x}
      BY <1>1, <3>1 DEF FiledRow
    <3> HIDE DEF replays
    <3>3. Cardinality({x}) = 1
      BY FS_Singleton
    <3> QED
      BY <2>1, <3>2, <3>3
  <2>2. CASE deadLetters[e][1].status # "replayed"
    <3>1. replays = {}
      BY <2>2 DEF Filed, Linked, OneDeadLetter
    <3> HIDE DEF replays
    <3> QED
      BY <2>2, <3>1, FS_EmptySet
  <2> QED
    BY <2>1, <2>2
<1> QED
  BY <1>1, <1>2, <1>3, <1>4 DEF FiledRow, NamesFailedStep, Dead

LEMMA InitFiled == Init => Filed
<1> SUFFICES ASSUME Init PROVE Filed
  OBVIOUS
<1>1. \A x \in Execution : replayOf[x] \notin Execution
  BY QueueAssumption DEF Init
<1>2. \A e \in Execution : FiledRow(e)
  BY <1>1 DEF Init, FiledRow, Dead
<1> QED
  BY <1>2, InitSettled, InitLinked, InitBegun DEF Filed

\* Steps that file nothing, withdraw nothing and fail nothing.
LEMMA FiledQuietly ==
  ASSUME Filed, [Next]_vars, UNCHANGED <<deadLetters, replayOf, interrupted>>,
         \A f \in Execution : \/ status'[f] = status[f]
                              \/ status[f] # "failed" /\ status'[f] # "failed",
         NEW e \in Execution
  PROVE  FiledRow(e)'
<1>1. FiledRow(e) /\ Settled
  BY DEF Filed
<1>2. Dead(e)' <=> Dead(e)
  BY DEF Dead
<1>3. interrupted'[e] => status'[e] = "failed"
  BY <1>1 DEF FiledRow
<1>4. Dead(e) => NamesFailedStep(e)'
  BY <1>1, DeadStaysDead DEF FiledRow, NamesFailedStep
<1> QED
  BY <1>1, <1>2, <1>3, <1>4 DEF FiledRow

\* The first dead letter of an execution.
LEMMA FirstLetter ==
  ASSUME Typed, NEW e \in Execution, DOMAIN deadLetters[e] = {}, NEW d \in DeadLetter,
         deadLetters' = [deadLetters EXCEPT ![e] = Append(@, d)]
  PROVE  /\ DOMAIN deadLetters'[e] = {1} /\ deadLetters'[e][1] = d
         /\ \A f \in Execution \ {e} : deadLetters'[f] = deadLetters[f]
<1> DEFINE ds == deadLetters[e]
           n == Len(ds)
<1>1. ds \in Seq(DeadLetter) /\ n \in Nat /\ DOMAIN ds = 1..n
  BY TypesOf, LenProperties
<1>2. n = 0
  <2>1. 1..n = {} /\ n \in Nat
    BY <1>1
  <2> HIDE DEF n
  <2>2. 1 \notin 1..n
    BY <2>1
  <2> QED
    BY <2>1, <2>2
<1>3. deadLetters'[e] = Append(ds, d) /\ \A f \in Execution \ {e} : deadLetters'[f] = deadLetters[f]
  BY TypesOf
<1>4. Len(Append(ds, d)) = 1 /\ Append(ds, d)[1] = d /\ Append(ds, d) \in Seq(DeadLetter)
  BY <1>1, <1>2, AppendProperties
<1>5. DOMAIN Append(ds, d) = {1}
  BY <1>4, LenProperties
<1> QED
  BY <1>3, <1>4, <1>5

LEMMA FinalizeFiled ==
  ASSUME Filed, NEW w \in Worker, Finalize(w), NEW e \in Execution
  PROVE  FiledRow(e)'
<1> DEFINE j == job[w]
           s == FinalStatus(w, j)
<1>0. Typed /\ Run(w)
  BY DEF Filed, Linked, Run
<1>1. /\ pc[w] = "finalize" /\ status[j] = "running"
      /\ status' = [status EXCEPT ![j] = s]
      /\ UNCHANGED <<interrupted, replayOf>>
      /\ s # "cancelled" => UNCHANGED steps
      /\ IF s = "failed"
           THEN \E k \in 0..Len(steps[j]) :
                  /\ IsLatestFailed(j, k)
                  /\ deadLetters' = [deadLetters EXCEPT ![j] =
                       Append(@, [step |-> k, status |-> "pending"])]
           ELSE UNCHANGED deadLetters
  BY DEF Finalize, OwnsLiveLease
<1>2. j \in Execution /\ \A f \in Execution \ {j} : SameRow(f)
  BY <1>0, WorkerTouches
<1> HIDE DEF j, s
<1>3. status'[j] = s /\ \A f \in Execution \ {j} : status'[f] = status[f]
  BY <1>0, <1>1, <1>2, TypesOf
<1>4. CASE s # "failed"
  <2>1. UNCHANGED <<deadLetters, replayOf, interrupted>>
    BY <1>1, <1>4
  <2>2. [Next]_vars
    BY <1>0 DEF Next
  <2> QED
    BY <1>1, <1>2, <1>3, <1>4, <2>1, <2>2, FiledQuietly
<1>5. CASE s = "failed"
  <2>1. PICK k \in 0..Len(steps[j]) :
          /\ IsLatestFailed(j, k)
          /\ deadLetters' = [deadLetters EXCEPT ![j] =
               Append(@, [step |-> k, status |-> "pending"])]
    BY <1>1, <1>5
  <2> DEFINE d == [step |-> k, status |-> "pending"]
  <2>2. d \in DeadLetter /\ d.step = k /\ d.status = "pending"
    <3>1. Len(steps[j]) \in Nat
      BY <1>0, <1>2, TypesOf, LenProperties
    <3>2. k \in Nat
      BY <3>1
    <3> QED
      BY <3>2 DEF DeadLetter
  <2> HIDE DEF d
  <2>3. DOMAIN deadLetters[j] = {} /\ ~interrupted[j]
    BY <1>1, <1>2 DEF Filed, FiledRow, Dead
  <2>4. deadLetters' = [deadLetters EXCEPT ![j] = Append(@, d)]
    BY <2>1 DEF d
  <2>5. DOMAIN deadLetters'[j] = {1} /\ deadLetters'[j][1] = d
    BY <1>0, <1>2, <2>2, <2>3, <2>4, FirstLetter
  <2>6. CASE e = j
    <3>1. Dead(e)'
      BY <1>1, <1>3, <1>5, <2>3, <2>6 DEF Dead
    <3>2. NamesFailedStep(e)'
      <4>1. k # 0 => k \in DOMAIN steps[j] /\ steps[j][k].status = "failed"
        BY <2>1 DEF IsLatestFailed
      <4>2. UNCHANGED steps
        BY <1>1, <1>5
      <4> QED
        BY <2>2, <2>5, <2>6, <4>1, <4>2 DEF NamesFailedStep
    <3>3. \A x, y \in Execution : replayOf'[x] = e /\ replayOf'[y] = e => x = y
      BY <1>1 DEF Filed, FiledRow
    <3> QED
      BY <1>3, <1>5, <2>2, <2>5, <2>6, <3>1, <3>2, <3>3 DEF FiledRow
  <2>7. CASE e # j
    BY <1>1, <1>2, <2>7 DEF Filed, FiledRow, Dead, NamesFailedStep, SameRow
  <2> QED
    BY <2>6, <2>7
<1> QED
  BY <1>4, <1>5

LEMMA ResolveFiled ==
  ASSUME Filed, NEW f \in Execution, ResolveEvent(f), NEW e \in Execution
  PROVE  FiledRow(e)'
<1>1. PICK i \in DOMAIN deadLetters[f] :
        /\ deadLetters[f][i].status = "pending"
        /\ deadLetters' = [deadLetters EXCEPT ![f][i].status = "resolved"]
        /\ UNCHANGED <<rowVars, steps>>
  BY DEF ResolveEvent
<1>2. Typed /\ i = 1
  BY <1>1 DEF Filed, Linked, OneDeadLetter
<1>3. /\ DOMAIN deadLetters'[f] = DOMAIN deadLetters[f]
      /\ \A g \in Execution \ {f} : deadLetters'[g] = deadLetters[g]
      /\ deadLetters'[f][i] = [deadLetters[f][i] EXCEPT !.status = "resolved"]
  BY <1>1, <1>2, TypesOf, DeadLetterUpdate
<1>4. deadLetters'[f][1].status = "resolved" /\ deadLetters'[f][1].step = deadLetters[f][1].step
  <2>1. deadLetters[f][i] \in DeadLetter
    BY <1>1, <1>2, TypesOf, ElementOfSeq, LenProperties
  <2> QED
    BY <1>2, <1>3, <2>1 DEF DeadLetter
<1> QED
  BY <1>1, <1>3, <1>4 DEF Filed, FiledRow, Dead, NamesFailedStep, rowVars

LEMMA ReplayFiled ==
  ASSUME Filed, NEW f \in Execution, NEW r \in Execution, ReplayEvent(f, r),
         NEW e \in Execution
  PROVE  FiledRow(e)'
<1>1. PICK i \in DOMAIN deadLetters[f] :
        /\ deadLetters[f][i].status = "pending"
        /\ status[f] = "failed" /\ status[r] = "absent"
        /\ deadLetters' = [deadLetters EXCEPT ![f][i].status = "replayed"]
        /\ status' = [status EXCEPT ![r] = "pending"]
        /\ replayOf' = [replayOf EXCEPT ![r] = f]
        /\ UNCHANGED <<interrupted, steps>>
  BY DEF ReplayEvent, Replayable
<1>2. Typed /\ i = 1
  BY <1>1 DEF Filed, Linked, OneDeadLetter
<1>3. /\ DOMAIN deadLetters'[f] = DOMAIN deadLetters[f]
      /\ \A g \in Execution \ {f} : deadLetters'[g] = deadLetters[g]
      /\ deadLetters'[f][i] = [deadLetters[f][i] EXCEPT !.status = "replayed"]
  BY <1>1, <1>2, TypesOf, DeadLetterUpdate
<1>4. deadLetters'[f][1].step = deadLetters[f][1].step
  <2>1. deadLetters[f][i] \in DeadLetter
    BY <1>1, <1>2, TypesOf, ElementOfSeq, LenProperties
  <2> QED
    BY <1>2, <1>3, <2>1 DEF DeadLetter
<1>5. /\ replayOf[r] = None /\ r # f
      /\ \A x \in Execution : replayOf'[x] = IF x = r THEN f ELSE replayOf[x]
      /\ \A g \in Execution : status'[g] = IF g = r THEN "pending" ELSE status[g]
      /\ ~interrupted[r]
  BY <1>1, <1>2, TypesOf DEF Filed, Begun, Blank, FiledRow
<1>6. \A x \in Execution : replayOf[x] # f
  BY <1>1, <1>2 DEF Filed, Linked, OneDeadLetter
<1>7. Dead(e)' <=> Dead(e)
  BY <1>1, <1>5 DEF Dead
<1>8. FiledRow(e)
  BY DEF Filed
<1>9. NamesFailedStep(e)' <=> NamesFailedStep(e)
  BY <1>1, <1>3, <1>4 DEF NamesFailedStep
<1>10. \A x, y \in Execution : replayOf'[x] = e /\ replayOf'[y] = e => x = y
  BY <1>5, <1>6, <1>8 DEF FiledRow
<1>11. Dead(e)' /\ deadLetters'[e][1].status = "replayed" =>
         \E x \in Execution : replayOf'[x] = e
  <2>1. CASE e = f
    BY <1>5, <2>1
  <2>2. CASE e # f
    <3>1. e # None
      BY QueueAssumption
    <3> QED
      BY <1>3, <1>5, <1>7, <1>8, <2>2, <3>1 DEF FiledRow
  <2> QED
    BY <2>1, <2>2
<1>12. interrupted'[e] => status'[e] = "failed"
  BY <1>1, <1>5, <1>8 DEF FiledRow
<1>13. DOMAIN deadLetters'[e] = IF Dead(e)' THEN {1} ELSE {}
  BY <1>3, <1>7, <1>8 DEF FiledRow
<1> QED
  BY <1>7, <1>8, <1>9, <1>10, <1>11, <1>12, <1>13 DEF FiledRow

LEMMA NextFiled == Filed /\ [Next]_vars => Filed'
<1> SUFFICES ASSUME Filed, [Next]_vars PROVE Filed'
  OBVIOUS
<1> DEFINE Goal == \A e \in Execution : FiledRow(e)'
<1>0. Typed
  BY DEF Filed, Linked
<1>1. Settled' /\ Linked' /\ Begun'
  BY NextSettled, NextLinked, NextBegun DEF Filed
<1>2. ASSUME UNCHANGED <<deadLetters, replayOf, interrupted>>,
             \A f \in Execution : \/ status'[f] = status[f]
                                  \/ status[f] # "failed" /\ status'[f] # "failed"
      PROVE  Goal
  BY <1>2, FiledQuietly
<1>3. ASSUME NEW w \in Worker, Run(w) \/ Crash(w) \/ HeartbeatCancels(w) PROVE Goal
  <2>1. CASE Finalize(w)
    BY <2>1, FinalizeFiled
  <2>2. CASE ApprovalHandoff(w)
    <3>1. UNCHANGED <<deadLetters, replayOf, interrupted>>
      BY <2>2 DEF ApprovalHandoff
    <3> QED
      BY <1>0, <1>2, <2>2, <3>1, TypesOf DEF ApprovalHandoff, HandoffAllowed
  <2>3. CASE UNCHANGED <<status, deadLetters>>
    BY <1>0, <1>2, <1>3, <2>3, WorkerTouches
  <2> QED
    BY <1>3, <2>1, <2>2, <2>3, WorkerWrites
<1>4. ASSUME NEW w \in Worker, NEW f \in Execution, ClaimPending(w, f) PROVE Goal
  BY <1>0, <1>2, <1>4, TypesOf DEF ClaimPending, Claimable
<1>5. ASSUME NEW f \in Execution, CleanupExpired(f) PROVE Goal
  <2>1. /\ status[f] = "running"
        /\ status' = [status EXCEPT ![f] = "failed"]
        /\ interrupted' = [interrupted EXCEPT ![f] = TRUE]
        /\ steps' = [steps EXCEPT ![f] = CloseSteps(f, {"pending", "running"}, "failed")]
        /\ UNCHANGED <<deadLetters, replayOf>>
    BY <1>5 DEF CleanupExpired, Expired
  <2>2. /\ \A g \in Execution : status'[g] = IF g = f THEN "failed" ELSE status[g]
        /\ \A g \in Execution : interrupted'[g] = IF g = f THEN TRUE ELSE interrupted[g]
        /\ \A g \in Execution \ {f} : steps'[g] = steps[g]
    BY <1>0, <2>1, TypesOf
  <2>3. ASSUME NEW e \in Execution PROVE FiledRow(e)'
    <3>1. FiledRow(e)
      BY DEF Filed
    <3>2. CASE e = f
      <4>1. ~Dead(e) /\ ~Dead(e)'
        BY <2>1, <2>2, <3>2 DEF Dead
      <4> QED
        BY <2>1, <2>2, <3>1, <3>2, <4>1 DEF FiledRow
    <3>3. CASE e # f
      BY <2>1, <2>2, <3>1, <3>3 DEF FiledRow, Dead, NamesFailedStep
    <3> QED
      BY <3>2, <3>3
  <2> QED
    BY <2>3
<1>6. ASSUME NEW f \in Execution, Request(f) \/ LeaseExpires(f) PROVE Goal
  <2>1. CASE CreatePending(f)
    BY <1>0, <1>2, <2>1, TypesOf DEF CreatePending
  <2>2. CASE RequestCancellation(f)
    BY <1>0, <1>2, <2>2, TypesOf DEF RequestCancellation, CancelledAtOnce
  <2>3. CASE ResolveEvent(f)
    BY <2>3, ResolveFiled
  <2>4. ASSUME NEW d \in {"approved", "rejected"}, DecideApproval(f, d) PROVE Goal
    <3>1. /\ status[f] = "waiting_for_approval"
          /\ status' = [status EXCEPT ![f] = "pending"]
          /\ UNCHANGED <<deadLetters, replayOf, interrupted>>
      BY <2>4 DEF DecideApproval, Decidable
    <3> QED
      BY <1>0, <1>2, <3>1, TypesOf
  <2>5. ASSUME NEW r \in Execution, ReplayEvent(f, r) PROVE Goal
    BY <2>5, ReplayFiled
  <2>6. CASE LeaseExpires(f)
    BY <1>2, <2>6 DEF LeaseExpires
  <2> QED
    BY <1>6, <2>1, <2>2, <2>3, <2>4, <2>5, <2>6 DEF Request
<1>7. ASSUME UNCHANGED vars PROVE Goal
  BY <1>2, <1>7 DEF vars, rowVars
<1> HIDE DEF Goal
<1>8. Goal
  BY <1>3, <1>4, <1>5, <1>6, <1>7 DEF Next
<1> QED
  BY <1>1, <1>8 DEF Filed, Goal

\* Whatever fails or is lost, every final failure is in the dead letter queue
\* once, with a step that stays failed, and is replayed at most once.
THEOREM FailuresAreFiled == Spec => []DeadLetterCoverage
<1> QED
  BY InitFiled, NextFiled, FiledMeans, PTL DEF Spec

-----------------------------------------------------------------------------
(* Where a replay begins.  If the context saved at a failure is never lost, *)
(* a final failure leaves no checkpoint behind, so its replay copies none   *)
(* and begins at the node that failed.                                      *)

ContextsSaved == "save_context_lost" \notin Fault

NoSteps(e) == 1 \notin DOMAIN steps[e]

\* What may happen to the checkpoint of an execution and to its origin.
LEMMA RowWrites ==
  ASSUME Typed, [Next]_vars, NEW e \in Execution
  PROVE  \/ \E f \in Execution : ReplayEvent(f, e)
         \/ /\ replayOf'[e] = replayOf[e] /\ replayStart'[e] = replayStart[e]
            /\ \/ context'[e] = context[e]
               \/ context'[e].resume = NoResume
               \/ \E d \in {"approved", "rejected"} : DecideApproval(e, d)
<1> DEFINE Goal ==
         \/ \E f \in Execution : ReplayEvent(f, e)
         \/ /\ replayOf'[e] = replayOf[e] /\ replayStart'[e] = replayStart[e]
            /\ \/ context'[e] = context[e]
               \/ context'[e].resume = NoResume
               \/ \E d \in {"approved", "rejected"} : DecideApproval(e, d)
<1>1. ASSUME NEW w \in Worker, Run(w) \/ Crash(w) \/ HeartbeatCancels(w) PROVE Goal
  <2>1. /\ UNCHANGED <<replayOf, replayStart>>
        /\ e # job[w] => context'[e] = context[e]
    BY <1>1, WorkerTouches DEF SameRow
  <2>2. ASSUME e = job[w] PROVE context'[e] = context[e] \/ context'[e].resume = NoResume
    <3> DEFINE c == [saved |-> TRUE, outputs |-> outputs[w], resume |-> NoResume]
    <3>1. c.resume = NoResume
      OBVIOUS
    <3>2. CASE ApprovalHandoff(w) \/ Finalize(w)
      <4>1. UNCHANGED context \/ context' = [context EXCEPT ![e] = c]
        BY <2>2, <3>2 DEF ApprovalHandoff, Finalize
      <4> HIDE DEF c
      <4> QED
        BY <3>1, <4>1, TypesOf
    <3>3. CASE SaveFailureContext(w)
      BY <2>2, <3>3, SaveEffect
    <3> QED
      BY <1>1, <3>2, <3>3, WorkerWrites
  <2> QED
    BY <2>1, <2>2
<1>2. ASSUME NEW w \in Worker, NEW f \in Execution, ClaimPending(w, f) PROVE Goal
  BY <1>2 DEF ClaimPending
<1>3. ASSUME NEW f \in Execution, Request(f) \/ LeaseExpires(f) \/ CleanupExpired(f) PROVE Goal
  <2>1. CASE \/ CreatePending(f) \/ RequestCancellation(f) \/ ResolveEvent(f)
             \/ LeaseExpires(f) \/ CleanupExpired(f)
    BY <2>1 DEF CreatePending, RequestCancellation, ResolveEvent, LeaseExpires,
       CleanupExpired, rowVars
  <2>2. ASSUME NEW d \in {"approved", "rejected"}, DecideApproval(f, d) PROVE Goal
    <3>1. /\ UNCHANGED <<replayOf, replayStart>>
          /\ e # f => context'[e] = context[e]
      BY <2>2, TypesOf DEF DecideApproval
    <3> QED
      BY <2>2, <3>1
  <2>3. ASSUME NEW r \in Execution, ReplayEvent(f, r) PROVE Goal
    <3>1. e # r => /\ replayOf'[e] = replayOf[e] /\ replayStart'[e] = replayStart[e]
                   /\ context'[e] = context[e]
      BY <2>3, TypesOf DEF ReplayEvent
    <3> QED
      BY <2>3, <3>1
  <2> QED
    BY <1>3, <2>1, <2>2, <2>3 DEF Request
<1>4. ASSUME UNCHANGED vars PROVE Goal
  BY <1>4 DEF vars, rowVars
<1> HIDE DEF Goal
<1>5. Goal
  BY <1>1, <1>2, <1>3, <1>4 DEF Next
<1> QED
  BY <1>5 DEF Goal

\* Only a worker that creates a step makes an execution longer.
LEMMA Growth ==
  ASSUME Typed, [Next]_vars, NEW e \in Execution
  PROVE  \/ \E w \in Worker : CreateStep(w) /\ job[w] = e
         \/ /\ DOMAIN steps'[e] = DOMAIN steps[e]
            /\ \A i \in DOMAIN steps[e] :
                 steps'[e][i].status = "waiting_for_approval" =>
                   \/ steps[e][i].status = "waiting_for_approval"
                   \/ \E w \in Worker : pc[w] = "handoff" /\ job[w] = e /\ step[w] = i
<1> DEFINE Goal ==
         \/ \E w \in Worker : CreateStep(w) /\ job[w] = e
         \/ /\ DOMAIN steps'[e] = DOMAIN steps[e]
            /\ \A i \in DOMAIN steps[e] :
                 steps'[e][i].status = "waiting_for_approval" =>
                   \/ steps[e][i].status = "waiting_for_approval"
                   \/ \E w \in Worker : pc[w] = "handoff" /\ job[w] = e /\ step[w] = i
<1>1. ASSUME NEW w \in Worker, Run(w) \/ Crash(w) \/ HeartbeatCancels(w) PROVE Goal
  <2>1. CASE e # job[w]
    BY <1>1, <2>1, WorkerTouches DEF SameRow
  <2>2. CASE e = job[w]
    BY <1>1, <2>2, WorkerSteps DEF OnlyStep, Closing
  <2> QED
    BY <2>1, <2>2
<1>2. ASSUME NEW f \in Execution, Request(f) \/ LeaseExpires(f) \/ CleanupExpired(f) PROVE Goal
  <2>1. CASE f = e
    BY <1>2, <2>1, EventSteps DEF OnlyStep, Closing
  <2>2. CASE f # e
    BY <1>2, <2>2, EventSteps DEF OnlyStep, Closing
  <2> QED
    BY <2>1, <2>2
<1>3. ASSUME UNCHANGED steps PROVE Goal
  BY <1>3
<1> HIDE DEF Goal
<1>4. Goal
  BY <1>1, <1>2, <1>3 DEF Next, ClaimPending, vars
<1> QED
  BY <1>4 DEF Goal

\* What a replay takes over from the execution it replays.
LEMMA ReplayFacts ==
  ASSUME Filed, NEW f \in Execution, NEW r \in Execution, ReplayEvent(f, r)
  PROVE  LET k == deadLetters[f][1].step IN
         /\ Dead(f) /\ status[r] = "absent" /\ r # f
         /\ k \in DOMAIN steps[f] /\ k # 0 /\ steps[f][k].status = "failed"
         /\ SafeToReplay(steps[f][k].node) /\ ~DownstreamAttempted(f, steps[f][k].node)
         /\ steps[f][k].node \in Node
         /\ context'[r] = context[f] /\ replayOf'[r] = f
         /\ replayStart'[r] = steps[f][k].node
         /\ \A g \in Execution \ {r} :
              /\ status'[g] = status[g] /\ context'[g] = context[g]
              /\ replayOf'[g] = replayOf[g] /\ replayStart'[g] = replayStart[g]
         /\ status'[r] = "pending"
         /\ UNCHANGED <<claimedBy, interrupted, steps, pc, localVars, effects>>
<1> DEFINE k == deadLetters[f][1].step
<1>1. PICK i \in DOMAIN deadLetters[f] :
        /\ Replayable(f, i) /\ status[r] = "absent"
        /\ status' = [status EXCEPT ![r] = "pending"]
        /\ context' = [context EXCEPT ![r] = context[f]]
        /\ replayOf' = [replayOf EXCEPT ![r] = f]
        /\ replayStart' = [replayStart EXCEPT ![r] =
             steps[f][deadLetters[f][i].step].node]
        /\ UNCHANGED <<claimedBy, interrupted, steps, pc, localVars, effects>>
  BY DEF ReplayEvent
<1>2. Typed /\ i = 1 /\ Dead(f)
  BY <1>1 DEF Filed, Linked, FiledRow
<1>3. /\ status[f] = "failed" /\ k \in DOMAIN steps[f] /\ steps[f][k].status = "failed"
      /\ SafeToReplay(steps[f][k].node) /\ ~DownstreamAttempted(f, steps[f][k].node)
  BY <1>1, <1>2 DEF Replayable
<1>4. steps[f] \in Seq(Step) /\ k \in 1..Len(steps[f]) /\ steps[f][k] \in Step
  BY <1>2, <1>3, TypesOf, StepsAreSteps, LenProperties
<1>5. k # 0 /\ steps[f][k].node \in Node
  BY <1>4, LenProperties DEF Step
<1> QED
  BY <1>1, <1>2, <1>3, <1>5, TypesOf

\* A dead letter goes on naming the same step.
LEMMA LettersKept ==
  ASSUME Filed, [Next]_vars, NEW e \in Execution, Dead(e)
  PROVE  deadLetters'[e][1].step = deadLetters[e][1].step
<1> DEFINE Goal == deadLetters'[e][1].step = deadLetters[e][1].step
<1>0. Typed /\ status[e] = "failed" /\ deadLetters \in [Execution -> Seq(DeadLetter)]
  BY TypesOf DEF Filed, Linked, Dead
<1>1. ASSUME NEW w \in Worker, Run(w) \/ Crash(w) \/ HeartbeatCancels(w) PROVE Goal
  <2>1. CASE e = job[w]
    <3>1. ~Finalize(w)
      BY <1>0, <2>1 DEF Finalize, OwnsLiveLease
    <3> QED
      BY <1>1, <3>1, WorkerWrites DEF ApprovalHandoff
  <2>2. CASE e # job[w]
    BY <1>0, <1>1, <2>2, WorkerTouches DEF SameRow
  <2> QED
    BY <2>1, <2>2
<1>2. ASSUME NEW f \in Execution, NEW i \in DOMAIN deadLetters[f],
             NEW s \in {"pending", "replayed", "resolved"},
             deadLetters' = [deadLetters EXCEPT ![f][i].status = s]
      PROVE  Goal
  <2>1. i = 1
    BY DEF Filed, FiledRow
  <2>2. deadLetters[f][i] \in DeadLetter
    BY <1>0, ElementOfSeq, LenProperties
  <2>3. /\ \A g \in Execution \ {f} : deadLetters'[g] = deadLetters[g]
        /\ deadLetters'[f][i] = [deadLetters[f][i] EXCEPT !.status = s]
    BY <1>0, <1>2, DeadLetterUpdate
  <2>4. deadLetters'[f][1].step = deadLetters[f][1].step
    BY <2>1, <2>2, <2>3 DEF DeadLetter
  <2> QED
    BY <2>3, <2>4
<1>3. ASSUME NEW f \in Execution, Request(f) PROVE Goal
  <2>1. CASE ResolveEvent(f) \/ \E r \in Execution : ReplayEvent(f, r)
    <3>1. \E i \in DOMAIN deadLetters[f], s \in {"pending", "replayed", "resolved"} :
            deadLetters' = [deadLetters EXCEPT ![f][i].status = s]
      BY <2>1 DEF ResolveEvent, ReplayEvent
    <3> QED
      BY <1>2, <3>1
  <2>2. CASE UNCHANGED deadLetters
    BY <2>2
  <2> QED
    BY <1>3, <2>1, <2>2 DEF Request, CreatePending, RequestCancellation, DecideApproval
<1>4. ASSUME UNCHANGED deadLetters PROVE Goal
  BY <1>4
<1> HIDE DEF Goal
<1>5. Goal
  BY <1>1, <1>3, <1>4 DEF Next, ClaimPending, LeaseExpires, CleanupExpired, vars
<1> QED
  BY <1>5 DEF Goal

\* Only finalization by its owner makes a failure final.
LEMMA NewlyDead ==
  ASSUME Filed, [Next]_vars, NEW e \in Execution, ~Dead(e),
         status'[e] = "failed", ~interrupted'[e]
  PROVE  \E w \in Worker :
           /\ job[w] = e /\ pc[w] = "finalize" /\ outcome[w] = "failed" /\ claimedBy[e] = w
           /\ context'[e] = context[e] /\ steps'[e] = steps[e]
<1> DEFINE Goal ==
      \E w \in Worker :
           /\ job[w] = e /\ pc[w] = "finalize" /\ outcome[w] = "failed" /\ claimedBy[e] = w
           /\ context'[e] = context[e] /\ steps'[e] = steps[e]
<1>0. Typed /\ FiledRow(e) /\ (status[e] = "failed" => interrupted[e])
  BY DEF Filed, Linked, Dead
<1>1. ASSUME NEW w \in Worker, Run(w) \/ Crash(w) \/ HeartbeatCancels(w) PROVE Goal
  <2>1. interrupted'[e] = interrupted[e] /\ status[e] # "failed"
    BY <1>0, <1>1, WorkerTouches
  <2>2. e = job[w]
    BY <1>0, <1>1, <2>1, WorkerTouches DEF SameRow
  <2>3. Finalize(w)
    <3>1. ~UNCHANGED status
      BY <2>1
    <3>2. ~ApprovalHandoff(w)
      BY <1>0, <2>2, TypesOf DEF ApprovalHandoff
    <3> QED
      BY <1>1, <3>1, <3>2, WorkerWrites
  <2>4. FinalStatus(w, e) = "failed"
    BY <1>0, <2>2, <2>3, TypesOf DEF Finalize
  <2>5. outcome[w] = "failed" /\ UNCHANGED <<context, steps>>
    BY <2>2, <2>3, <2>4 DEF Finalize, FinalStatus
  <2> QED
    BY <2>2, <2>3, <2>5 DEF Finalize, OwnsLiveLease
<1>2. ASSUME NEW w \in Worker, NEW f \in Execution, ClaimPending(w, f) PROVE FALSE
  BY <1>0, <1>2, TypesOf DEF ClaimPending
<1>3. ASSUME NEW f \in Execution, Request(f) \/ LeaseExpires(f) PROVE FALSE
  <2> USE <1>0, TypesOf DEF rowVars
  <2>1. CASE CreatePending(f) \/ ResolveEvent(f) \/ LeaseExpires(f)
    BY <2>1 DEF CreatePending, ResolveEvent, LeaseExpires
  <2>2. CASE RequestCancellation(f)
    BY <2>2 DEF RequestCancellation
  <2>3. ASSUME NEW d \in {"approved", "rejected"}, DecideApproval(f, d) PROVE FALSE
    BY <2>3 DEF DecideApproval
  <2>4. ASSUME NEW r \in Execution, ReplayEvent(f, r) PROVE FALSE
    BY <2>4 DEF ReplayEvent
  <2> QED
    BY <1>3, <2>1, <2>2, <2>3, <2>4 DEF Request
<1>4. ASSUME NEW f \in Execution, CleanupExpired(f) PROVE FALSE
  BY <1>0, <1>4, TypesOf DEF CleanupExpired
<1>5. ASSUME UNCHANGED vars PROVE FALSE
  BY <1>0, <1>5 DEF vars, rowVars
<1> HIDE DEF Goal
<1>6. Goal
  BY <1>1, <1>2, <1>3, <1>4, <1>5 DEF Next
<1> QED
  BY <1>6 DEF Goal

\* What is owned and all done stays so until its owner moves or loses it.
LEMMA OwnedStaysDone ==
  ASSUME Settled, [Next]_vars, NEW v \in Worker, pc[v] \in Ending, job[v] \in Execution,
         claimedBy[job[v]] = v, claimedBy'[job[v]] = v, SameWorker(v)
  PROVE  /\ AllDone(job[v]) => AllDone(job[v])'
         /\ context'[job[v]] = context[job[v]] \/ context'[job[v]].resume = NoResume
<1> DEFINE e == job[v]
           Goal == steps'[e] = steps[e] \/ ~AllDone(e)
<1>0. /\ Typed /\ Coupled /\ status[e] = "running" /\ v # None
      /\ claimedBy \in [Execution -> Worker \cup {None}]
  BY QueueAssumption, TypesOf DEF Settled, Coupled, Owned, OwnerOnlyRunning
<1>1. ASSUME NEW w \in Worker, Run(w) \/ Crash(w) \/ HeartbeatCancels(w) PROVE Goal
  <2>1. CASE job[w] # e
    BY <1>0, <1>1, <2>1, WorkerTouches DEF SameRow
  <2>2. CASE job[w] = e /\ w # v
    <3>1. pc[w] \notin Looping
      BY <1>0, <2>2, LoopFacts
    <3>2. ~CreateStep(w)
      BY <3>1 DEF CreateStep, Looping
    <3> QED
      BY <1>0, <1>1, <2>2, <3>1, <3>2, WorkerSteps DEF AllDone, Done, Unfinished, Looping
  <2>3. CASE w = v
    <3>1. ~CreateStep(w) /\ ~Finalize(w)
      BY <1>0, <2>3, TypesOf DEF CreateStep, Finalize, GoTo, SameWorker, Ending
    <3>2. CASE pc[w] = "finalize"
      <4>1. Run(w) \/ Crash(w) \/ HeartbeatCancels(w)
        BY <1>1
      <4>2. OwnershipLost(w) \/ Crash(w)
        BY <3>1, <3>2, <4>1 DEF Run, LoadExecution, CheckCancellation, CreateStep, StartStep,
           InvokeNode, InvokeFails, RecordCompleted, ApprovalHandoff, HandoffRefused, Raise,
           MarkStepFailed, SaveFailureContext, HeartbeatCancels, Looping
      <4> QED
        BY <4>2 DEF OwnershipLost, Crash
    <3>3. CASE pc[w] # "finalize"
      BY <1>0, <1>1, <2>3, <3>1, <3>3, WorkerSteps DEF AllDone, Done, Unfinished, Ending
    <3> QED
      BY <3>2, <3>3
  <2> QED
    BY <2>1, <2>2, <2>3
<1>2. ASSUME NEW f \in Execution, Request(f) \/ LeaseExpires(f) \/ CleanupExpired(f) PROVE Goal
  <2>1. CASE f = e
    <3>1. ~CleanupExpired(e)
      BY <1>0 DEF CleanupExpired, Release
    <3>2. UNCHANGED steps
      BY <1>0, <1>2, <2>1, <3>1 DEF Request, CreatePending, RequestCancellation,
         CancelledAtOnce, ResolveEvent, DecideApproval, Decidable, ReplayEvent, LeaseExpires
    <3> QED
      BY <3>2
  <2>2. CASE f # e
    BY <1>0, <1>2, <2>2, EventSteps DEF OnlyStep, Closing
  <2> QED
    BY <2>1, <2>2
<1>3. ASSUME UNCHANGED steps PROVE Goal
  BY <1>3
<1> HIDE DEF Goal
<1>4. Goal
  BY <1>1, <1>2, <1>3 DEF Next, ClaimPending, vars
<1>5. AllDone(job[v]) => AllDone(job[v])'
  <2>1. job'[v] = job[v]
    BY DEF SameWorker
  <2> QED
    BY <1>4, <2>1 DEF Goal, AllDone, Done
<1>6. context'[e] = context[e] \/ context'[e].resume = NoResume
  <2>1. \A d : ~DecideApproval(e, d)
    BY <1>0 DEF DecideApproval, Decidable
  <2>2. \A f \in Execution : ~ReplayEvent(f, e)
    BY <1>0 DEF ReplayEvent
  <2> QED
    BY <1>0, <2>1, <2>2, RowWrites
<1> QED
  BY <1>5, <1>6

FreshRow(e) ==
  /\ replayOf[e] # None => replayStart[e] # None
  /\ NoSteps(e) => context[e].resume = NoResume
  /\ Dead(e) /\ deadLetters[e][1].step # 0 => context[e].resume = NoResume
  /\ replayStart[e] # None /\ ~NoSteps(e) => steps[e][1].node = replayStart[e]

\* A worker before its first step is where the replay begins; an owner that
\* reports a failure has saved a context without checkpoint, or no step failed.
FreshWorker(w) ==
  /\ pc[w] \in {"check", "create"} /\ NoSteps(job[w]) /\ replayStart[job[w]] # None =>
       at[w] = replayStart[job[w]]
  /\ pc[w] = "finalize" /\ outcome[w] = "failed" /\ claimedBy[job[w]] = w =>
       context[job[w]].resume = NoResume \/ AllDone(job[w])

Fresh ==
  /\ Filed
  /\ \A e \in Execution : FreshRow(e)
  /\ \A w \in Worker : FreshWorker(w)

LEMMA FreshMeans == Fresh => ReplayStartsAtFailedNode
<1> SUFFICES ASSUME Fresh, NEW e \in Execution, replayOf[e] # None, steps[e] # <<>>
             PROVE  steps[e][1].node = replayStart[e]
  BY DEF ReplayStartsAtFailedNode
<1>1. steps[e] \in Seq(Step) /\ FreshRow(e)
  BY TypesOf DEF Fresh, Filed, Linked
<1>2. 1 \in DOMAIN steps[e]
  BY <1>1
<1> QED
  BY <1>1, <1>2 DEF FreshRow, NoSteps

LEMMA InitFresh == Init => Fresh
<1> SUFFICES ASSUME Init PROVE Fresh
  OBVIOUS
<1>1. \A e \in Execution : FreshRow(e)
  BY DEF Init, FreshRow, NoSteps, EmptyContext, Dead
<1>2. \A w \in Worker : FreshWorker(w)
  BY DEF Init, FreshWorker
<1> QED
  BY <1>1, <1>2, InitFiled DEF Fresh

LEMMA FreshRowKept ==
  ASSUME ContextsSaved, Fresh, [Next]_vars, NEW e \in Execution
  PROVE  FreshRow(e)'
<1>0. Filed /\ Typed /\ FreshRow(e) /\ Filed'
  BY NextFiled DEF Fresh, Filed, Linked
<1>1. CASE \E f \in Execution : ReplayEvent(f, e)
  <2>1. PICK f \in Execution : ReplayEvent(f, e)
    BY <1>1
  <2>2. /\ Dead(f) /\ deadLetters[f][1].step # 0 /\ status[e] = "absent"
        /\ context'[e] = context[f] /\ replayStart'[e] \in Node
        /\ status'[e] = "pending" /\ UNCHANGED steps
    BY <1>0, <2>1, ReplayFacts
  <2>3. context'[e].resume = NoResume
    BY <2>2 DEF Fresh, FreshRow
  <2>4. steps[e] = <<>>
    BY <2>2 DEF Fresh, Filed, Begun, Blank
  <2>5. replayStart'[e] # None
    BY <2>2, QueueAssumption
  <2> QED
    BY <2>2, <2>3, <2>4, <2>5 DEF FreshRow, Dead, NoSteps
<1>2. CASE /\ replayOf'[e] = replayOf[e] /\ replayStart'[e] = replayStart[e]
           /\ \/ context'[e] = context[e]
              \/ context'[e].resume = NoResume
              \/ \E d \in {"approved", "rejected"} : DecideApproval(e, d)
  <2>1. NoSteps(e)' => NoSteps(e)
    BY <1>0, HistoryKept DEF NoSteps
  <2>2. NoSteps(e)' => context'[e].resume = NoResume
    <3>1. NoSteps(e) => \A d \in {"approved", "rejected"} : ~DecideApproval(e, d)
      <4>1. steps[e] \in Seq(Step)
        BY <1>0, TypesOf
      <4>2. \A i \in DOMAIN steps[e] : 1 \in DOMAIN steps[e]
        BY <4>1, LenProperties
      <4> QED
        BY <4>2 DEF NoSteps, DecideApproval
    <3> QED
      BY <1>0, <1>2, <2>1, <3>1 DEF FreshRow
  <2>3. Dead(e)' /\ deadLetters'[e][1].step # 0 => context'[e].resume = NoResume
    <3>1. CASE Dead(e)
      BY <1>0, <3>1, DeadStaysDead, LettersKept DEF Filed, FreshRow
    <3>2. CASE ~Dead(e) /\ Dead(e)' /\ deadLetters'[e][1].step # 0
      <4>1. PICK w \in Worker :
              /\ job[w] = e /\ pc[w] = "finalize" /\ outcome[w] = "failed" /\ claimedBy[e] = w
              /\ context'[e] = context[e] /\ steps'[e] = steps[e]
        BY <1>0, <3>2, NewlyDead DEF Dead
      <4>2. \E k \in DOMAIN steps[e] : steps[e][k].status = "failed"
        BY <1>0, <3>2, <4>1 DEF Filed, FiledRow, NamesFailedStep
      <4>3. ~AllDone(e)
        BY <4>2 DEF AllDone, Done
      <4> QED
        BY <4>1, <4>3 DEF Fresh, FreshWorker
    <3> QED
      BY <3>1, <3>2
  <2>4. replayStart'[e] # None /\ ~NoSteps(e)' => steps'[e][1].node = replayStart'[e]
    <3>1. CASE ~NoSteps(e)
      BY <1>0, <1>2, <3>1, HistoryKept DEF FreshRow, NoSteps
    <3>2. CASE NoSteps(e) /\ ~NoSteps(e)' /\ replayStart[e] # None
      <4>1. PICK w \in Worker : CreateStep(w) /\ job[w] = e
        BY <1>0, <3>2, Growth DEF NoSteps
      <4>2. LET k == step'[w] IN
            k \notin DOMAIN steps[e] /\ DOMAIN steps'[e] = DOMAIN steps[e] \cup {k}
            /\ steps'[e][k].node = at[w]
        BY <1>0, <4>1, CreateEffect
      <4>3. 1 = step'[w]
        BY <3>2, <4>2 DEF NoSteps
      <4>4. at[w] = replayStart[e]
        BY <3>2, <4>1 DEF CreateStep, Fresh, FreshWorker
      <4> QED
        BY <1>2, <4>2, <4>3, <4>4
    <3> QED
      BY <1>2, <3>1, <3>2
  <2> QED
    BY <1>0, <1>2, <2>2, <2>3, <2>4 DEF FreshRow
<1> QED
  BY <1>0, <1>1, <1>2, RowWrites

\* Nobody but a worker that claims it becomes the owner of an execution.
LEMMA OwnerBefore ==
  ASSUME Typed, [Next]_vars, NEW e \in Execution, NEW v \in Worker, pc[v] # "idle",
         claimedBy'[e] = v
  PROVE  claimedBy[e] = v
<1>0. v # None /\ claimedBy \in [Execution -> Worker \cup {None}]
  BY QueueAssumption, TypesOf
<1>1. ASSUME NEW f \in Execution, Release(f) PROVE claimedBy[e] = v
  BY <1>0, <1>1 DEF Release
<1>2. ASSUME NEW w \in Worker, Run(w) \/ Crash(w) \/ HeartbeatCancels(w)
      PROVE  claimedBy[e] = v
  <2>1. UNCHANGED claimedBy \/ Release(job[w])
    BY <1>2, WorkerWrites DEF ApprovalHandoff, Finalize
  <2> QED
    BY <1>1, <1>2, <2>1, WorkerTouches
<1>3. ASSUME NEW w \in Worker, NEW f \in Execution, ClaimPending(w, f)
      PROVE  claimedBy[e] = v
  BY <1>0, <1>3 DEF ClaimPending
<1>4. ASSUME NEW f \in Execution, Request(f) \/ LeaseExpires(f) \/ CleanupExpired(f)
      PROVE  claimedBy[e] = v
  <2>1. CASE RequestCancellation(f) \/ CleanupExpired(f)
    BY <1>0, <1>1, <2>1 DEF RequestCancellation, CleanupExpired
  <2>2. UNCHANGED claimedBy \/ RequestCancellation(f) \/ CleanupExpired(f)
    BY <1>4 DEF Request, CreatePending, ResolveEvent, DecideApproval, ReplayEvent,
       LeaseExpires, rowVars
  <2> QED
    BY <2>1, <2>2
<1> QED
  BY <1>2, <1>3, <1>4 DEF Next, vars, rowVars

\* The row a worker runs is not written by a replay.
LEMMA OriginKept ==
  ASSUME Filed, [Next]_vars, NEW v \in Worker, pc[v] \in Active
  PROVE  /\ job[v] \in Execution
         /\ replayOf'[job[v]] = replayOf[job[v]]
         /\ replayStart'[job[v]] = replayStart[job[v]]
<1>1. job[v] \in Execution /\ status[job[v]] # "absent" /\ Typed
  BY DEF Filed, Linked, Begun, Active, Typed, WorkerOK
<1>2. \A f \in Execution : ~ReplayEvent(f, job[v])
  BY <1>1 DEF ReplayEvent
<1> QED
  BY <1>1, <1>2, RowWrites

LEMMA OtherFreshKept ==
  ASSUME Fresh, [Next]_vars, NEW v \in Worker, SameWorker(v)
  PROVE  FreshWorker(v)'
<1>0. Filed /\ Settled /\ Typed /\ FreshWorker(v) /\ job'[v] = job[v] /\ pc'[v] = pc[v]
  BY DEF Fresh, Filed, Linked, SameWorker
<1>1. ASSUME pc[v] \in {"check", "create"}, ~(1 \in DOMAIN steps'[job[v]])
      PROVE  NoSteps(job[v]) /\ replayStart'[job[v]] = replayStart[job[v]]
  BY <1>0, <1>1, OriginKept, HistoryKept DEF Active, Looping, NoSteps
<1>2. ASSUME pc[v] = "finalize", outcome[v] = "failed", claimedBy'[job[v]] = v
      PROVE  context'[job[v]].resume = NoResume \/ AllDone(job[v])'
  <2>1. job[v] \in Execution /\ claimedBy[job[v]] = v /\ pc[v] \in Ending
    BY <1>0, <1>2, OriginKept, OwnerBefore DEF Active, Ending
  <2>2. context[job[v]].resume = NoResume \/ AllDone(job[v])
    BY <1>0, <1>2, <2>1 DEF FreshWorker
  <2> QED
    BY <1>0, <1>2, <2>1, <2>2, OwnedStaysDone
<1> QED
  BY <1>0, <1>1, <1>2 DEF FreshWorker, SameWorker, NoSteps

\* Where the worker that moves is next.
LEMMA RunFresh ==
  ASSUME ContextsSaved, Fresh, NEW w \in Worker, Run(w) \/ Crash(w) \/ HeartbeatCancels(w)
  PROVE  FreshWorker(w)'
<1> DEFINE e == job[w]
<1>0. /\ Typed /\ Settled /\ FreshWorker(w) /\ FreshRow(e) /\ e \in Execution
      /\ UNCHANGED <<job, replayOf, replayStart>>
      /\ pc \in [Worker -> ProgramCounter] /\ outcome \in [Worker ->
           {"none", "completed", "failed", "cancelled", "abandoned"}]
      /\ at \in [Worker -> Node \cup {None}]
  BY WorkerTouches, TypesOf DEF Fresh, Filed, Linked
<1>1. ASSUME pc'[w] \notin {"check", "create", "finalize"} PROVE FreshWorker(w)'
  BY <1>1 DEF FreshWorker
<1>2. CASE LoadExecution(w)
  <2>1. UNCHANGED <<context, steps, claimedBy>>
    BY <1>2 DEF LoadExecution, rowVars
  <2>2. CASE claimedBy[e] # w
    BY <1>0, <1>1, <1>2, <2>2 DEF LoadExecution, GoTo
  <2>3. CASE claimedBy[e] = w
    <3>1. AllDone(e)
      BY <1>0, <1>2, <2>3 DEF LoadExecution, Settled, WorkerSettled, OwnerSettled
    <3>2. at'[w] = StartNode(e)
      BY <1>0, <1>2, <2>3 DEF LoadExecution
    <3>3. NoSteps(e) /\ replayStart[e] # None => StartNode(e) = replayStart[e]
      BY <1>0 DEF FreshRow, StartNode, Resuming
    <3> QED
      BY <1>0, <2>1, <3>1, <3>2, <3>3 DEF FreshWorker, NoSteps, AllDone, Done
  <2> QED
    BY <2>2, <2>3
<1>3. CASE CheckCancellation(w)
  <2>1. /\ UNCHANGED <<at, steps>> /\ pc[w] = "check"
        /\ pc'[w] = "finalize" => outcome'[w] = "cancelled"
    BY <1>0, <1>3 DEF CheckCancellation, GoTo
  <2> QED
    BY <1>0, <2>1 DEF FreshWorker, NoSteps
<1>4. CASE RecordCompleted(w)
  <2>1. pc[w] = "record" /\ step[w] \in DOMAIN steps[e]
    BY <1>0, <1>4 DEF RecordCompleted, Settled, Coupled, AtOwnStep
  <2>2. steps[e] \in Seq(Step)
    BY <1>0, TypesOf
  <2>3. 1 \in DOMAIN steps[e]
    BY <2>1, <2>2, LenProperties
  <2>4. 1 \in DOMAIN steps'[e]
    BY <1>0, <1>4, <2>3, HistoryKept DEF Next, Run
  <2>5. \/ pc'[w] \in {"check", "mark_failed"}
        \/ pc'[w] \in {"finalize", "mark_failed"} /\ outcome'[w] = "completed"
    <3>1. \/ Committed(w, "check")
          \/ Committed(w, "finalize") /\ outcome' = [outcome EXCEPT ![w] = "completed"]
      BY <1>4 DEF RecordCompleted
    <3>2. ASSUME NEW l, Committed(w, l) PROVE pc'[w] \in {l, "mark_failed"}
      BY <1>0, <3>2 DEF Committed, GoTo
    <3> QED
      BY <1>0, <3>1, <3>2
  <2> QED
    BY <1>0, <2>4, <2>5 DEF FreshWorker, NoSteps
<1>5. CASE SaveFailureContext(w)
  <2>1. context'[e].resume = NoResume
    <3> DEFINE c == [saved |-> TRUE, outputs |-> outputs[w], resume |-> NoResume]
    <3>1. context' = [context EXCEPT ![e] = c]
      BY <1>5 DEF SaveFailureContext, ContextsSaved
    <3>2. c.resume = NoResume
      OBVIOUS
    <3> HIDE DEF c
    <3> QED
      BY <1>0, <3>1, <3>2, TypesOf
  <2>2. pc'[w] \in {"done", "finalize"}
    BY <1>0, <1>5 DEF SaveFailureContext, GoTo
  <2> QED
    BY <1>0, <2>1, <2>2 DEF FreshWorker
<1>6. CASE HandoffRefused(w)
  BY <1>0, <1>6 DEF HandoffRefused, GoTo, FreshWorker
<1>7. CASE \/ CreateStep(w) \/ StartStep(w) \/ InvokeNode(w) \/ InvokeFails(w)
           \/ ApprovalHandoff(w) \/ Raise(w)
  <2>1. pc'[w] \in {"start", "handoff", "invoke", "record", "done", "mark_failed"}
    BY <1>0, <1>7 DEF CreateStep, StartStep, InvokeNode, InvokeFails, ApprovalHandoff,
       Raise, Committed, GoTo
  <2> QED
    BY <1>1, <2>1
<1>8. CASE \/ MarkStepFailed(w) \/ Finalize(w) \/ OwnershipLost(w) \/ Crash(w)
           \/ HeartbeatCancels(w)
  <2>1. pc'[w] \in {"save_context", "done"}
    BY <1>0, <1>8 DEF MarkStepFailed, Finalize, OwnershipLost, Crash, HeartbeatCancels, GoTo
  <2> QED
    BY <1>1, <2>1
<1> QED
  BY <1>2, <1>3, <1>4, <1>5, <1>6, <1>7, <1>8 DEF Run

LEMMA NextFresh == ContextsSaved /\ Fresh /\ [Next]_vars => Fresh'
<1> SUFFICES ASSUME ContextsSaved, Fresh, [Next]_vars PROVE Fresh'
  OBVIOUS
<1>1. Typed /\ Filed'
  BY NextFiled DEF Fresh, Filed, Linked
<1>2. ASSUME NEW v \in Worker PROVE FreshWorker(v)'
  <2>1. ASSUME NEW w \in Worker, Run(w) \/ Crash(w) \/ HeartbeatCancels(w)
        PROVE  FreshWorker(v)'
    <3>1. CASE v = w
      BY <2>1, <3>1, RunFresh
    <3>2. CASE v # w
      BY <1>1, <2>1, <3>2, WorkerTouches, OtherFreshKept
    <3> QED
      BY <3>1, <3>2
  <2>2. ASSUME NEW w \in Worker, NEW e \in Execution, ClaimPending(w, e)
        PROVE  FreshWorker(v)'
    <3>1. CASE v = w
      <4>1. pc'[v] = "load"
        BY <1>1, <2>2, <3>1, TypesOf DEF ClaimPending, GoTo
      <4> QED
        BY <4>1 DEF FreshWorker
    <3>2. CASE v # w
      <4>1. SameWorker(v)
        BY <1>1, <2>2, <3>2, TypesOf DEF ClaimPending, GoTo, SameWorker
      <4> QED
        BY <4>1, OtherFreshKept
    <3> QED
      BY <3>1, <3>2
  <2>3. ASSUME NEW e \in Execution, Request(e) \/ LeaseExpires(e) \/ CleanupExpired(e)
        PROVE  FreshWorker(v)'
    <3>1. SameWorker(v)
      BY <1>1, <2>3, EventSteps DEF SameWorker, localVars
    <3> QED
      BY <3>1, OtherFreshKept
  <2>4. ASSUME UNCHANGED vars PROVE FreshWorker(v)'
    <3>1. SameWorker(v)
      BY <2>4 DEF SameWorker, vars, localVars
    <3> QED
      BY <3>1, OtherFreshKept
  <2> QED
    BY <2>1, <2>2, <2>3, <2>4 DEF Next
<1> QED
  BY <1>1, <1>2, FreshRowKept DEF Fresh

\* A replay begins at the node that failed whatever its copied context holds,
\* if a worker that reports a failure has saved the context it failed with
\* (dead_letter.py:256-290, runner.py:318-330).
THEOREM ReplayFromFailedNode ==
  ASSUME ContextsSaved PROVE Spec => []ReplayStartsAtFailedNode
<1>1. Init => Fresh
  BY InitFresh
<1>2. Fresh /\ [Next]_vars => Fresh'
  BY NextFresh
<1>3. Fresh => ReplayStartsAtFailedNode
  BY FreshMeans
<1> QED
  BY <1>1, <1>2, <1>3, PTL DEF Spec

-----------------------------------------------------------------------------
(* Who may still act on an execution.  Unless a commit takes effect without *)
(* the worker learning of it, the worker holds its row until it lets go.    *)

CommitsAcknowledged == "ack_lost" \notin Fault

Held(w) ==
  \/ status[job[w]] = "running" /\ claimedBy[job[w]] = w
  \/ status[job[w]] = "failed" /\ interrupted[job[w]]

Exclusive ==
  /\ \A w \in Worker : pc[w] \in Active => Held(w)
  /\ \A v, w \in Worker :
       v # w /\ pc[v] \in Active /\ pc[w] \in Active => job[v] # job[w]

LEMMA InitExclusive == Init => Exclusive
<1> SUFFICES ASSUME Init PROVE Exclusive
  OBVIOUS
<1>1. \A w \in Worker : pc[w] \notin Active
  BY DEF Init, Active, Looping, Ending
<1> QED
  BY <1>1 DEF Exclusive

LEMMA RunExclusive ==
  ASSUME CommitsAcknowledged, Typed, Exclusive, NEW w \in Worker,
         Run(w) \/ Crash(w) \/ HeartbeatCancels(w)
  PROVE  Exclusive'
<1>0. /\ pc[w] \in Active /\ job[w] \in Execution /\ UNCHANGED <<job, interrupted>>
      /\ \A f \in Execution \ {job[w]} : SameRow(f)
      /\ \A v \in Worker \ {w} : SameWorker(v)
  BY WorkerTouches
<1>1. \A v \in Worker : pc'[v] \in Active => pc[v] \in Active
  BY <1>0 DEF SameWorker
<1>2. ASSUME NEW v \in Worker, pc'[v] \in Active PROVE Held(v)'
  <2>1. Held(v) /\ job[v] \in Execution
    BY <1>1, <1>2 DEF Exclusive, Active, Typed, WorkerOK
  <2>2. CASE v # w
    <3>1. job[v] # job[w]
      BY <1>0, <1>1, <1>2, <2>2 DEF Exclusive
    <3> QED
      BY <1>0, <2>1, <3>1 DEF SameRow, Held
  <2>3. CASE v = w
    <3>1. ~ApprovalHandoff(w) /\ ~Finalize(w)
      <4>1. ApprovalHandoff(w) \/ Finalize(w) => pc'[w] = "done"
        BY TypesOf DEF ApprovalHandoff, Finalize, Committed, GoTo, CommitsAcknowledged
      <4> QED
        BY <1>2, <2>3, <4>1 DEF Active, Looping, Ending
    <3>2. UNCHANGED <<status, claimedBy>>
      BY <3>1, WorkerWrites
    <3> QED
      BY <1>0, <2>1, <3>2 DEF Held
  <2> QED
    BY <2>2, <2>3
<1> QED
  BY <1>0, <1>1, <1>2 DEF Exclusive

LEMMA NextExclusive ==
  ASSUME CommitsAcknowledged, Typed, Exclusive, [Next]_vars
  PROVE  Exclusive'
<1>1. ASSUME NEW w \in Worker, NEW e \in Execution, ClaimPending(w, e) PROVE Exclusive'
  <2>1. /\ status[e] = "pending" /\ status'[e] = "running" /\ claimedBy'[e] = w
        /\ job'[w] = e /\ UNCHANGED interrupted
        /\ \A f \in Execution \ {e} : status'[f] = status[f] /\ claimedBy'[f] = claimedBy[f]
        /\ \A v \in Worker \ {w} : job'[v] = job[v] /\ pc'[v] = pc[v]
    BY <1>1, TypesOf DEF ClaimPending, Claimable, GoTo
  <2>2. ASSUME NEW v \in Worker \ {w}, pc[v] \in Active
        PROVE  Held(v) /\ job[v] \in Execution \ {e}
    BY <2>1, <2>2 DEF Exclusive, Held, Active, Typed, WorkerOK
  <2> QED
    BY <2>1, <2>2 DEF Exclusive, Held
<1>2. ASSUME UNCHANGED <<pc, job>>,
             \A f \in Execution :
               \/ status'[f] = status[f] /\ claimedBy'[f] = claimedBy[f]
                  /\ interrupted'[f] = interrupted[f]
               \/ status[f] \in {"absent", "pending", "waiting_for_approval"}
               \/ status'[f] = "failed" /\ interrupted'[f]
      PROVE  Exclusive'
  <2>1. ASSUME NEW v \in Worker, pc[v] \in Active PROVE job[v] \in Execution
    BY <2>1 DEF Active, Typed, WorkerOK
  <2> QED
    BY <1>2, <2>1 DEF Exclusive, Held
<1>3. ASSUME NEW e \in Execution, Request(e) \/ LeaseExpires(e) \/ CleanupExpired(e)
      PROVE  Exclusive'
  <2> USE TypesOf DEF localVars, rowVars
  <2>1. CASE CreatePending(e) \/ ResolveEvent(e) \/ LeaseExpires(e)
    BY <1>2, <2>1 DEF CreatePending, ResolveEvent, LeaseExpires
  <2>2. CASE RequestCancellation(e)
    BY <1>2, <2>2 DEF RequestCancellation, CancelledAtOnce, Release
  <2>3. ASSUME NEW d \in {"approved", "rejected"}, DecideApproval(e, d) PROVE Exclusive'
    BY <1>2, <2>3 DEF DecideApproval, Decidable
  <2>4. ASSUME NEW r \in Execution, ReplayEvent(e, r) PROVE Exclusive'
    BY <1>2, <2>4 DEF ReplayEvent
  <2>5. CASE CleanupExpired(e)
    BY <1>2, <2>5 DEF CleanupExpired, Release
  <2> QED
    BY <1>3, <2>1, <2>2, <2>3, <2>4, <2>5 DEF Request
<1>4. ASSUME UNCHANGED vars PROVE Exclusive'
  BY <1>2, <1>4 DEF vars, rowVars, localVars
<1> QED
  BY <1>1, <1>3, <1>4, RunExclusive DEF Next

-----------------------------------------------------------------------------
(* A run follows the edges of the graph.                                   *)

LEMMA TargetsAreDownstream ==
  ASSUME NEW n \in Node, NEW b \in Branch, Successor[n][b] # None
  PROVE  Successor[n][b] \in Downstream(n)
<1>1. Successor[n][b] \in Targets(n)
  BY DEF Targets
<1>2. Successor[n][b] \in Node
  BY QueueAssumption
<1> QED
  BY <1>1, <1>2 DEF Downstream

LEMMA DownstreamOfDownstream ==
  ASSUME NEW n \in Node, NEW m \in Downstream(n), NEW k \in Downstream(m)
  PROVE  k \in Downstream(n)
<1>1. k \in Node /\ m \in Node
  BY DEF Downstream
<1>2. ASSUME NEW S \in SUBSET Node, Targets(n) \subseteq S, \A x \in S : Targets(x) \subseteq S
      PROVE  k \in S
  <2>1. m \in S
    BY <1>2 DEF Downstream
  <2> QED
    BY <1>2, <2>1 DEF Downstream
<1> QED
  BY <1>1, <1>2 DEF Downstream

\* Node n comes after every node e has a step at.
Beyond(e, n) == \A i \in DOMAIN steps[e] : n \in Downstream(steps[e][i].node)

StartsBeyond(e) == StartNode(e) = None \/ Beyond(e, StartNode(e))

InOrder(e) ==
  /\ \A i, j \in DOMAIN steps[e] : i < j => steps[e][j].node \in Downstream(steps[e][i].node)
  /\ \A i \in DOMAIN steps[e] :
       steps[e][i].status = "waiting_for_approval" => i = Len(steps[e])
  /\ status[e] = "pending" => StartsBeyond(e)

OnPath(w) ==
  /\ pc[w] = "load" => StartsBeyond(job[w])
  /\ pc[w] \in {"check", "create"} => Beyond(job[w], at[w])
  /\ pc[w] \in {"start", "invoke", "record", "handoff"} =>
       step[w] = Len(steps[job[w]]) /\ steps[job[w]][step[w]].node = at[w]

Straight ==
  /\ Settled /\ Begun /\ Exclusive
  /\ \A e \in Execution : InOrder(e)
  /\ \A w \in Worker : OnPath(w)

LEMMA InitStraight == Init => Straight
<1> SUFFICES ASSUME Init PROVE Straight
  OBVIOUS
<1>1. \A e \in Execution : InOrder(e)
  BY DEF Init, InOrder
<1>2. \A w \in Worker : OnPath(w)
  BY DEF Init, OnPath
<1> QED
  BY <1>1, <1>2, InitSettled, InitBegun, InitExclusive DEF Straight

\* After the last step every successor of its node is still ahead.
LEMMA SuccessorIsBeyond ==
  ASSUME Typed, NEW e \in Execution, InOrder(e), Len(steps[e]) \in DOMAIN steps[e],
         NEW b \in Branch, NEW n, n = Successor[steps[e][Len(steps[e])].node][b], n # None
  PROVE  n \in Node /\ Beyond(e, n)
<1> DEFINE k == Len(steps[e])
<1>1. steps[e] \in Seq(Step)
  BY TypesOf
<1>2. \A i \in DOMAIN steps[e] : steps[e][i].node \in Node /\ (i = k \/ i < k)
  BY <1>1, StepsAreSteps, LenProperties DEF Step
<1>3. n \in Downstream(steps[e][k].node)
  BY <1>2, TargetsAreDownstream
<1>4. ASSUME NEW i \in DOMAIN steps[e] PROVE n \in Downstream(steps[e][i].node)
  <2>1. CASE i = k
    BY <1>3, <2>1
  <2>2. CASE i < k
    <3>1. steps[e][k].node \in Downstream(steps[e][i].node)
      BY <2>2 DEF InOrder
    <3> QED
      BY <1>2, <1>3, <3>1, DownstreamOfDownstream
  <2> QED
    BY <1>2, <2>1, <2>2
<1> QED
  BY <1>2, <1>3, <1>4 DEF Beyond, Downstream

ByOthers(v) ==
  \/ \E w \in Worker \ {v} : \/ Run(w) \/ Crash(w) \/ HeartbeatCancels(w)
                            \/ \E e \in Execution : ClaimPending(w, e)
  \/ \E e \in Execution : Request(e) \/ LeaseExpires(e) \/ CleanupExpired(e)
  \/ UNCHANGED vars

\* What a run and its start depend on.
SameRun(e) ==
  /\ DOMAIN steps'[e] = DOMAIN steps[e] /\ Len(steps'[e]) = Len(steps[e])
  /\ \A i \in DOMAIN steps[e] : steps'[e][i].node = steps[e][i].node
  /\ context'[e] = context[e] /\ replayStart'[e] = replayStart[e]

LEMMA SameRunMeans ==
  ASSUME Typed, NEW e \in Execution, SameRun(e)
  PROVE  /\ \A n : Beyond(e, n) => Beyond(e, n)'
         /\ StartsBeyond(e) => StartsBeyond(e)'
<1>1. \A n : Beyond(e, n) => Beyond(e, n)'
  BY DEF SameRun, Beyond
<1>2. StartNode(e)' = StartNode(e)
  BY DEF SameRun, StartNode, Resuming
<1> QED
  BY <1>1, <1>2 DEF StartsBeyond, SameRun, Beyond

\* Nobody else touches the run of a worker that holds its row.
LEMMA OthersLeave ==
  ASSUME Settled, Begun, Exclusive, [Next]_vars, NEW v \in Worker, pc[v] \in Active,
         ByOthers(v)
  PROVE  /\ SameWorker(v) /\ job[v] \in Execution
         /\ SameRun(job[v]) /\ effects'[job[v]] = effects[job[v]]
<1> DEFINE e == job[v]
<1>0. Typed /\ e \in Execution /\ Held(v) /\ status[e] \in {"running", "failed"}
  BY DEF Settled, Coupled, Owned, Typed, WorkerOK, Active, Exclusive, Held
<1>1. SameWorker(v) /\ effects'[e] = effects[e]
  <2>1. ASSUME NEW w \in Worker \ {v}, Run(w) \/ Crash(w) \/ HeartbeatCancels(w)
        PROVE  SameWorker(v) /\ effects'[e] = effects[e]
    BY <1>0, <2>1, WorkerTouches DEF Exclusive, SameRow
  <2>2. ASSUME NEW w \in Worker \ {v}, NEW f \in Execution, ClaimPending(w, f)
        PROVE  SameWorker(v) /\ effects'[e] = effects[e]
    BY <1>0, <2>2, TypesOf DEF ClaimPending, GoTo, SameWorker
  <2>3. ASSUME NEW f \in Execution, Request(f) \/ LeaseExpires(f) \/ CleanupExpired(f)
        PROVE  SameWorker(v) /\ effects'[e] = effects[e]
    BY <1>0, <2>3, EventSteps DEF SameWorker, localVars
  <2> QED
    BY <2>1, <2>2, <2>3 DEF ByOthers, SameWorker, vars, localVars
<1>2. DOMAIN steps'[e] = DOMAIN steps[e]
  <2>1. ASSUME NEW w \in Worker, CreateStep(w), job[w] = e PROVE FALSE
    <3>1. pc[w] \in Active /\ w = v
      BY <2>1 DEF CreateStep, Active, Looping, Exclusive
    <3>2. pc'[v] # pc[v]
      BY <1>0, <2>1, <3>1, TypesOf DEF CreateStep, Committed, GoTo
    <3> QED
      BY <1>1, <3>2 DEF SameWorker
  <2> QED
    BY <1>0, <2>1, Growth
<1>3. context'[e] = context[e] /\ replayStart'[e] = replayStart[e]
  <2>1. ASSUME NEW w \in Worker \ {v}, Run(w) \/ Crash(w) \/ HeartbeatCancels(w)
        PROVE  context'[e] = context[e] /\ replayStart'[e] = replayStart[e]
    BY <1>0, <2>1, WorkerTouches DEF Exclusive, SameRow
  <2>2. ASSUME UNCHANGED <<context, replayStart>>
        PROVE  context'[e] = context[e] /\ replayStart'[e] = replayStart[e]
    BY <2>2
  <2>3. ASSUME NEW f \in Execution, NEW d \in {"approved", "rejected"}, DecideApproval(f, d)
        PROVE  context'[e] = context[e] /\ replayStart'[e] = replayStart[e]
    BY <1>0, <2>3, TypesOf DEF DecideApproval, Decidable
  <2>4. ASSUME NEW f \in Execution, NEW r \in Execution, ReplayEvent(f, r)
        PROVE  context'[e] = context[e] /\ replayStart'[e] = replayStart[e]
    BY <1>0, <2>4, TypesOf DEF ReplayEvent
  <2>5. ASSUME NEW f \in Execution, Request(f) \/ LeaseExpires(f) \/ CleanupExpired(f)
        PROVE  context'[e] = context[e] /\ replayStart'[e] = replayStart[e]
    BY <2>2, <2>3, <2>4, <2>5 DEF Request, CreatePending, RequestCancellation, ResolveEvent,
       LeaseExpires, CleanupExpired, rowVars
  <2> QED
    BY <2>1, <2>2, <2>5 DEF ByOthers, ClaimPending, vars, rowVars
<1>4. Len(steps'[e]) = Len(steps[e])
  <2>1. steps[e] \in Seq(Step) /\ steps'[e] \in Seq(Step)
    BY <1>0, NextTyped, TypesOf DEF Typed, TypeOK, RecordsTypeOK
  <2> QED
    BY <1>2, <2>1, LenProperties
<1> QED
  BY <1>0, <1>1, <1>2, <1>3, <1>4, HistoryKept DEF SameRun

\* How an execution becomes or stays pending.
LEMMA PendingWrites ==
  ASSUME Settled, Begun, Exclusive, [Next]_vars, NEW e \in Execution,
         status'[e] = "pending"
  PROVE  \/ steps'[e] = <<>>
         \/ status[e] = "pending" /\ SameRun(e)
         \/ \E d \in {"approved", "rejected"} : DecideApproval(e, d)
<1> DEFINE Goal ==
         \/ steps'[e] = <<>>
         \/ status[e] = "pending" /\ SameRun(e)
         \/ \E d \in {"approved", "rejected"} : DecideApproval(e, d)
<1>0. Typed /\ (status[e] = "absent" => steps[e] = <<>>)
  BY DEF Settled, Coupled, Owned, Begun, Blank
<1>1. ASSUME NEW w \in Worker, Run(w) \/ Crash(w) \/ HeartbeatCancels(w) PROVE Goal
  <2>1. e # job[w]
    <3>1. pc[w] \in Active /\ job[w] \in Execution
      BY <1>0, <1>1, WorkerTouches
    <3>2. status[job[w]] \in {"running", "failed"}
      BY <3>1 DEF Exclusive, Held
    <3>3. status'[job[w]] # "pending"
      <4>1. CASE ApprovalHandoff(w)
        BY <1>0, <3>1, <4>1, TypesOf DEF ApprovalHandoff
      <4>2. CASE Finalize(w)
        BY <1>0, <3>1, <4>2, TypesOf DEF Finalize, FinalStatus
      <4>3. CASE UNCHANGED status
        BY <3>2, <4>3
      <4> QED
        BY <1>1, <4>1, <4>2, <4>3, WorkerWrites
    <3> QED
      BY <3>3
  <2> QED
    BY <1>0, <1>1, <2>1, WorkerTouches DEF SameRow, SameRun
<1>2. ASSUME NEW w \in Worker, NEW f \in Execution, ClaimPending(w, f) PROVE Goal
  BY <1>0, <1>2, TypesOf DEF ClaimPending, SameRun
<1>3. ASSUME NEW f \in Execution, Request(f) \/ LeaseExpires(f) \/ CleanupExpired(f) PROVE Goal
  <2> USE <1>0, TypesOf DEF rowVars, SameRun
  <2>1. CASE CreatePending(f) \/ ResolveEvent(f) \/ LeaseExpires(f)
    BY <2>1 DEF CreatePending, ResolveEvent, LeaseExpires
  <2>2. CASE RequestCancellation(f)
    BY <2>2 DEF RequestCancellation, CancelledAtOnce
  <2>3. ASSUME NEW d \in {"approved", "rejected"}, DecideApproval(f, d) PROVE Goal
    <3>1. CASE f = e
      BY <2>3, <3>1
    <3>2. CASE f # e
      BY <2>3, <3>2 DEF DecideApproval
    <3> QED
      BY <3>1, <3>2
  <2>4. ASSUME NEW r \in Execution, ReplayEvent(f, r) PROVE Goal
    BY <2>4 DEF ReplayEvent
  <2>5. CASE CleanupExpired(f)
    BY <2>5 DEF CleanupExpired
  <2> QED
    BY <1>3, <2>1, <2>2, <2>3, <2>4, <2>5 DEF Request
<1>4. ASSUME UNCHANGED vars PROVE Goal
  BY <1>0, <1>4 DEF vars, rowVars, SameRun
<1> HIDE DEF Goal
<1>5. Goal
  BY <1>1, <1>2, <1>3, <1>4 DEF Next
<1> QED
  BY <1>5 DEF Goal

LEMMA InOrderKept ==
  ASSUME Straight, [Next]_vars, NEW e \in Execution
  PROVE  InOrder(e)'
<1>0. /\ Settled /\ Coupled /\ Typed /\ Begun /\ Exclusive /\ InOrder(e)
      /\ steps[e] \in Seq(Step)
  BY TypesOf DEF Straight, Settled, Coupled, Owned
<1>1. ASSUME NEW w \in Worker, CreateStep(w), job[w] = e PROVE InOrder(e)'
  <2> DEFINE k == Len(steps[e]) + 1
  <2>1. /\ pc[w] \in Looping /\ UNCHANGED status /\ Beyond(e, at[w])
        /\ pc[w] \in Active
    BY <1>1 DEF CreateStep, rowVars, Straight, OnPath, Looping, Active
  <2>2. /\ DOMAIN steps'[e] = DOMAIN steps[e] \cup {k}
        /\ \A j \in DOMAIN steps[e] : steps'[e][j] = steps[e][j]
        /\ steps'[e][k].node = at[w] /\ steps'[e][k].status = "pending"
    BY <1>0, <1>1, CreateEffect
  <2>3. \A j \in DOMAIN steps[e] : j \in Nat /\ j < k
    BY <1>0, LenProperties
  <2>4. k \in Nat
    BY <1>0, LenProperties
  <2> HIDE DEF k
  <2>5. \A i, j \in DOMAIN steps'[e] :
          i < j => steps'[e][j].node \in Downstream(steps'[e][i].node)
    <3> SUFFICES ASSUME NEW i \in DOMAIN steps'[e], NEW j \in DOMAIN steps'[e], i < j
                 PROVE  steps'[e][j].node \in Downstream(steps'[e][i].node)
      OBVIOUS
    <3>1. i \in DOMAIN steps[e]
      BY <2>2, <2>3, <2>4
    <3>2. CASE j = k
      BY <2>1, <2>2, <3>1, <3>2 DEF Beyond
    <3>3. CASE j \in DOMAIN steps[e]
      BY <1>0, <2>2, <3>1, <3>3 DEF InOrder
    <3> QED
      BY <2>2, <3>2, <3>3
  <2>6. \A i \in DOMAIN steps'[e] : steps'[e][i].status # "waiting_for_approval"
    BY <1>0, <1>1, <2>1, <2>2, LoopFacts
  <2>7. status'[e] # "pending"
    BY <1>1, <2>1 DEF Straight, Exclusive, Held
  <2> QED
    BY <2>5, <2>6, <2>7 DEF InOrder
<1>2. CASE \A w \in Worker : ~(CreateStep(w) /\ job[w] = e)
  <2>1. /\ DOMAIN steps'[e] = DOMAIN steps[e]
        /\ \A i \in DOMAIN steps[e] :
             /\ steps'[e][i].node = steps[e][i].node
             /\ steps'[e][i].status = "waiting_for_approval" =>
                   \/ steps[e][i].status = "waiting_for_approval"
                   \/ \E w \in Worker : pc[w] = "handoff" /\ job[w] = e /\ step[w] = i
    BY <1>0, <1>2, Growth, HistoryKept
  <2>2. Len(steps'[e]) = Len(steps[e])
    <3>1. steps'[e] \in Seq(Step)
      BY <1>0, NextTyped, TypesOf DEF Typed, TypeOK, RecordsTypeOK
    <3> QED
      BY <1>0, <2>1, <3>1, LenProperties
  <2>3. \A i \in DOMAIN steps[e] :
          steps'[e][i].status = "waiting_for_approval" => i = Len(steps[e])
    BY <1>0, <2>1 DEF InOrder, Straight, OnPath
  <2>4. ASSUME status'[e] = "pending" PROVE StartsBeyond(e)'
    <3>1. CASE steps'[e] = <<>>
      BY <3>1 DEF StartsBeyond, Beyond
    <3>2. CASE status[e] = "pending" /\ SameRun(e)
      BY <1>0, <3>2, SameRunMeans DEF InOrder
    <3>3. ASSUME NEW d \in {"approved", "rejected"}, DecideApproval(e, d)
          PROVE  StartsBeyond(e)'
      <4>1. PICK i \in DOMAIN steps[e] :
              /\ Decidable(e, i)
              /\ context' = [context EXCEPT ![e].resume = Successor[steps[e][i].node][d]]
        BY <3>3 DEF DecideApproval
      <4> DEFINE n == Successor[steps[e][i].node][d]
      <4>2. i = Len(steps[e]) /\ d \in Branch
        BY <1>0, <4>1 DEF Decidable, InOrder, Branch
      <4>3. steps[e][i].node \in Node
        BY <1>0, StepsAreSteps DEF Step
      <4>4. n \in Node \cup {None} /\ n # NoResume
        BY <4>2, <4>3, QueueAssumption
      <4>5. context'[e].resume = n
        <5>1. context[e] \in Context
          BY <1>0, TypesOf
        <5> HIDE DEF n
        <5>2. context' = [context EXCEPT ![e].resume = n]
          BY <4>1 DEF n
        <5> QED
          BY <1>0, <5>1, <5>2, TypesOf DEF Context
      <4>6. StartNode(e)' = n
        BY <4>4, <4>5 DEF StartNode, Resuming
      <4>7. n # None => Beyond(e, n)
        BY <1>0, <4>2, SuccessorIsBeyond
      <4>8. n # None => \A x \in DOMAIN steps'[e] : n \in Downstream(steps'[e][x].node)
        BY <2>1, <4>7 DEF Beyond
      <4> QED
        BY <4>6, <4>8 DEF StartsBeyond, Beyond
    <3> QED
      BY <1>0, <2>4, <3>1, <3>2, <3>3, PendingWrites
  <2> QED
    BY <1>0, <2>1, <2>2, <2>3, <2>4 DEF InOrder
<1> QED
  BY <1>1, <1>2

LEMMA RunOnPath ==
  ASSUME CommitsAcknowledged, Straight, NEW w \in Worker,
         Run(w) \/ Crash(w) \/ HeartbeatCancels(w)
  PROVE  OnPath(w)'
<1> DEFINE e == job[w]
<1>0. /\ Settled /\ Coupled /\ Typed /\ Begun /\ Exclusive /\ OnPath(w) /\ InOrder(e)
      /\ e \in Execution /\ UNCHANGED job /\ pc[w] \in Active
      /\ steps[e] \in Seq(Step) /\ pc \in [Worker -> ProgramCounter]
      /\ at \in [Worker -> Node \cup {None}] /\ [Next]_vars
  BY WorkerTouches, TypesOf DEF Straight, Settled, Coupled, Owned, Next
<1>1. ASSUME pc'[w] \notin {"load", "check", "create", "start", "invoke", "record", "handoff"}
      PROVE  OnPath(w)'
  BY <1>1 DEF OnPath
<1>2. CASE LoadExecution(w)
  <2>1. UNCHANGED steps
    BY <1>2 DEF LoadExecution
  <2>2. CASE claimedBy[e] # w
    BY <1>0, <1>1, <1>2, <2>2 DEF LoadExecution, GoTo
  <2>3. CASE claimedBy[e] = w
    <3>1. at'[w] = StartNode(e) /\ pc'[w] \in {"finalize", "check"}
          /\ (pc'[w] = "check" => StartNode(e) # None)
      BY <1>0, <1>2, <2>3 DEF LoadExecution, GoTo
    <3>2. StartNode(e) # None => Beyond(e, StartNode(e))
      BY <1>0, <1>2 DEF LoadExecution, OnPath, StartsBeyond
    <3>3. pc'[w] = "check" => Beyond(e, at'[w])
      BY <3>1, <3>2
    <3> QED
      BY <1>0, <2>1, <3>1, <3>3 DEF OnPath, Beyond
  <2> QED
    BY <2>2, <2>3
<1>3. CASE CheckCancellation(w)
  <2>1. UNCHANGED <<steps, at>> /\ pc[w] = "check" /\ pc'[w] \in {"finalize", "create"}
    BY <1>0, <1>3 DEF CheckCancellation, GoTo
  <2> QED
    BY <1>0, <2>1 DEF OnPath, Beyond
<1>4. CASE CreateStep(w)
  <2>1. pc'[w] = "start" /\ UNCHANGED at
    BY <1>0, <1>4 DEF CreateStep, Committed, GoTo, CommitsAcknowledged
  <2>2. LET k == step'[w] IN
        k = Len(steps[e]) + 1 /\ steps'[e][k].node = at[w]
    BY <1>0, <1>4, CreateEffect
  <2>3. Len(steps'[e]) = Len(steps[e]) + 1
    <3>1. steps' = [steps EXCEPT ![e] =
            Append(@, [node |-> at[w], status |-> "pending", approval |-> "none"])]
      BY <1>4 DEF CreateStep
    <3>2. steps'[e] =
            Append(steps[e], [node |-> at[w], status |-> "pending", approval |-> "none"])
      BY <1>0, <3>1, TypesOf
    <3>3. at[w] \in Node
      BY <1>0, <1>4 DEF CreateStep, Typed, WorkerOK, Looping
    <3>4. [node |-> at[w], status |-> "pending", approval |-> "none"] \in Step
      BY <3>3 DEF Step, StepStatus, ApprovalStatus
    <3> QED
      BY <1>0, <3>2, <3>4, AppendProperties
  <2> QED
    BY <1>0, <2>1, <2>2, <2>3 DEF OnPath
<1>5. CASE StartStep(w) \/ InvokeNode(w)
  <2>1. /\ pc[w] \in {"start", "invoke"} /\ UNCHANGED <<at, step>>
        /\ pc'[w] \in {"invoke", "handoff", "record"}
    BY <1>0, <1>5 DEF StartStep, InvokeNode, Committed, GoTo, CommitsAcknowledged, localVars
  <2>2. step[w] = Len(steps[e]) /\ steps[e][step[w]].node = at[w] /\ step[w] \in DOMAIN steps[e]
    BY <1>0, <2>1 DEF OnPath, Coupled, AtOwnStep
  <2>3. DOMAIN steps'[e] = DOMAIN steps[e]
    <3>1. ~CreateStep(w)
      BY <2>1 DEF CreateStep
    <3>2. \A v \in Worker : CreateStep(v) => v = w \/ job[v] # e
      BY <1>0 DEF CreateStep, Exclusive, Active, Looping
    <3> QED
      BY <1>0, <3>1, <3>2, Growth
  <2>4. Len(steps'[e]) = Len(steps[e]) /\ steps'[e][step[w]].node = at[w]
    <3>1. steps'[e] \in Seq(Step)
      BY <1>0, NextTyped, TypesOf DEF Typed, TypeOK, RecordsTypeOK
    <3> QED
      BY <1>0, <2>2, <2>3, <3>1, LenProperties, HistoryKept
  <2> QED
    BY <1>0, <2>1, <2>2, <2>4 DEF OnPath
<1>6. CASE RecordCompleted(w)
  <2>1. pc[w] = "record" /\ step[w] \in DOMAIN steps[e]
        /\ step[w] = Len(steps[e]) /\ steps[e][step[w]].node = at[w]
    BY <1>0, <1>6 DEF RecordCompleted, OnPath, Coupled, AtOwnStep
  <2>2. PICK b \in Branch :
          LET next == Successor[at[w]][b] IN
          \/ /\ next # None
             /\ at' = [at EXCEPT ![w] = next]
             /\ Committed(w, "check")
          \/ Committed(w, "finalize")
    BY <1>6 DEF RecordCompleted, Branch
  <2>3. CASE Committed(w, "finalize")
    BY <1>0, <1>1, <2>3 DEF Committed, GoTo, CommitsAcknowledged
  <2>4. CASE LET next == Successor[at[w]][b] IN
             /\ next # None
             /\ at' = [at EXCEPT ![w] = next]
             /\ Committed(w, "check")
    <3>1. pc'[w] = "check" /\ at'[w] = Successor[at[w]][b] /\ at'[w] # None
      BY <1>0, <2>4 DEF Committed, GoTo, CommitsAcknowledged
    <3>2. Beyond(e, at'[w])
      BY <1>0, <2>1, <3>1, SuccessorIsBeyond
    <3>3. \A i \in DOMAIN steps'[e] : at'[w] \in Downstream(steps'[e][i].node)
      <4>1. OnlyStep(e, step[w], "completed", steps[e][step[w]].approval)
        BY <1>0, <1>6, <2>1, SetStepEffect DEF RecordCompleted, Looping, StepStatus
      <4>2. DOMAIN steps'[e] = DOMAIN steps[e]
        BY <4>1 DEF OnlyStep
      <4> QED
        BY <1>0, <3>2, <4>2, HistoryKept DEF Beyond
    <3> QED
      BY <1>0, <3>1, <3>3 DEF OnPath, Beyond
  <2> QED
    BY <2>2, <2>3, <2>4
<1>7. CASE \/ InvokeFails(w) \/ ApprovalHandoff(w) \/ HandoffRefused(w) \/ Raise(w)
           \/ MarkStepFailed(w) \/ SaveFailureContext(w) \/ Finalize(w)
           \/ OwnershipLost(w) \/ Crash(w) \/ HeartbeatCancels(w)
  <2>1. pc'[w] \in {"mark_failed", "done", "finalize", "save_context"}
    BY <1>0, <1>7 DEF InvokeFails, ApprovalHandoff, HandoffRefused, Raise, MarkStepFailed,
       SaveFailureContext, Finalize, OwnershipLost, Crash, HeartbeatCancels, Committed, GoTo
  <2> QED
    BY <1>1, <2>1
<1> QED
  BY <1>2, <1>3, <1>4, <1>5, <1>6, <1>7 DEF Run

LEMMA OthersLeaveIdle ==
  ASSUME Typed, NEW v \in Worker, ByOthers(v)
  PROVE  pc'[v] = pc[v]
<1>1. ASSUME NEW w \in Worker \ {v}, Run(w) \/ Crash(w) \/ HeartbeatCancels(w)
      PROVE  pc'[v] = pc[v]
  BY <1>1, WorkerTouches DEF SameWorker
<1>2. ASSUME NEW w \in Worker \ {v}, NEW f \in Execution, ClaimPending(w, f)
      PROVE  pc'[v] = pc[v]
  BY <1>2, TypesOf DEF ClaimPending, GoTo
<1>3. ASSUME NEW f \in Execution, Request(f) \/ LeaseExpires(f) \/ CleanupExpired(f)
      PROVE  pc'[v] = pc[v]
  BY <1>3, EventSteps
<1> QED
  BY <1>1, <1>2, <1>3 DEF ByOthers, vars

LEMMA NextStraight == CommitsAcknowledged /\ Straight /\ [Next]_vars => Straight'
<1> SUFFICES ASSUME CommitsAcknowledged, Straight, [Next]_vars PROVE Straight'
  OBVIOUS
<1>0. Settled /\ Typed /\ Begun /\ Exclusive
  BY DEF Straight, Settled, Coupled, Owned
<1>1. Settled' /\ Begun' /\ Exclusive'
  BY <1>0, NextSettled, NextBegun, NextExclusive
<1>2. ASSUME NEW v \in Worker, ByOthers(v) PROVE OnPath(v)'
  <2>1. CASE pc[v] \in Active
    <3>1. SameWorker(v) /\ job[v] \in Execution /\ SameRun(job[v]) /\ OnPath(v)
      BY <1>0, <1>2, <2>1, OthersLeave DEF Straight
    <3>2. CASE pc[v] = "load"
      BY <1>0, <3>1, <3>2, SameRunMeans DEF OnPath, SameWorker
    <3>3. CASE pc[v] \in {"check", "create"}
      BY <1>0, <3>1, <3>3, SameRunMeans DEF OnPath, SameWorker, Beyond, SameRun
    <3>4. CASE pc[v] \in {"start", "invoke", "record", "handoff"}
      BY <1>0, <3>1, <3>4 DEF OnPath, SameWorker, SameRun, Coupled, Settled, AtOwnStep
    <3>5. CASE pc[v] \notin {"load", "check", "create", "start", "invoke", "record", "handoff"}
      BY <3>1, <3>5 DEF OnPath, SameWorker
    <3> QED
      BY <3>2, <3>3, <3>4, <3>5
  <2>2. CASE pc[v] \notin Active
    <3>1. pc'[v] = pc[v]
      BY <1>0, <1>2, OthersLeaveIdle
    <3> QED
      BY <2>2, <3>1 DEF OnPath, Active, Looping
  <2> QED
    BY <2>1, <2>2
<1>3. ASSUME NEW v \in Worker PROVE OnPath(v)'
  <2>1. CASE Run(v) \/ Crash(v) \/ HeartbeatCancels(v)
    BY <2>1, RunOnPath
  <2>2. ASSUME NEW e \in Execution, ClaimPending(v, e) PROVE OnPath(v)'
    <3>1. /\ pc'[v] = "load" /\ job'[v] = e /\ StartsBeyond(e)
          /\ UNCHANGED <<context, replayStart, steps>>
      BY <1>0, <2>2, TypesOf DEF ClaimPending, Claimable, GoTo, Straight, InOrder
    <3>2. StartsBeyond(e)'
      BY <3>1 DEF StartsBeyond, Beyond, StartNode, Resuming
    <3> QED
      BY <3>1, <3>2 DEF OnPath
  <2> QED
    BY <1>2, <2>1, <2>2 DEF ByOthers, Next
<1> QED
  BY <1>1, <1>3, InOrderKept DEF Straight

\* Published workflows have no cycle (workflow_validation.py).
Acyclic == \A n \in Node : n \notin Downstream(n)

LEMMA NodesDiffer ==
  ASSUME Acyclic, Typed, NEW e \in Execution, InOrder(e)
  PROVE  \A i, j \in DOMAIN steps[e] : i < j => steps[e][i].node # steps[e][j].node
<1>1. \A i \in DOMAIN steps[e] : steps[e][i].node \in Node
  BY StepsAreSteps DEF Step
<1> QED
  BY <1>1 DEF InOrder, Acyclic

\* Neither a resumption nor a restart repeats a step: an execution passes each
\* node of an acyclic workflow at most once, if no commit takes effect without
\* the worker learning of it (runner.py:531-549, approval_service.py).
THEOREM NothingRepeated ==
  ASSUME CommitsAcknowledged, Acyclic
  PROVE  Spec => []CompletedStepsNotRepeated
<1>1. Init => Straight
  BY InitStraight
<1>2. Straight /\ [Next]_vars => Straight'
  BY NextStraight
<1>3. Straight => CompletedStepsNotRepeated
  <2> SUFFICES ASSUME Straight PROVE CompletedStepsNotRepeated
    OBVIOUS
  <2>1. Typed
    BY DEF Straight, Settled, Coupled, Owned
  <2> QED
    BY <2>1, NodesDiffer DEF Straight, CompletedStepsNotRepeated
<1> QED
  BY <1>1, <1>2, <1>3, PTL DEF Spec

-----------------------------------------------------------------------------
(* Unsafe provider calls.                                                  *)

EffectsCounted(e) ==
  \A n \in Node :
    /\ effects[e][n] \in {0, 1}
    /\ effects[e][n] # 0 => /\ Kind[n] = "unsafe_action"
                            /\ \E i \in DOMAIN steps[e] : steps[e][i].node = n

NotYetCalled(w) == pc[w] \in {"start", "invoke"} => effects[job[w]][at[w]] = 0

CalledOnce ==
  /\ Straight
  /\ \A e \in Execution : EffectsCounted(e)
  /\ \A w \in Worker : NotYetCalled(w)

LEMMA InitCalledOnce == Init => CalledOnce
<1> SUFFICES ASSUME Init PROVE CalledOnce
  OBVIOUS
<1>1. \A e \in Execution : EffectsCounted(e)
  BY DEF Init, EffectsCounted
<1>2. \A w \in Worker : NotYetCalled(w)
  BY DEF Init, NotYetCalled
<1> QED
  BY <1>1, <1>2, InitStraight DEF CalledOnce

LEMMA EffectWrites ==
  ASSUME Typed, [Next]_vars
  PROVE  \/ UNCHANGED effects
         \/ \E w \in Worker :
              /\ pc[w] = "invoke" /\ job[w] \in Execution /\ at[w] \in Node
              /\ Kind[at[w]] = "unsafe_action"
              /\ effects' = [effects EXCEPT ![job[w]][at[w]] = @ + 1]
<1>1. ASSUME NEW w \in Worker, Run(w) \/ Crash(w) \/ HeartbeatCancels(w), ~UNCHANGED effects
      PROVE  /\ pc[w] = "invoke" /\ job[w] \in Execution /\ at[w] \in Node
             /\ Kind[at[w]] = "unsafe_action"
             /\ effects' = [effects EXCEPT ![job[w]][at[w]] = @ + 1]
  <2>1. pc[w] = "invoke"
    BY <1>1, WorkerWrites DEF ApprovalHandoff, Finalize
  <2>2. job[w] \in Execution /\ at[w] \in Node
    BY <2>1 DEF Typed, WorkerOK, Looping
  <2>3. CallProvider(w)
    BY <1>1, <2>1 DEF Run, LoadExecution, CheckCancellation, CreateStep, StartStep,
       InvokeNode, InvokeFails, RecordCompleted, ApprovalHandoff, HandoffRefused, Raise,
       MarkStepFailed, SaveFailureContext, Finalize, OwnershipLost, Crash, HeartbeatCancels
  <2> QED
    BY <1>1, <2>1, <2>2, <2>3 DEF CallProvider
<1>2. ASSUME NEW e \in Execution, Request(e) \/ LeaseExpires(e) \/ CleanupExpired(e)
      PROVE  UNCHANGED effects
  BY <1>2, EventSteps
<1> QED
  BY <1>1, <1>2 DEF Next, ClaimPending, vars

LEMMA NextCalledOnce ==
  CommitsAcknowledged /\ Acyclic /\ CalledOnce /\ [Next]_vars => CalledOnce'
<1> SUFFICES ASSUME CommitsAcknowledged, Acyclic, CalledOnce, [Next]_vars
             PROVE  CalledOnce'
  OBVIOUS
<1>0. /\ Straight /\ Straight' /\ Settled /\ Coupled /\ Typed /\ Begun /\ Exclusive
      /\ pc \in [Worker -> ProgramCounter] /\ effects \in [Execution -> [Node -> Nat]]
  BY NextStraight, TypesOf DEF CalledOnce, Straight, Settled, Coupled, Owned
<1>1. ASSUME NEW e \in Execution PROVE EffectsCounted(e)'
  <2>1. CASE UNCHANGED effects
    <3>1. \A i \in DOMAIN steps[e] : i \in DOMAIN steps'[e] /\ steps'[e][i].node = steps[e][i].node
      BY <1>0, HistoryKept
    <3> QED
      BY <2>1, <3>1 DEF CalledOnce, EffectsCounted
  <2>2. ASSUME NEW w \in Worker, pc[w] = "invoke", job[w] \in Execution, at[w] \in Node,
               Kind[at[w]] = "unsafe_action",
               effects' = [effects EXCEPT ![job[w]][at[w]] = @ + 1]
        PROVE  EffectsCounted(e)'
    <3> SUFFICES ASSUME NEW n \in Node
                 PROVE  /\ effects'[e][n] \in {0, 1}
                        /\ effects'[e][n] # 0 =>
                             /\ Kind[n] = "unsafe_action"
                             /\ \E i \in DOMAIN steps'[e] : steps'[e][i].node = n
      BY DEF EffectsCounted
    <3>1. CASE e = job[w] /\ n = at[w]
      <4>1. effects[e][n] = 0
        BY <2>2, <3>1 DEF CalledOnce, NotYetCalled
      <4>2. effects'[e][n] = 1
        BY <1>0, <2>2, <3>1, <4>1
      <4>3. step[w] \in DOMAIN steps[e] /\ steps[e][step[w]].node = n
        BY <1>0, <2>2, <3>1 DEF Coupled, AtOwnStep, Straight, OnPath
      <4> QED
        BY <1>0, <2>2, <3>1, <4>2, <4>3, HistoryKept
    <3>2. CASE e # job[w] \/ n # at[w]
      <4>1. effects'[e][n] = effects[e][n]
        BY <1>0, <2>2, <3>2
      <4> QED
        BY <1>0, <4>1, HistoryKept DEF CalledOnce, EffectsCounted
    <3> QED
      BY <3>1, <3>2
  <2> QED
    BY <1>0, <2>1, <2>2, EffectWrites
<1>2. ASSUME NEW v \in Worker, ByOthers(v) PROVE NotYetCalled(v)'
  <2>1. CASE pc[v] \in Active
    BY <1>0, <1>2, <2>1, OthersLeave DEF CalledOnce, NotYetCalled, SameWorker
  <2>2. CASE pc[v] \notin Active
    BY <1>0, <1>2, <2>2, OthersLeaveIdle DEF NotYetCalled, Active, Looping
  <2> QED
    BY <2>1, <2>2
<1>3. ASSUME NEW v \in Worker, Run(v) \/ Crash(v) \/ HeartbeatCancels(v)
      PROVE  NotYetCalled(v)'
  <2>0. pc[v] \in Active /\ job[v] \in Execution /\ UNCHANGED job
    BY <1>0, <1>3, WorkerTouches
  <2>1. CASE CreateStep(v)
    <3>1. UNCHANGED <<at, effects>> /\ at[v] \in Node /\ Beyond(job[v], at[v])
      BY <1>0, <2>1 DEF CreateStep, Typed, WorkerOK, Looping, Straight, OnPath
    <3>2. \A i \in DOMAIN steps[job[v]] : steps[job[v]][i].node # at[v]
      BY <3>1 DEF Beyond, Acyclic
    <3>3. effects[job[v]][at[v]] = 0
      BY <2>0, <3>1, <3>2 DEF CalledOnce, EffectsCounted
    <3> QED
      BY <2>0, <3>1, <3>3 DEF NotYetCalled
  <2>2. CASE StartStep(v)
    BY <2>0, <2>2 DEF StartStep, localVars, CalledOnce, NotYetCalled
  <2>3. CASE RecordCompleted(v)
    <3>1. pc'[v] \in {"check", "finalize", "mark_failed"}
      <4>1. Committed(v, "check") \/ Committed(v, "finalize")
        BY <2>3 DEF RecordCompleted
      <4> QED
        BY <1>0, <4>1 DEF Committed, GoTo
    <3> QED
      BY <3>1 DEF NotYetCalled
  <2>4. CASE \/ LoadExecution(v) \/ CheckCancellation(v) \/ InvokeNode(v) \/ InvokeFails(v)
             \/ ApprovalHandoff(v) \/ HandoffRefused(v) \/ Raise(v)
             \/ MarkStepFailed(v) \/ SaveFailureContext(v) \/ Finalize(v)
             \/ OwnershipLost(v) \/ Crash(v) \/ HeartbeatCancels(v)
    <3>1. pc'[v] \notin {"start", "invoke"}
      BY <1>0, <2>4 DEF LoadExecution, CheckCancellation, InvokeNode, InvokeFails,
         ApprovalHandoff, HandoffRefused, Raise, MarkStepFailed, SaveFailureContext, Finalize,
         OwnershipLost, Crash, HeartbeatCancels, Committed, GoTo
    <3> QED
      BY <3>1 DEF NotYetCalled
  <2> QED
    BY <1>3, <2>1, <2>2, <2>3, <2>4 DEF Run
<1>4. ASSUME NEW v \in Worker, NEW e \in Execution, ClaimPending(v, e) PROVE NotYetCalled(v)'
  <2>1. pc'[v] = "load"
    BY <1>0, <1>4 DEF ClaimPending, GoTo
  <2> QED
    BY <2>1 DEF NotYetCalled
<1>5. \A v \in Worker : NotYetCalled(v)'
  BY <1>2, <1>3, <1>4 DEF ByOthers, Next
<1> QED
  BY <1>0, <1>1, <1>5 DEF CalledOnce

-----------------------------------------------------------------------------
(* Replays of replays.                                                     *)

LEMMA AncestorsClosed ==
  ASSUME replayOf \in [Execution -> Execution \cup {None}], NEW e \in Execution
  PROVE  /\ Ancestors(e) \subseteq Execution
         /\ replayOf[e] # None => replayOf[e] \in Ancestors(e)
         /\ \A x \in Ancestors(e) : replayOf[x] # None => replayOf[x] \in Ancestors(e)
BY DEF Ancestors

\* Whoever is replayed has failed for good.
LEMMA AncestorsAreDead ==
  ASSUME Filed, NEW e \in Execution
  PROVE  \A a \in Ancestors(e) : a \in Execution /\ Dead(a)
<1> DEFINE S == {a \in Execution : Dead(a)}
<1>1. \A x \in Execution : replayOf[x] # None => replayOf[x] \in S
  BY TypesOf DEF Filed, Linked, OneDeadLetter, FiledRow
<1>2. S \in SUBSET Execution
  OBVIOUS
<1> HIDE DEF S
<1>3. Ancestors(e) \subseteq S
  BY <1>1, <1>2 DEF Ancestors
<1> QED
  BY <1>3 DEF S

LEMMA OriginWrites ==
  ASSUME [Next]_vars
  PROVE  \/ UNCHANGED <<replayOf, replayStart>>
         \/ \E f, r \in Execution : ReplayEvent(f, r)
<1>1. ASSUME NEW w \in Worker, Run(w) \/ Crash(w) \/ HeartbeatCancels(w)
      PROVE  UNCHANGED <<replayOf, replayStart>>
  BY <1>1 DEF rowVars, Run, LoadExecution, CheckCancellation, CreateStep, StartStep,
     InvokeNode, InvokeFails, RecordCompleted, ApprovalHandoff, HandoffRefused, Raise,
     MarkStepFailed, SaveFailureContext, Finalize, OwnershipLost, Crash, HeartbeatCancels
<1>2. ASSUME NEW e \in Execution, NEW d, DecideApproval(e, d)
      PROVE  UNCHANGED <<replayOf, replayStart>>
  BY <1>2 DEF DecideApproval
<1>3. ASSUME NEW e \in Execution,
             \/ CreatePending(e) \/ RequestCancellation(e) \/ ResolveEvent(e)
             \/ LeaseExpires(e) \/ CleanupExpired(e)
      PROVE  UNCHANGED <<replayOf, replayStart>>
  BY <1>3 DEF CreatePending, RequestCancellation, ResolveEvent, LeaseExpires,
     CleanupExpired, rowVars
<1> QED
  BY <1>1, <1>2, <1>3 DEF Next, Request, ClaimPending, vars, rowVars

\* A new replay descends from what it replays, and nothing descends from it.
LEMMA NewAncestors ==
  ASSUME Filed, NEW f \in Execution, NEW r \in Execution, ReplayEvent(f, r),
         NEW e \in Execution
  PROVE  /\ e # r => Ancestors(e)' \subseteq Ancestors(e)
         /\ Ancestors(r)' \subseteq {f} \cup Ancestors(f)
<1>0. replayOf \in [Execution -> Execution \cup {None}]
  BY TypesOf DEF Filed, Linked
<1>1. /\ Dead(f) /\ status[r] = "absent" /\ r # f /\ replayOf'[r] = f
      /\ \A g \in Execution \ {r} : replayOf'[g] = replayOf[g]
  BY ReplayFacts
<1>2. \A x \in Execution : r \notin Ancestors(x)
  BY <1>1, AncestorsAreDead DEF Dead
<1>3. ASSUME NEW x \in Execution PROVE /\ Ancestors(x) \in SUBSET Execution
                                       /\ \A y \in Ancestors(x) :
                                            replayOf'[y] # None => replayOf'[y] \in Ancestors(x)
  BY <1>0, <1>1, <1>2, AncestorsClosed
<1>4. ASSUME e # r PROVE Ancestors(e)' \subseteq Ancestors(e)
  <2> DEFINE S == Ancestors(e)
  <2>1. S \in SUBSET Execution /\ (replayOf'[e] # None => replayOf'[e] \in S)
        /\ \A y \in S : replayOf'[y] # None => replayOf'[y] \in S
    BY <1>0, <1>1, <1>3, <1>4, AncestorsClosed
  <2> HIDE DEF S
  <2>2. \A a \in Ancestors(e)' : a \in S
    BY <2>1 DEF Ancestors
  <2> QED
    BY <2>2 DEF S
<1>5. Ancestors(r)' \subseteq {f} \cup Ancestors(f)
  <2> DEFINE S == {f} \cup Ancestors(f)
  <2>1. S \in SUBSET Execution /\ (replayOf'[r] # None => replayOf'[r] \in S)
        /\ \A y \in S : replayOf'[y] # None => replayOf'[y] \in S
    BY <1>0, <1>1, <1>3, AncestorsClosed
  <2> HIDE DEF S
  <2>2. \A a \in Ancestors(r)' : a \in S
    BY <2>1 DEF Ancestors
  <2> QED
    BY <2>2 DEF S
<1> QED
  BY <1>4, <1>5

\* The replay starts with a safe operation, and no action behind it was tried by
\* an execution it descends from.
Clear(e) ==
  replayStart[e] # None =>
    /\ SafeToReplay(replayStart[e])
    /\ \A a \in Ancestors(e) : ~DownstreamAttempted(a, replayStart[e])

Cleared ==
  /\ CalledOnce /\ Fresh
  /\ \A e \in Execution : Clear(e)

\* All a replay does is done at the node it starts from or behind it.
LEMMA ReplayStaysBehindStart ==
  ASSUME Cleared, NEW e \in Execution, replayStart[e] # None, NEW i \in DOMAIN steps[e]
  PROVE  \/ steps[e][i].node = replayStart[e]
         \/ steps[e][i].node \in Downstream(replayStart[e])
<1>1. steps[e] \in Seq(Step) /\ FreshRow(e) /\ InOrder(e)
  BY TypesOf DEF Cleared, CalledOnce, Straight, Settled, Coupled, Owned, Fresh
<1>2. 1 \in DOMAIN steps[e] /\ (i = 1 \/ 1 < i)
  BY <1>1, LenProperties
<1>3. steps[e][1].node = replayStart[e]
  BY <1>1, <1>2 DEF FreshRow, NoSteps
<1> QED
  BY <1>1, <1>2, <1>3 DEF InOrder

LEMMA ClearedMeans == Cleared => UnsafeAtMostOnce
<1> SUFFICES ASSUME Cleared, NEW e \in Execution, NEW n \in Node, effects[e][n] > 0
             PROVE  effects[e][n] = 1 /\ \A a \in Ancestors(e) : effects[a][n] = 0
  BY DEF UnsafeAtMostOnce
<1>0. Filed /\ replayOf \in [Execution -> Execution \cup {None}]
  BY TypesOf DEF Cleared, Fresh, Filed, Linked
<1>1. \A x \in Execution : effects[x][n] # 0 =>
        Kind[n] = "unsafe_action" /\ \E i \in DOMAIN steps[x] : steps[x][i].node = n
  BY DEF Cleared, CalledOnce, EffectsCounted
<1>2. effects[e][n] = 1
  BY DEF Cleared, CalledOnce, EffectsCounted
<1>3. ASSUME NEW a \in Ancestors(e), effects[a][n] # 0 PROVE FALSE
  <2>1. a \in Execution
    BY <1>0, AncestorsAreDead
  <2>2. replayOf[e] # None
    <3>1. CASE replayOf[e] = None
      <4>1. {} \in SUBSET Execution
        OBVIOUS
      <4>2. a \in {}
        BY <1>3, <3>1, <4>1 DEF Ancestors
      <4> QED
        BY <4>2
    <3> QED
      BY <3>1
  <2>3. replayStart[e] # None /\ Clear(e)
    BY <2>2 DEF Cleared, Fresh, FreshRow
  <2>4. PICK i \in DOMAIN steps[e] : steps[e][i].node = n
    BY <1>1, <1>2
  <2>5. Kind[n] = "unsafe_action"
    BY <1>1, <1>2
  <2>6. n \in Downstream(replayStart[e])
    BY <2>3, <2>4, <2>5, ReplayStaysBehindStart DEF Clear, SafeToReplay
  <2>7. PICK j \in DOMAIN steps[a] : steps[a][j].node = n
    BY <1>1, <1>3, <2>1
  <2> QED
    BY <2>3, <2>5, <2>6, <2>7 DEF Clear, DownstreamAttempted, IsAction
<1> QED
  BY <1>2, <1>3

LEMMA NextCleared ==
  /\ CommitsAcknowledged /\ ContextsSaved /\ Acyclic
  /\ Cleared /\ [Next]_vars
  => Cleared'
<1> SUFFICES ASSUME CommitsAcknowledged, ContextsSaved, Acyclic, Cleared, [Next]_vars
             PROVE  Cleared'
  OBVIOUS
<1>0. CalledOnce' /\ Fresh' /\ Filed /\ Settled /\ Typed
  BY NextCalledOnce, NextFresh DEF Cleared, Fresh, Filed, Linked
<1>2. ASSUME NEW e \in Execution, UNCHANGED <<replayOf, replayStart>> PROVE Clear(e)'
  <2>1. Ancestors(e)' = Ancestors(e)
    BY <1>2 DEF Ancestors
  <2>2. ASSUME replayStart[e] # None, NEW a \in Ancestors(e)
        PROVE  ~DownstreamAttempted(a, replayStart[e])'
    <3>1. Dead(a) /\ a \in Execution
      BY <1>0, AncestorsAreDead
    <3>2. ~DownstreamAttempted(a, replayStart[e])
      BY <2>2 DEF Cleared, Clear
    <3>3. replayStart'[e] = replayStart[e]
      BY <1>2
    <3> QED
      BY <1>0, <3>1, <3>2, <3>3, DeadStaysDead, HistoryKept DEF DownstreamAttempted
  <2> QED
    BY <1>2, <2>1, <2>2 DEF Cleared, Clear, SafeToReplay
<1>3. ASSUME NEW e \in Execution, NEW f \in Execution, NEW r \in Execution, ReplayEvent(f, r)
      PROVE  Clear(e)'
  <2> DEFINE n == steps[f][deadLetters[f][1].step].node
  <2>1. /\ SafeToReplay(n) /\ ~DownstreamAttempted(f, n) /\ n \in Node
        /\ deadLetters[f][1].step \in DOMAIN steps[f]
        /\ replayStart'[r] = n /\ UNCHANGED steps
        /\ \A g \in Execution \ {r} : replayStart'[g] = replayStart[g]
    BY <1>0, <1>3, ReplayFacts
  <2>2. CASE e # r
    <3>1. Ancestors(e)' \subseteq Ancestors(e)
      BY <1>0, <1>3, <2>2, NewAncestors
    <3> QED
      BY <2>1, <2>2, <3>1 DEF Cleared, Clear, DownstreamAttempted, SafeToReplay
  <2>3. CASE e = r
    <3>1. Ancestors(r)' \subseteq {f} \cup Ancestors(f)
      BY <1>0, <1>3, NewAncestors
    <3>2. ASSUME NEW a \in Ancestors(f) PROVE ~DownstreamAttempted(a, n)
      <4>1. replayOf[f] # None
        <5>1. CASE replayOf[f] = None
          <6>1. {} \in SUBSET Execution
            OBVIOUS
          <6>2. a \in {}
            BY <5>1, <6>1 DEF Ancestors
          <6> QED
            BY <6>2
        <5> QED
          BY <5>1
      <4>2. replayStart[f] # None /\ Clear(f) /\ replayStart[f] \in Node
        BY <1>0, <4>1, TypesOf DEF Cleared, Fresh, FreshRow
      <4>3. n = replayStart[f] \/ n \in Downstream(replayStart[f])
        BY <2>1, <4>2, ReplayStaysBehindStart
      <4>4. \A m \in Downstream(n) : m \in Downstream(replayStart[f])
        BY <4>2, <4>3, DownstreamOfDownstream
      <4> QED
        BY <4>2, <4>4 DEF Clear, DownstreamAttempted
    <3>3. \A a \in Ancestors(r)' : ~DownstreamAttempted(a, n)
      BY <2>1, <3>1, <3>2
    <3> HIDE DEF n
    <3>4. \A a \in Ancestors(r)' : ~DownstreamAttempted(a, replayStart[r])'
      BY <2>1, <3>3 DEF DownstreamAttempted
    <3> QED
      BY <2>1, <2>3, <3>4 DEF Clear, SafeToReplay
  <2> QED
    BY <2>2, <2>3
<1> QED
  BY <1>0, <1>2, <1>3, OriginWrites DEF Cleared

\* Over an execution and everything that replays it an unsafe operation is sent
\* to its provider at most once, whatever crashes, lost leases, resumptions and
\* replays of replays there are, if commits that take effect are acknowledged
\* and failure contexts are saved (dead_letter.py:197-290, runner.py:531-775).
THEOREM UnsafeCalledOnce ==
  ASSUME CommitsAcknowledged, ContextsSaved, Acyclic
  PROVE  Spec => []UnsafeAtMostOnce
<1>1. Init => Cleared
  <2> SUFFICES ASSUME Init PROVE Cleared
    OBVIOUS
  <2>1. \A e \in Execution : Clear(e)
    BY DEF Init, Clear
  <2> QED
    BY <2>1, InitCalledOnce, InitFresh DEF Cleared
<1>2. Cleared /\ [Next]_vars => Cleared'
  BY NextCleared
<1>3. Cleared => UnsafeAtMostOnce
  BY ClearedMeans
<1> QED
  BY <1>1, <1>2, <1>3, PTL DEF Spec
=============================================================================
