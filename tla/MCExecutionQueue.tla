-------------------------- MODULE MCExecutionQueue --------------------------
(* Small instances of ExecutionQueue.                                      *)
EXTENDS ExecutionQueue, TLC

\* trigger -> approval --approved--> refund -> condition --true--> ai
MCNode == {"start", "gate", "refund", "choose", "notify"}
MCKind == [n \in MCNode |->
  CASE n = "start" -> "trigger" [] n = "gate" -> "approval"
    [] n = "refund" -> "unsafe_action" [] n = "choose" -> "condition"
    [] n = "notify" -> "ai"]
MCSuccessor == [n \in MCNode |-> [b \in Branch |->
  CASE n = "start" /\ b = "next" -> "gate"
    [] n = "gate" /\ b = "approved" -> "refund"
    [] n = "refund" /\ b = "next" -> "choose"
    [] n = "choose" /\ b = "true" -> "notify"
    [] OTHER -> None]]

\* trigger -> safe request -> approval --approved--> refund -> ai
RefundNode == {"start", "fetch", "gate", "refund", "notify"}
RefundKind == [n \in RefundNode |->
  CASE n = "start" -> "trigger" [] n = "fetch" -> "safe_action"
    [] n = "gate" -> "approval" [] n = "refund" -> "unsafe_action"
    [] n = "notify" -> "ai"]
RefundSuccessor == [n \in RefundNode |-> [b \in Branch |->
  CASE n = "start" /\ b = "next" -> "fetch"
    [] n = "fetch" /\ b = "next" -> "gate"
    [] n = "gate" /\ b = "approved" -> "refund"
    [] n = "refund" /\ b = "next" -> "notify"
    [] OTHER -> None]]

\* trigger -> approval --approved--> refund
ShortNode == {"start", "gate", "refund"}
ShortKind == [n \in ShortNode |-> MCKind[n]]
ShortSuccessor == [n \in ShortNode |-> [b \in Branch |->
  IF MCSuccessor[n][b] \in ShortNode THEN MCSuccessor[n][b] ELSE None]]

Symmetry == Permutations(Worker) \cup Permutations(Execution)
=============================================================================
