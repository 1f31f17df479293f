SPECIFICATION Spec
CONSTANTS
  Execution = {e1, e2}
  Worker = {w1, w2, w3}
  Node <- RefundNode
  None = None
  NoResume = NoResume
  Trigger = "start"
  Kind <- RefundKind
  Successor <- RefundSuccessor
  Fault = {"mark_failed_lost"}
SYMMETRY Symmetry
CHECK_DEADLOCK FALSE
INVARIANTS
  CompletedStepsNotRepeated
  UnsafeAtMostOnce
  ReplayStartsAtFailedNode
