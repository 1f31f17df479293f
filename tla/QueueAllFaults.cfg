SPECIFICATION Spec
CONSTANTS
  Execution = {e1, e2, e3}
  Worker = {w1, w2}
  Node <- MCNode
  None = None
  NoResume = NoResume
  Trigger = "start"
  Kind <- MCKind
  Successor <- MCSuccessor
  Fault = {"ack_lost", "mark_failed_lost", "save_context_lost"}
SYMMETRY Symmetry
CHECK_DEADLOCK FALSE
INVARIANTS
  TypeOK
  ApprovalCoupling
  DeadLetterCoverage
PROPERTY ImplementsLifecycle
