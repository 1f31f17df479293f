SPECIFICATION FairSpec
CONSTANTS
  Execution = {e1}
  Worker = {w1, w2, w3}
  Node <- ShortNode
  None = None
  NoResume = NoResume
  Trigger = "start"
  Kind <- ShortKind
  Successor <- ShortSuccessor
  Fault = {"ack_lost"}
CHECK_DEADLOCK FALSE
INVARIANTS
  SingleRunner
  RunnerOwnsOrInterrupted
  OpenStepsAccounted
PROPERTIES
  RunsEnd
  CancellationTakesEffect
