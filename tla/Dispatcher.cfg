SPECIFICATION FairSpec
CONSTANTS
  Execution = {e1, e2}
  Task = {t1, t2}
  None = None
  MaxConcurrency = 2
  Event = {"consumer_fails", "loop_fails", "claim_raises", "lease_lost", "shutdown", "crash"}
  MaxRestarts = 1
  MaxHandoffs = 1
CHECK_DEADLOCK FALSE
INVARIANTS
  CountersAgree
  GracefulStop
PROPERTIES
  PendingIsDispatched
  RunningEnds
