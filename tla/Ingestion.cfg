SPECIFICATION FairSpec
CONSTANTS
  Event = {a, b, c}
  Consumer = {c1, c2}
  None = None
  Fault = {"deactivation", "call_fails", "ack_lost", "crash", "rebalance", "sent_twice"}
  MaxFailures = 3
CHECK_DEADLOCK FALSE
INVARIANTS
  OncePerEvent
  AcknowledgedIsPersisted
PROPERTIES
  EventsStored
