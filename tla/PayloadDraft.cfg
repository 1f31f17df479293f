\* Version 3 has no trigger; one payload is typed, saved, and overtaken.
CONSTANTS
  None = None
  Version = {1, 2, 3}
  Triggered = {1, 2}
  Draft = 2
  MaxScheduleEvents = 3

SPECIFICATION Spec

INVARIANT DraftKept

CHECK_DEADLOCK FALSE
