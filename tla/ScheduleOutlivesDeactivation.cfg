SPECIFICATION Spec
CONSTANTS
  Request = {r1, r2}
  Worker = {w1}
  MaxVersion = 1
  Definition = {"empty", "daily"}
  Valid = {"daily"}
  Scheduled = {"daily"}
  Empty = "empty"
  None = None
  MaxTime = 0
  MaxDeaths = 0
SYMMETRY RequestSymmetry
CHECK_DEADLOCK FALSE
INVARIANTS
  InactiveIsSuspended
