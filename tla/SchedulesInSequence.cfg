SPECIFICATION FairSpec
CONSTANTS
  Request = {r1}
  Worker = {w1, w2}
  MaxVersion = 2
  Definition = {"empty", "daily", "manual"}
  Valid = {"daily", "manual"}
  Scheduled = {"daily"}
  Empty = "empty"
  None = None
  MaxTime = 1
  MaxDeaths = 1
CHECK_DEADLOCK FALSE
INVARIANTS
  InactiveIsSuspended
  FollowsPublication
  NeverDraft
PROPERTIES
  DueIsAdvanced
