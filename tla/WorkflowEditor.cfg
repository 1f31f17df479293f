CONSTANTS
  None = None
  Decision = {1}
  Contents = {0, 1, 4}
  Starts <- SmallStarts
  HistoryLimit = 2
  MaxNodes = 3
  MaxEdits = 2
  MaxSaves = 2
  MaxEvents = 1
SPECIFICATION Spec
INVARIANTS  StoredEdgesAttached VerdictIsCurrent 
CHECK_DEADLOCK FALSE
