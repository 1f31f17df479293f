\* Two of everything an answer can be about, so that it can be the other one.
CONSTANTS
  None = None
  Email = {e1, e2}
  Tested = {t1, t2}
  Canvas = {1, 2}
  ManualVersion = {1, 2}
  ScheduleVersion = {1, 2, 3}
  Triggered = {1, 2}
  Draft = 2
  Run = r1
  MaxLinks = 2
  MaxPosts = 3
  MaxMoves = 3
  MaxOutages = 1
  MaxTestCalls = 2
  MaxSessions = 2
  MaxVersion = 3
  MaxToolbarCalls = 4
  MaxToolbarFails = 1
  MaxRuns = 2
  MaxChanges = 2
  MaxRunTrouble = 1
  MaxPanelRuns = 2
  MaxPanelTurns = 1
  MaxPanelTrouble = 1
  MaxPolls = 2
  MaxDetailTrouble = 2
  MaxScheduleEvents = 3

SPECIFICATION Spec

INVARIANTS
  AnswersFit
  ActsOnce
  OutcomesAreTrue
  KeepsFollowing
  ScheduleIsAsLeft

\* A page stops when its bounds are used up.
CHECK_DEADLOCK FALSE
