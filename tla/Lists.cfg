\* Two of everything a page lists, so that an answer can be about the other one;
\* one document, which two workers can be given.
CONSTANTS
  None = None
  Approval = {a1, a2}
  Conn = {c1, c2}
  Ai = {i1, i2}
  Hook = {h1, h2}
  KB = {k1, k2}
  Doc = {d1}
  Worker = {w1, w2}
  Flow = {f1, f2}
  Event = {1, 2}
  MaxRefreshes = 1
  MaxDecisions = 1
  MaxOthers = 1
  MaxConnCalls = 1
  MaxBaseCalls = 3
  MaxFlowCalls = 2
  MaxTrouble = 1
  MaxOpened = 2
  MaxSaves = 2
  MaxFails = 1
  MaxActs = 2
  MaxTasks = 2
  MaxFaults = 2
  MaxOperations = 2
  MaxLost = 2
  MaxHandled = 1
  MaxDeskTrouble = 1

SPECIFICATION Spec

INVARIANTS
  DeletedStaysAway
  ListIsCurrent
  FormsFit
  HandledOnce

PROPERTIES
  OutcomeIsShown

\* A page stops when its bounds are used up.
CHECK_DEADLOCK FALSE
