SPECIFICATION Spec
CONSTANTS
  Tab = {t1, t2}
  Call = {c1, c2}
  None = None
  HasLocks = TRUE
  MaxLogins = 1
  MaxExpiries = 1
  MaxTrouble = 2
SYMMETRY Symmetry
CHECK_DEADLOCK FALSE
INVARIANTS
  NoSelfRevocation
  WaitersAreServed
PROPERTIES
  SignedOutMeansEnded
