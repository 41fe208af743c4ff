SPECIFICATION Spec
CONSTANTS
  N = 2
  HoldTimeout = 2
  ConfirmBudget = 3
  EngageCycles = 2
  EngageSets <- MCEngageSets
  AuxKinds = {"enable", "release", "other"}
  MaxSkip = 2
  MaxBack = 1
  Hazards = {"crash", "reader", "clock", "skip", "stop", "remark", "blind", "unread"}
INVARIANTS
  TypeOK
  LatchHasItsPass
  HoldingIsKnown
  DeadManRuns
  ConfirmedMeansReleased
  EndedTruthfully
PROPERTIES
  ReleaseOutranks
CHECK_DEADLOCK FALSE
