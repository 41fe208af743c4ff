SPECIFICATION FairSpec
CONSTANTS
  N = 2
  HoldTimeout = 2
  ConfirmBudget = 3
  EngageCycles = 2
  EngageSets <- MCEngageSets
  AuxKinds = {"enable", "release", "other"}
  MaxSkip = 1
  MaxBack = 0
  Hazards = {"reader", "skip", "remark", "blind", "unread", "calm"}
PROPERTIES
  PassSpeaks
  CalmConfirms
