CONSTANTS
  N = 1
  Antennas <- MCNone
  ProvisionCells = 0
  CheckedCells <- MCNone
  ProfileRegs = 0
  VoltageWait = 0
  VoltageBudget = 0
  Dwell = 0
  AuxTimeout = 1
  AuxRetries = 0
  CorrWrap = 1
  StowBudget = 1
  StaleAfter = 1
  Grace = 1
  MaxScript = 1
  SpanCap = 1
  Spans = {1}
  Statuses = {}
  Ages = {0}
  Raises = {"HeadObstructed"}
  Hazards = {"early", "stray"}
  EngageCycles = 2
  HoldTimeout = 1
  LineCap = 1
  Faults = {"stall"}
SPECIFICATION FairBoth
PROPERTIES
  RestingOwedEnds
