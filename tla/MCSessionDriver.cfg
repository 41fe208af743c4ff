CONSTANTS
  N = 2
  Antennas <- MCAntenna
  ProvisionCells = 0
  CheckedCells <- MCNone
  ProfileRegs = 0
  VoltageWait = 0
  VoltageBudget = 0
  Dwell = 0
  AuxTimeout = 1
  AuxRetries = 0
  CorrWrap = 2
  StowBudget = 1
  StaleAfter = 1
  Grace = 1
  MaxScript = 1
  SpanCap = 1
  Spans = {1}
  Statuses = {"good"}
  Ages = {0}
  Raises = {"HeadObstructed", "AntennaFault", "PoseLost"}
  Hazards = {"early", "stray", "stale", "silent"}
  EngageCycles = 2
  HoldTimeout = 1
  LineCap = 2
  Faults = {"lost", "sweep"}
SPECIFICATION SpecBoth
INVARIANTS
  RestIsLimp
PROPERTIES
  OffWhenTold
  ActiveIsHeld
