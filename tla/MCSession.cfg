CONSTANTS
  N = 2
  Antennas <- MCAntenna
  ProvisionCells = 1
  CheckedCells <- MCNone
  ProfileRegs = 0
  VoltageWait = 1
  VoltageBudget = 1
  Dwell = 1
  AuxTimeout = 1
  AuxRetries = 1
  CorrWrap = 1
  StowBudget = 2
  StaleAfter = 1
  Grace = 2
  MaxScript = 1
  SpanCap = 2
  Spans = {1, 3}
  Statuses = {"flagged"}
  Ages = {0, 1}
  Raises = {"AntennaFault", "HeadObstructed", "HeadServoFault", "PoseLost"}
  Hazards = {"stale", "silent"}
SPECIFICATION Spec
INVARIANTS
  TypeOK
  NothingBesideARelease
  StowIsGoverned
  TransactionHasOneOwner
PROPERTIES
  LivesAsPromised
  AsksOfTheFit
