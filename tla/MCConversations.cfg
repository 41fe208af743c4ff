CONSTANTS
  N = 3
  Antennas <- MCAntennas
  ProvisionCells = 2
  CheckedCells <- MCChecked
  ProfileRegs = 1
  VoltageWait = 1
  VoltageBudget = 2
  Dwell = 2
SPECIFICATION FairSpec
INVARIANTS
  ConfiguresOnlyWhatItKnows
  DoneIsWhole
  ReleasedIsConfirmed
PROPERTIES
  EveryConversationEnds
