SPECIFICATION Spec
CONSTANTS
  P = 2
  MaxLate = 1
  MaxWork = 5
  Backs = {1, 12}
  MaxSteps = 2
  MaxElapsed = 20
INVARIANTS
  TypeOK
  StopIsAnswered
  AttendedWithinAPeriod
PROPERTIES
  SkipsAreExact
CHECK_DEADLOCK FALSE
