SPECIFICATION Spec
CONSTANTS
  QueueCap = 2
  HoldTimeout = 1
  Instants <- MCInstants
  NoGoal = NoGoal
  MaxTime = 4
  MaxGoals = 4
  MaxSkip = 1
INVARIANTS
  TypeOK
  InArrivalOrder
  NoGoalOutlivesALatch
  DeadManHolds
  NotSuspended
PROPERTY
  ImplementsAuthority
