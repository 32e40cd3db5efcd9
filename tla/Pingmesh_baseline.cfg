SPECIFICATION Spec
CONSTANTS
  Policies <- MCShort
  Confirm = 1
  MinLost = 2
  LossyPaths = 0
  QueueCapacity = 1
  BatchSize = 1
  MaxCycles = 3
  MaxTrouble = 3
INVARIANTS
  BaselineHidesOnlyItsOwn
CHECK_DEADLOCK FALSE
