SPECIFICATION Spec
CONSTANTS
  Policies <- MCPolicies
  Confirm = 1
  MinLost = 1
  LossyPaths = 1
  QueueCapacity = 2
  BatchSize = 2
  MaxCycles = 4
  MaxTrouble = 2
INVARIANTS
  LossIsReal
  SuspicionConfirmed
  CoverageMeansProbes
  BaselineHidesOnlyItsOwn
CHECK_DEADLOCK FALSE
