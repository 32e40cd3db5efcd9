SPECIFICATION Spec
CONSTANTS
  w1 = w1
  w2 = w2
  Workers <- MCWorkers
  Share <- MCShare
  Timeout = 2
  MaxDispatches = 2
CHECK_DEADLOCK FALSE
INVARIANTS
  WarmAlwaysClean
