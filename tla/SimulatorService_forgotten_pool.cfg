SPECIFICATION Spec
CONSTANTS
  e1 = e1
  e2 = e2
  w1 = w1
  w2 = w2
  Closer = closer
  Nobody = nobody
  Envs <- MCEnvs1
  Workers <- MCWorkers2
  MaxActive = 1
  MaxTombstones = 1
  MaxPools = 1
INVARIANTS
  NoPoolForgotten
