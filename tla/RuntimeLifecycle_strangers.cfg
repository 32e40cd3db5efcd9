SPECIFICATION Spec
CONSTANTS
  Runtimes <- MCRuntimes
  Labs <- MCLabs
  Others = {}
  NoOne = NoOne
  Subnets = 3
  Parallel = TRUE
  MaxTrouble <- MCBothTroubled
INVARIANTS
  GoneMeansClean
  SubnetsDisjoint
  WarmMeansComplete
PROPERTIES
  EventuallyGone
CHECK_DEADLOCK FALSE
