SPECIFICATION Spec
CONSTANTS
  Runtimes <- MCRuntimes
  Labs <- MCNamesakes
  Others = {}
  NoOne = NoOne
  Subnets = 4
  Parallel = TRUE
  MaxTrouble <- MCOneTroubled
INVARIANTS
  GoneMeansClean
  SubnetsDisjoint
  WarmMeansComplete
PROPERTIES
  EventuallyGone
CHECK_DEADLOCK FALSE
