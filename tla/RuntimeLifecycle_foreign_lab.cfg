SPECIFICATION Spec
CONSTANTS
  Runtimes <- MCRuntimes
  Labs <- MCLabs
  Others <- MCOthers
  NoOne = NoOne
  Subnets = 3
  Parallel = TRUE
  MaxTrouble <- MCBothTroubled
PROPERTIES
  PreciseTeardown
CHECK_DEADLOCK FALSE
