SPECIFICATION WorkerSpec
CONSTANTS
  Devices <- MCDevices
  Clients <- MCClients
  Addresses <- MCAddresses
  Targets <- MCTargets
  AgentTarget = "c1"
  ParallelDevices = 2
  MaxTries = 2
  Retries = 2
INVARIANTS
  BringUpTruthful
  NetworkWasConverged
PROPERTIES
  BringUpEnds
CHECK_DEADLOCK FALSE
