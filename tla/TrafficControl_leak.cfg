SPECIFICATION TrafficSpec
CONSTANTS
  Clients = {c1, c2}
  Flows = {f1}
  MaxGen = 1
  MaxPolls = 1
  MaxLost = 3
INVARIANT StoppedMeansSilent
