SPECIFICATION TrafficSpec
CONSTANTS
  Clients = {c1, c2}
  Flows = {f1}
  MaxGen = 2
  MaxPolls = 2
  MaxLost = 3
INVARIANTS
  NeverMixed
PROPERTIES
  StopSilences
  CallsReturn
