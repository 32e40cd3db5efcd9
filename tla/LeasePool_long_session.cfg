SPECIFICATION Spec
CONSTANTS
  r1 = r1
  r2 = r2
  r3 = r3
  b1 = b1
  b2 = b2
  s1 = s1
  s2 = s2
  NoRecord = NoRecord
  NoScale = NoScale
  Nobody = Nobody
  Drainer = Drainer
  Records <- MCRecords2
  Backends <- MCBackends
  Scales <- MCOneScale
  AgentLimits <- MCLongLimits
  MaxActive = 1
  Ttl = 2
  Grace = 1
  WaitLimit = 2
INVARIANTS
  SessionLeaseCovered
