SPECIFICATION Spec
CONSTANTS
  r1 = r1
  r2 = r2
  r3 = r3
  b1 = b1
  b2 = b2
  s1 = s1
  s2 = s2
  NoRecord = NoRecord
  NoScale = NoScale
  Nobody = Nobody
  Drainer = Drainer
  Records <- MCRecords3
  Backends <- MCBackends
  Scales <- MCTwoScales
  AgentLimits <- MCLimits
  MaxActive = 2
  Ttl = 2
  Grace = 1
  WaitLimit = 4
SYMMETRY MCSymmetry
INVARIANTS
  ExclusiveEpisodeLease
  RuntimesAccounted
  SessionLeaseCovered
  NoLostWakeup
PROPERTIES
  OnlyDrainRevokesSession
  ImplementsExclusiveLease
