SPECIFICATION FairSpec
CONSTANTS
  t1 = t1
  t2 = t2
  t3 = t3
  s1 = s1
  s2 = s2
  NoThread = NoThread
  NoSession = NoSession
  Threads <- MCThreads
  Sessions <- MCSessions
  Harness <- MCHarness
  MaxToolCalls = 1
INVARIANTS
  LeaseEndsOnce
PROPERTIES
  ToolStartsOnLease
  CallsReturn
  CloseFreesRuntime
