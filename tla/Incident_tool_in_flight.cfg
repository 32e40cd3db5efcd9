SPECIFICATION Spec
CONSTANTS
  t1 = t1
  t2 = t2
  t3 = t3
  s1 = s1
  s2 = s2
  NoThread = NoThread
  NoSession = NoSession
  Threads <- MCTwoThreads
  Sessions <- MCSessions
  Harness <- MCHarness
  MaxToolCalls = 2
INVARIANTS
  ToolRunsOnLease
