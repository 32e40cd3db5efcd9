SPECIFICATION FairSpec
CONSTANTS
  target = target
  peer = peer
  Target = target
  Peer = peer
  Main = Main
  Flapper = Flapper
  NoJob = NoJob
  Links <- MCFabricOrAccess
  AccessKinds <- MCDown
  MaxFaults = 2
  Iterations = 2
INVARIANTS
  UntrackedMeansClean
PROPERTIES
  BothThreadsEnd
