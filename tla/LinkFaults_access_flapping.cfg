SPECIFICATION Spec
CONSTANTS
  target = target
  peer = peer
  Target = target
  Peer = peer
  Main = Main
  Flapper = Flapper
  NoJob = NoJob
  Links <- MCAccess
  AccessKinds <- MCFlapping
  MaxFaults = 1
  Iterations = 2
INVARIANTS
  UntrackedMeansClean
