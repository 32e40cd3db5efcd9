SPECIFICATION DeviceSpec
CONSTANTS
  DeviceKinds <- MCKinds
  Stacks <- MCStacks
  MaxDeviceFaults = 2
  OwnRoute = FALSE
  UnreadableMtu = FALSE
INVARIANTS
  UntrackedMeansOriginal
PROPERTIES
  InjectedInEffect
  RecoveryConverges
CHECK_DEADLOCK FALSE
