SPECIFICATION Spec
CONSTANTS
  r1 = r1
  r2 = r2
  s = s
  t = t
  here = here
  there = there
  Runs <- MCRuns
  Roots <- MCRoots
  Suite <- MCSuite
  Size <- MCSize
  Kinds <- MCKinds
  Traced <- MCTraced
  MaxLost = 1
  MaxCrashes = 1
CHECK_DEADLOCK FALSE
INVARIANTS
  RecordsTruthful
  ReportAccounts
  RowsOwnTrace
