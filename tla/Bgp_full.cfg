SPECIFICATION BgpSpec
CONSTANTS
  Devices = {d1}
  States = {"up"}
  Sparse = FALSE
  SpoolLimit = 4
  SegmentSize = 2
  Tolerance = 1
  MaxTime = 8
  MaxCrashes = 0

PROPERTIES
  SpoolTakesBatchesAgain
CHECK_DEADLOCK FALSE
