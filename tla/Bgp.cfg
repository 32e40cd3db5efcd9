SPECIFICATION BgpSpec
CONSTANTS
  Devices = {d1}
  States = {"up", "down", "gone"}
  Sparse = FALSE
  SpoolLimit = 6
  SegmentSize = 2
  Tolerance = 1
  MaxTime = 5
  MaxCrashes = 1
INVARIANTS
  EventsTellTruth
PROPERTIES
  UnreadLinesKept
CHECK_DEADLOCK FALSE
