\* The same history, one pass.
SPECIFICATION Spec
CONSTANTS
  Trading <- OpenHours
  SlotLen = 2
  HourLen = 4
  DayLen = 12
  HourOffset = 2
  FetchBack = 3
  Keep5m = 4
  Served5m = 6
  Keep1h = 9
  Served1h = 18
  Start = 33
  End = 36
  ChunkRows = 2
  MaxPasses = 1
INVARIANTS RerunFixesHistory
CHECK_DEADLOCK FALSE
