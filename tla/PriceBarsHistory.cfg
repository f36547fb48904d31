\* Half a day after a day and a half of history, two compaction passes.
SPECIFICATION Spec
CONSTANTS
  Trading <- OpenHours
  SlotLen = 2
  HourLen = 4
  DayLen = 12
  HourOffset = 2
  FetchBack = 3
  Keep5m = 4
  Served5m = 6
  Keep1h = 9
  Served1h = 18
  Start = 33
  End = 36
  ChunkRows = 2
  MaxPasses = 2
INVARIANTS BarsStayInTheirDay CountedTwiceOnlyAtASeam
PROPERTIES CompactionKeepsCandles RecentBarsAreFinal
CHECK_DEADLOCK FALSE
