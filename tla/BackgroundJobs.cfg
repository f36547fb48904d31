\* Reports: two requests and the scheduler, two periods, two failures or restarts.
\* Index: two texts, three days of which news count two, two changes of the sources, one slip.
SPECIFICATION JobsSpec
CONSTANTS
  Requests = {r1, r2}
  Scheduler = Scheduler
  MaxPeriod = 1
  MaxFaults = 2
  Chunks = {1, 2}
  Retention = 1
  LastDay = 2
  MaxChanges = 2
  MaxSlips = 1
INVARIANTS DuplicatesAreBounded
PROPERTIES UndisturbedRunLeavesOneReport EventuallyReported 
CHECK_DEADLOCK FALSE
