\* Two days of one unit, another local hour, two runs and an update in flight, and the fairness of runs.
SPECIFICATION FairSpec
CONSTANTS
  Tasks = {t1}
  Runs = {r1, r2}
  None = None
  HoursPerDay = 1
  UnitsPerHour = 1
  LocalOffset = 1
  MaxNow = 1
  MaxEdits = 1
  SchedulerInterval = 1
  StaleAge = 1
  RetryAge = 1
  MaxAttempts = 2
PROPERTIES DeletedStaysDeleted RunsEnd
CHECK_DEADLOCK FALSE
