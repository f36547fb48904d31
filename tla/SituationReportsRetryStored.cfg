\* One task, two runs in a day of four quarters: nothing goes wrong but a search that finds nothing.
SPECIFICATION QuietSpec
CONSTANTS
  Tasks = {t1}
  Runs = {r1, r2}
  None = None
  HoursPerDay = 1
  UnitsPerHour = 4
  LocalOffset = 0
  MaxNow = 3
  MaxEdits = 0
  SchedulerInterval = 1
  StaleAge = 1
  RetryAge = 2
  MaxAttempts = 3
INVARIANTS ClosingRunHasStored
CHECK_DEADLOCK FALSE
