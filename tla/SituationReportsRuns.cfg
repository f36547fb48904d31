\* One task, three runs over two days of two units, restarts and database errors.
SPECIFICATION Spec
CONSTANTS
  Tasks = {t1}
  Runs = {r1, r2, r3}
  None = None
  HoursPerDay = 1
  UnitsPerHour = 2
  LocalOffset = 0
  MaxNow = 3
  MaxEdits = 0
  SchedulerInterval = 1
  StaleAge = 1
  RetryAge = 2
  MaxAttempts = 2
SYMMETRY RunSymmetry
INVARIANTS ClaimExclusive LiveRunOwnsRow DayClosedForAReason
PROPERTIES LastRunNeverGoesBack
CHECK_DEADLOCK FALSE
