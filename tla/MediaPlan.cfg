CONSTANTS
  Task = {t1}
  NeedsLink = {t1}
  Request = {1, 2}
  Exec = {1, 2}
  NoTask = none
  MaxAsk = 4
  MaxFail = 1
SPECIFICATION MCSpec
CHECK_DEADLOCK FALSE
PROPERTIES StaysPaused WaitsForPerson ScheduledRuns InProgressEnds
