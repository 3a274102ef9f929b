CONSTANTS
  Service = {web, api}
  First = web
  MaxDep = 2
  MaxFail = 2
  MaxCrash = 1
SPECIFICATION FairSpec
CHECK_DEADLOCK FALSE
INVARIANTS RecordTellsWhatRuns HistoryIsTrue RunningIsRun
PROPERTIES FollowerEnds
