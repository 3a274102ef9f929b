CONSTANTS
  Proc = {p1, p2}
  MaxReq = 3
  MaxTrouble = 2
SPECIFICATION FairSpec
CHECK_DEADLOCK FALSE
INVARIANTS OneAtATime NothingLeaks
PROPERTIES TakenOnlyByRace EveryoneIsAnswered
