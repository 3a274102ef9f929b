CONSTANTS
  File = {f1, f2}
  Content = {c1, c2}
  Worker = {w1}
  NoWorker = NoWorker
  MaxRev = 2
  MaxPlan = 1
  MaxCrash = 1
  MaxTear = 0
  MaxFault = 0
  MaxEdit = 1
SPECIFICATION FairSpec
INVARIANTS IInv AnswerIsTrue
PROPERTY InterruptedIsSettled
