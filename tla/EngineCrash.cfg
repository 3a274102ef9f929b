CONSTANTS
  File = {f1, f2}
  Content = {c1, c2}
  Worker = {w1}
  NoWorker = NoWorker
  MaxRev = 3
  MaxPlan = 1
  MaxCrash = 2
  MaxTear = 0
  MaxFault = 0
  MaxEdit = 0
SPECIFICATION Spec
SYMMETRY Symmetry
INVARIANTS AllOrNothing RolledBackIsUndone LinearHistory RevertedHasRollback
PROPERTY ImplementsAtomicSite
