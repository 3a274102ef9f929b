CONSTANTS
  File = {f1, f2}
  Content = {c1, c2}
  Worker = {w1}
  NoWorker = NoWorker
  MaxRev = 2
  MaxPlan = 1
  MaxCrash = 1
  MaxTear = 1
  MaxFault = 1
  MaxEdit = 0
SPECIFICATION Spec
SYMMETRY Symmetry
PROPERTY WriteAhead
