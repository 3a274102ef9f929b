CONSTANTS
  Slot = {q1, q2, q3}
  User = {ann}
  Policy = policy
  Content = {home, new}
  Refused = {}
  Reason = {why}
  NoDiff = none
  Creator = ann
  First = new
  SelfApproval = TRUE
  AutoApply = FALSE
  MustValidate = FALSE
  EarlyAccess = FALSE
  MaxRequest = 6
  MaxRev = 1
  MaxOther = 1
  MaxLoss = 0
  MaxCrash = 0
SPECIFICATION Spec
CHECK_DEADLOCK FALSE
INVARIANTS OnlyApproved
SYMMETRY Slots
CONSTRAINT Straight
