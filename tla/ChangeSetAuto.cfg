CONSTANTS
  Slot = {q1, q2}
  User = {ann}
  Policy = policy
  Content = {home, new}
  Refused = {}
  Reason = {why}
  NoDiff = none
  Creator = ann
  First = new
  SelfApproval = TRUE
  AutoApply = TRUE
  MustValidate = FALSE
  EarlyAccess = TRUE
  MaxRequest = 4
  MaxRev = 2
  MaxOther = 1
  MaxLoss = 1
  MaxCrash = 0
SPECIFICATION Spec
CHECK_DEADLOCK FALSE
INVARIANTS OnlyApproved
PROPERTIES ApplyingIsOwned TerminalIsFinal
SYMMETRY Slots
