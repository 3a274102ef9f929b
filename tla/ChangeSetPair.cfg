CONSTANTS
  Slot = {q1, q2}
  User = {ann, bob}
  Policy = policy
  Content = {home, new}
  Refused = {home}
  Reason = {why, other}
  NoDiff = none
  Creator = ann
  First = new
  SelfApproval = FALSE
  AutoApply = FALSE
  MustValidate = FALSE
  EarlyAccess = FALSE
  MaxRequest = 5
  MaxRev = 2
  MaxOther = 0
  MaxLoss = 1
  MaxCrash = 1
SPECIFICATION Spec
CHECK_DEADLOCK FALSE
INVARIANTS OneApplier AppliedHasRevision RolledBackIsUndone
PROPERTIES FourEyes
SYMMETRY Slots
