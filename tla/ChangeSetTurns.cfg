CONSTANTS
  Slot = {q1}
  User = {ann, bob}
  Policy = policy
  Content = {home, new}
  Refused = {}
  Reason = {why}
  NoDiff = none
  Creator = ann
  First = new
  SelfApproval = FALSE
  AutoApply = FALSE
  MustValidate = TRUE
  EarlyAccess = FALSE
  MaxRequest = 8
  MaxRev = 2
  MaxOther = 1
  MaxLoss = 1
  MaxCrash = 1
SPECIFICATION FairSpec
CHECK_DEADLOCK FALSE
INVARIANTS ApprovalsAreCurrent
PROPERTIES ApplyingEnds ValidatingEnds
