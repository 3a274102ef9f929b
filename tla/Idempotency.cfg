CONSTANTS
  Proc = {p1, p2}
  Fingerprint = {plain, secret}
  Sensitive = {secret}
  MaxReq = 3
  MaxCrash = 1
  MaxExpire = 1
SPECIFICATION MCSpec
CHECK_DEADLOCK FALSE
INVARIANTS AnswersFit AnsweredRunsNoMore
PROPERTIES SecretsStayInMemory JoinersAreAnswered
