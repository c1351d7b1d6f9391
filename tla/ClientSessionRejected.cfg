SPECIFICATION FairSpec
CONSTANTS
  Resources = {r1}
  Emails = {e1}
  MaxSubmits = 1
  MaxRequests = 1
  MaxReloads = 0
  WritesFail = FALSE
  None = None
PROPERTIES RejectedReturnsToLogin
CHECK_DEADLOCK FALSE
