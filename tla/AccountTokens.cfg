SPECIFICATION FairSpec
CONSTANTS
  Sessions = {s1, s2}
  First = s1
  None = none
  Ops = {o1, o2}
  MaxTokens = 2
  MaxFailures = 1
  MaxHours = 1
INVARIANTS TypeOK OneProfileFetch OneSigningPerSession RetryIsNewer
PROPERTIES OperationsEnd
CHECK_DEADLOCK FALSE
