SPECIFICATION Spec
CONSTANTS
  Sessions = {s1, s2}
  First = s1
  None = none
  Ops = {o1, o2}
  MaxTokens = 2
  MaxFailures = 1
  MaxHours = 1
INVARIANT RetriesWithFreshToken
CHECK_DEADLOCK FALSE
