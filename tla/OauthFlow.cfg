SPECIFICATION FairSpec
CONSTANTS
  Tabs = {t1, t2}
  Users = {u1}
  Reliers = {r1, r2}
  None = none
  MaxFlows = 2
  MaxFailures = 1
INVARIANTS TypeOK OnlyVerifiedUsersAreSent OnlyOriginalTabsGoBack StateIsOfClient
PROPERTIES OriginalTabFinishes
CHECK_DEADLOCK FALSE
