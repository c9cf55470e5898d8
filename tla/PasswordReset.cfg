SPECIFICATION FairSpec
CONSTANTS
  Accounts = {mine, other}
  Mine = mine
  None = none
  Tabs = {t1}
  MaxTries = 2
  MaxFailures = 2
  MaxSignIns = 1
INVARIANTS TypeOK LimitHidesButton
PROPERTIES OpenedTabStopsPoll ImplementsResetWait ResetIsNoticed
CHECK_DEADLOCK FALSE
