SPECIFICATION Spec
CONSTANTS
  Tabs = {t1}
  Uids = {u1}
  NoUid = NoUid
  NotStored = NotStored
  MaxSessions = 2
  MaxCalls = 2
  MaxInbox = 1
  MaxSteps = 3
PROPERTY OnlyDeadSessionsAreWiped
SYMMETRY Symmetry
CHECK_DEADLOCK FALSE
