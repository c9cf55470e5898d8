SPECIFICATION Spec
CONSTANTS
  Tabs = {t1, t2}
  Uids = {u1, u2}
  NoUid = NoUid
  NotStored = NotStored
  MaxSessions = 2
  MaxCalls = 2
  MaxInbox = 1
  MaxSteps = 4
INVARIANTS TypeOK VerifiedNeverAheadOfServer TokensBelongToTheirAccount
PROPERTIES RestoredOnlyFromMemory ImplementsAccountStore
SYMMETRY Symmetry
CHECK_DEADLOCK FALSE
