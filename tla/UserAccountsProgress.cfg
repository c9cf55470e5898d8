SPECIFICATION FairSpec
CONSTANTS
  Tabs = {t1, t2}
  Uids = {u1}
  NoUid = NoUid
  NotStored = NotStored
  MaxSessions = 1
  MaxCalls = 2
  MaxInbox = 1
  MaxSteps = 3
PROPERTIES SignInSettles VerificationIsNoticed SignedOutIsHeard
CHECK_DEADLOCK FALSE
