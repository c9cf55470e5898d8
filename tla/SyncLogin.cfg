SPECIFICATION FairSpec
CONSTANTS
  Emails = {e1, e2}
  None = none
  MaxForms = 3
  MaxSessions = 2
  MaxUids = 2
INVARIANTS TypeOK FinishedIsKnown
PROPERTIES ImplementsLoginNotice VerifiedIsTold
CHECK_DEADLOCK FALSE
