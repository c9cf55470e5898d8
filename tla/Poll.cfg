SPECIFICATION FairSpec
CONSTANTS
  Views = {chooseWhatToSync, confirm, confirmAgain}
  MaxFailures = 2
INVARIANTS TypeOK OneCheckAtATime
PROPERTIES DestroyedIsQuiet VerifiedIsNoticed ImplementsVerificationWait
CHECK_DEADLOCK FALSE
