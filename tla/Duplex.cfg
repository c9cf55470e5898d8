SPECIFICATION FairSpec
CONSTANTS
  Channels = {notification, sync}
  Requests = {r1, r2}
  MaxClock = 1
INVARIANTS TypeOK OutstandingIsPending
PROPERTIES ImplementsRequestReply AnswerSettles
CHECK_DEADLOCK FALSE
