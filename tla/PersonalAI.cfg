CONSTANTS
  r1 = r1
  c1 = c1
  w1 = w1
  w2 = w2
  SourceRange <- Ranges
  Chat <- Chats
  Worker <- Workers
  Key <- Keys
  Mode <- BothModes
  MaxMessage = 4
  MaxAttempt = 2
  MaxCrash = 1
SPECIFICATION MCFairSpec
INVARIANTS
  ResultMatchesJob
  NothingPrivateAfterEnd
PROPERTIES
  JobsEnd
CHECK_DEADLOCK FALSE
