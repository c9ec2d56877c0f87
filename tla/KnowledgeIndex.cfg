CONSTANTS
  m1 = m1
  Material <- Materials
  PageChunks <- TwoPages
  Text <- Texts
  MaxSegment = 1
  MaxAnswer = 2
  MaxJob = 3
  MaxAttempt = 2
  MaxCrash = 1
SPECIFICATION MCFairSpec
INVARIANTS
  AnswerChunksOfOneText
  TargetMatchesAnswer
PROPERTIES
  OnlyCurrentEnters
  IndexingEnds
CHECK_DEADLOCK FALSE
