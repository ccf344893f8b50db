SPECIFICATION FairSpec
CONSTANTS
  Word <- MCWord
  CMDBUF_SIZE = 4
  Key = {3, 13, 97, 98, 127}
  MaxLine = 5
  MaxAge = 2
INVARIANTS
  LineIsShown
  StaleByOneAtMost
PROPERTIES
  EvaluatesCompletedLine
  RepeatsUntilAbort
  AbortIsHeard
  ByteInTimeIsRead
CHECK_DEADLOCK FALSE
