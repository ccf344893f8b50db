SPECIFICATION FairSpec
CONSTANTS
  Word <- MCWord
  CMDBUF_SIZE = 4
  Key = {13, 97, 98}
  MaxLine = 1
  MaxAge = 1
PROPERTY EveryByteIsRead
CHECK_DEADLOCK FALSE
