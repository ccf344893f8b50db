SPECIFICATION FairSpec
CONSTANTS
  Item = {0, 1}
  Zero = 0
  HUART_RCVBUFSIZE = 3
  LEN_MODULUS = 4
  Builds = {TRUE, FALSE}
  MaxPush = 5
  MaxWrite = 2
INVARIANTS
  LenIsBalance
  FifoOrder
PROPERTIES
  EveryByteDelivered
