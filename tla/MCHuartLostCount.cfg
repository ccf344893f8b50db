SPECIFICATION Spec
CONSTANTS
  Item = {0}
  Zero = 0
  HUART_RCVBUFSIZE = 3
  LEN_MODULUS = 4
  Builds = {FALSE}
  MaxPush = 3
  MaxWrite = 1
INVARIANT DataIsReported
