SPECIFICATION FairSpec
CONSTANTS
  Item = {0, 1}
  Zero = 0
  LEN_MODULUS = 256
  SIZE = 4
  MaxBytes = 6
INVARIANTS
  LenCountsLaps
  NothingGarbled
  WholeLapsAreSent
PROPERTIES
  LapsAreDelivered
