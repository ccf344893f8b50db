SPECIFICATION Spec
CONSTANTS
  Item = {0, 255}
  Zero = 0
  NoItem = 255
  MAX_ITEMS = 4
  MaxPush = 7
INVARIANTS
  TypeOK
  FifoOrder
  DecisionHolds
PROPERTIES
  ImplementsFifo
