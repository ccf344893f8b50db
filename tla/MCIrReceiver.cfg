SPECIFICATION Spec
CONSTANTS
  IR_SYMBOL_START = 30
  IR_SYMBOL_LONG = 18
  IR_SYMBOL_SHORT = 12
  TOLERANCE = 3
  IR_BIT_COUNT = 3
  Wrap = 96
  Pause = 230
  Drift = {0, 2}
INVARIANTS
  TypeOK
PROPERTIES
  CleanCommandIsReceived
  NothingInvented
