SPECIFICATION AnySpec
CONSTANTS
  HALF = 4
  MaxTime = 14
  MaxInterrupts = 9
  TRIGGER = 10
  RELEASE = 15
  LETTERS = 3
  FONTWIDTH = 2
  TOP = 15
  LCD_X_RES = 3
  LCD_ROWS = 2
  CY_MODULUS = 5
  X_RES = 5
  Y_ROWS = 4
  Run = {1, 4}
INVARIANTS
  PressesAreCounted
  ShowsMessage
  BytesLandAtCursor
PROPERTIES
  TimeIsOfTheCall
  OffByACarryAtMost
  RelayFollowsTheClock
  LevelIsShown
CHECK_DEADLOCK FALSE
