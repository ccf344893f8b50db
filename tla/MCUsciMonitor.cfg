SPECIFICATION MonitorFairSpec
CONSTANTS
  Item = {0, 255}
  Zero = 0
  NoItem = 255
  MAX_ITEMS = 3
  MaxPush = 5
  BannerLength = 2
INVARIANTS
  EchoOrder
PROPERTIES
  EveryByteEchoed
