SPECIFICATION FairSpec
CONSTANTS
  Bit_time = 4
  Bit_time_5 = 2
  Latency = {2, 5}
  Byte = {65, 170}
  MaxFrames = 2
  MaxSends = 1
  PeerMay = {"overlap", "crowd", "hurry", "glitch"}
CHECK_DEADLOCK FALSE
INVARIANTS
  NeverDeaf
  ReceivesWhatWasSent
  NewestByteIsRead
PROPERTIES
  PoliteTransmitIsComplete
  TransmitReturns
  ReceptionEnds
