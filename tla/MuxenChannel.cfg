SPECIFICATION FairSpec
CONSTANTS
  Calls = { c1, c2, c3 }
  SendWindow = 2
  PreWindow = 1
  BufferSize = 2
  NoPacket = NoPacket
INVARIANTS WindowsHold NoLostWakeup
PROPERTIES ImplementsFifo SentIsDelivered
CHECK_DEADLOCK FALSE
