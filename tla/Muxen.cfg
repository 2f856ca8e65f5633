SPECIFICATION MuxenSpec
CONSTANTS
  HeartbeatInterval = 2
  HeartbeatTimeout = 4
  MaxRtt = 3
  Ids = { i1 }
  MaxData = 1
  None = None
  Calls = { c1, c2, c3 }
  SendWindow = 2
  PreWindow = 1
  BufferSize = 1
  MaxInFlight = 4
  NoPacket = NoPacket
INVARIANTS AckIsSafe LivesOnce DropsTheDeadOnly
PROPERTIES ChannelTrafficArrives CloseReachesBoth
CHECK_DEADLOCK FALSE
