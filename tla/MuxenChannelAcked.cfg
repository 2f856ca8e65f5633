SPECIFICATION Spec
CONSTANTS
  Calls = { c1, c2, c3, c4 }
  SendWindow = 2
  PreWindow = 2
  BufferSize = 3
  NoPacket = NoPacket
INVARIANT AckedPacketsAreKept
CHECK_DEADLOCK FALSE
