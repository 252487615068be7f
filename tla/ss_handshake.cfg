SPECIFICATION Spec
CONSTANTS
  BufSize = 6
  ClientLen = 9
  RemoteLen = 1
  Breaks <- MessageBreak
  FastOpen = FALSE
  Requests <- TcpRequests
INVARIANTS
  HandshakeSane
PROPERTIES
  ConnectsEventually
  UploadDrains
CHECK_DEADLOCK FALSE
