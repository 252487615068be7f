SPECIFICATION Spec
CONSTANTS
  TcpWnd = 3
  RecvSize = 2
  ClientLen = 5
  SocksLen = 5
INVARIANTS
  NoCallbackAfterFree
  WindowIsRoom
  NoStall
  GracefulEnd
PROPERTIES
  LingerEnds
  UploadRelays
  DownloadRelays
CHECK_DEADLOCK FALSE
