SPECIFICATION Spec
CONSTANTS
  BufSize = 6
  ClientLen = 9
  RemoteLen = 3
  Breaks <- AnyBreak
  FastOpen = TRUE
  Requests <- AllRequests
INVARIANTS
  NoWatcherAfterFree
  UploadIntact
  DownloadIntact
  EofFlushed
CHECK_DEADLOCK FALSE
