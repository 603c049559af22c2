SPECIFICATION SyslogdSafety
CONSTANTS
  Datagrams <- MCDatagrams
  OldText <- MCOldText
  QueueMax = 2
  SigPendingMax = 3
  MaxArrivals = 2
  MaxEarly = 1
  MaxStrays = 1
  MessageMax = 2
  ChunkMax = 2
INVARIANTS
  NothingLost
  LogIsLines
  ReaderShowsLines
PROPERTIES
  ImplementsLogService
CHECK_DEADLOCK FALSE
