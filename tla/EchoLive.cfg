SPECIFICATION FairSpec
CONSTANTS
  NoConn = NoConn
  Client = {c1, c2}
  Byte = {1}
  MaxBytes = 2
  RecvSize = 2
  SockBuf = 1
  FdLimit = 1
  Backlog = 0
INVARIANT TypeOK
PROPERTIES EveryByteEchoed AllReleased
CHECK_DEADLOCK FALSE
