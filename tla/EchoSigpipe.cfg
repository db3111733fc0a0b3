SPECIFICATION Spec
CONSTANTS
  NoConn = NoConn
  Client = {c1}
  Byte = {1}
  MaxBytes = 2
  RecvSize = 1
  SockBuf = 1
  FdLimit = 1
  Backlog = 0
INVARIANT NeverSigpipe
CHECK_DEADLOCK FALSE
