SPECIFICATION Spec
CONSTANTS
  NoConn = NoConn
  Client = {c1, c2}
  Byte = {1, 2}
  MaxBytes = 2
  RecvSize = 2
  SockBuf = 1
  FdLimit = 2
  Backlog = 1
INVARIANTS OwnConnection NoLeakedFd SessionOwned NothingLost EchoedBeforeClose
PROPERTY EchoSpec
CHECK_DEADLOCK FALSE
SYMMETRY Symmetry
