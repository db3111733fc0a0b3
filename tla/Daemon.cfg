SPECIFICATION FairSpec
CONSTANTS
  Pid = {p1, p2, p3}
  Sysmgr = Sysmgr
  InitPid = InitPid
  NoPid = NoPid
INVARIANTS TypeOK OwnDaemon
PROPERTIES DemoReturns DaemonStops
CHECK_DEADLOCK FALSE
