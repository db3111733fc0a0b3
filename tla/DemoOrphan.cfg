SPECIFICATION Spec
CONSTANTS
  Pid = {p1, p2}
  Sysmgr = Sysmgr
  InitPid = InitPid
  NoPid = NoPid
INVARIANT AdoptionDetected
CHECK_DEADLOCK FALSE
