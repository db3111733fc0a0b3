SPECIFICATION FairSpec
CONSTANTS
  Pid = {p1, p2, p3}
  Sysmgr = Sysmgr
  InitPid = InitPid
  NoPid = NoPid
INVARIANTS TypeOK ChildrenReaped ZombieRemoved
PROPERTIES EveryDemoEnds OrphanGone
CHECK_DEADLOCK FALSE
