SPECIFICATION FairSpec
CONSTANTS
  Terminal = {"host"}
  Char = {"a", "e", "CR"}
  CR = "CR"
  ExitLine <- Exit
  MaxLine = 1
  MaxSaid <- OneEach
PROPERTY BothLeave
CHECK_DEADLOCK FALSE
