SPECIFICATION Spec
CONSTANTS
  Terminal = {"host"}
  Char = {"a", "e", "CR"}
  CR = "CR"
  ExitLine <- Exit
  MaxLine = 1
  MaxSaid <- OneTwo
INVARIANTS TypeOK ToldOnce EverythingShown
PROPERTY ChatSpec
CHECK_DEADLOCK FALSE
