SPECIFICATION Spec
CONSTANTS
  Terminal = {"client"}
  Char = {"a", "e", "CR"}
  CR = "CR"
  ExitLine <- Exit
  MaxLine = 1
  MaxSaid <- OneEach
INVARIANT TerminalRestored
CHECK_DEADLOCK FALSE
