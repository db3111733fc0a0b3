SPECIFICATION Spec
CONSTANTS
  Terminal = {"client"}
  Char = {"a", "e", "CR"}
  CR = "CR"
  ExitLine <- Exit
  MaxLine = 1
  MaxSaid <- TwoEach
INVARIANT TypedTextShown
CHECK_DEADLOCK FALSE
