SPECIFICATION Spec
CONSTANTS
  MAX_LOG_LINES = 2
  MaxDmesg = 3
  Number = {1, 2}
  Process = {p1, p2, p3}
  Named = {p1, p3}
  Mine = {p1, p2}
  None = None
  NiceMin <- MCNiceMin
  NiceMax = 1
  NiceAsked <- MCNiceAsked
  Job = {j1, j2, j3}
  Bad = {j3}
  NoJob = NoJob
  Servers = 2
  Var = {x, y}
  Value = {v}
  Esc = Esc
  Unset = Unset
  Empty = Empty
  Package = {"sl", "cowsay", "perl", "python"}
  Critical = {"python"}
  Essential = {"python"}
  candidates <- MCcandidates
  Needs <- MCNeeds
  HasConf = {"cowsay"}
  NoPackage = "nothing"
  Path <- MCPath
  Data = {"", "long", "-n", "tar"}
  Blank = ""
  Tarball = "tar"
  Option = {"-n"}
  Dash = {"--help"}
  Size <- MCSize
  Buffer = 4
  Pipe = 3
  Interface <- MCInterface
  Inet = {"lo", "eth0"}
  Inet6 = {"lo"}
  MaxNames = 2
  Address <- MCAddress
  Zero <- MCZero
  MaxRoutes = 2
  MaxTable = 3
  MaxArgs = 3
  Word <- MCWord
  MaxGiven = 2
INVARIANTS
  TypeOK
  OutcomeExplained
  LastLinesShown
  ListingComplete
  SignalReachesNamed
  NotFoundMeansGone
  OnlyClashesLoseJobs
  ExitCodeTellsClock
  EnvironmentAsTyped
  DemoKeepsOthers
  CriticalKept
  SuccessMeansDone
  InterfacesListedOnce
  RoutesShown
  TokensAsQuoted
  
PROPERTIES
  CommandReturns
CHECK_DEADLOCK FALSE
