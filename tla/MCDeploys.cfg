\* Two shells, three commands, one failed call.
SPECIFICATION Spec
CONSTANTS
  p1 = p1
  p2 = p2
  Procs = {p1, p2}
  Clients = {p1, p2}
  Names <- MCNames
  Generations = {1, 2}
  Absent = Absent
  Lifetimes = {2}
  MaxDelay = 1
  Width = 2
  Base = 2
  Limit = 1
  Ranges <- MCRanges
  Given <- MCGiven
  Shells <- MCShells
  Configs <- MCConfigs
  URLs <- MCURLs
  RemoteFlags <- MCRemoteFlags
  ProjectFlags <- MCProjectFlags
  NoIP = NoIP
  MaxCommands = 3
  MaxFaults = 1
SYMMETRY ShellSymmetry
INVARIANTS
  DTypeOK
  CredsForced
  LoginPassword
  DeploysAsShell
PROPERTIES
  RouterStays
  UndisturbedDeploys
  DryRunHarmless
  SelectsLowestFree
CHECK_DEADLOCK FALSE
