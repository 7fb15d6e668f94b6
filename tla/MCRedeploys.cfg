\* One shell, two commands, one failed call.
SPECIFICATION Spec
CONSTANTS
  p1 = p1
  Procs = {p1}
  Clients = {p1}
  Names <- MCNames
  Generations = {1, 2}
  Absent = Absent
  Lifetimes = {2}
  MaxDelay = 1
  Width = 2
  Base = 2
  Limit = 1
  Ranges <- MCRanges
  Given <- MCGiven
  Shells <- MCShells
  Configs <- MCConfigs
  URLs <- MCURLs
  RemoteFlags <- MCRemoteFlags
  ProjectFlags <- MCProjectFlags
  NoIP = NoIP
  MaxCommands = 2
  MaxFaults = 1
PROPERTIES
  RedeployKeepsRouter
CHECK_DEADLOCK FALSE
