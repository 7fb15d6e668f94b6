SPECIFICATION Spec
CONSTANTS
  Procs = {p1}
  Pools = {local, fast}
  DefaultPool = local
  Watched = local
  Networks = {ibosh}
  DefaultNetwork = ibosh
  Commands = {"start", "stop", "destroy"}
  MaxFaults = 0
  NoPool = NoPool
PROPERTY DestroyRemovesAllData
CHECK_DEADLOCK FALSE
