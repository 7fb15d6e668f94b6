\* One shell, two pools, two networks: every sequence of commands and failures.
SPECIFICATION FairSpec
CONSTANTS
  Procs = {p1}
  Pools = {local, fast}
  DefaultPool = local
  Watched = fast
  Networks = {ibosh, lab}
  DefaultNetwork = ibosh
  Commands = {"start", "stop", "destroy"}
  MaxFaults = 3
  NoPool = NoPool
INVARIANTS
  UndisturbedSucceeds
PROPERTIES
  StartDelivers
  DestroyDelivers
  CommandsEnd
CHECK_DEADLOCK FALSE
