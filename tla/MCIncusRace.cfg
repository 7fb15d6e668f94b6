\* Two shells race every pair of commands, each with one of two pools.
SPECIFICATION Spec
CONSTANTS
  Procs = {p1, p2}
  Pools = {local, fast}
  DefaultPool = local
  Watched = local
  Networks = {ibosh}
  DefaultNetwork = ibosh
  Commands = {"start", "stop", "destroy"}
  MaxFaults = 0
  NoPool = NoPool
SYMMETRY ShellSymmetry
INVARIANTS
  Inv
  SomeStartWins
PROPERTY PromiseKept
CHECK_DEADLOCK FALSE
