SPECIFICATION FairSpec
CONSTANTS
  Procs = {p1}
  VMs = {}
  Commands = {"start", "stop", "destroy"}
  MaxFaults = 1
  NoProc = NoProc
PROPERTY StartConfigures
CHECK_DEADLOCK FALSE
