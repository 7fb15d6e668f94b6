\* One shell: every sequence of commands, faults, crashes and interruptions.
SPECIFICATION FairSpec
CONSTANTS
  Procs = {p1}
  VMs = {vm1, vm2}
  Commands = {"start", "stop", "destroy"}
  MaxFaults = 3
  NoProc = NoProc
INVARIANTS
  UndisturbedSucceeds
PROPERTIES
  StartDelivers
  DestroyDelivers
  CommandsEnd
CHECK_DEADLOCK FALSE
