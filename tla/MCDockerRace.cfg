\* Two shells race every pair of commands; one failure.
SPECIFICATION Spec
CONSTANTS
  Procs = {p1, p2}
  VMs = {vm1}
  Commands = {"start", "stop", "destroy"}
  MaxFaults = 1
  NoProc = NoProc
SYMMETRY ShellSymmetry
INVARIANTS
  Inv
  SomeStartWins
PROPERTY PromiseKept
CHECK_DEADLOCK FALSE
