SPECIFICATION Spec
SYMMETRY ProcSymmetry
CHECK_DEADLOCK FALSE
CONSTANTS
  Procs = {p1, p2}
  MaxCommands = 3
  MaxFaults = 2
INVARIANTS
  OneRuntime
  NoOrphan
PROPERTIES
  InstallRuns
