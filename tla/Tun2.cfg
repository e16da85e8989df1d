SPECIFICATION ContendedSpec
CONSTANTS
  CLIs = {c1, c2}
  Ops <- AllOps
  MaxEdits = 1
  MaxGen = 1
  MaxFaults = 1
  Pids = {1, 2, 3, 4, 5}
  NoFile = NoFile
  NoTx = NoTx
  NoCore = NoCore
SYMMETRY CLISymmetry
INVARIANT ResetBehindStop
PROPERTY ImplementsSwitch
