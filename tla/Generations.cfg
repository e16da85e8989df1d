SPECIFICATION DisturbedSpec
CONSTANTS
  Revs = {old, new}
  MaxGens = 4
  KeepLimit = 0
  Procs = {p1, p2}
  MaxFaults = 1
  MaxOutside = 1
  NoGen = NoGen
  NoDir = NoDir
  Missing = Missing
  NoProc = NoProc
  NoScene = NoScene
  Off = Off
SYMMETRY Symmetry
INVARIANTS
  BaselineKept
PROPERTIES
  ImplementsContract
