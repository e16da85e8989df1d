SPECIFICATION Spec
CONSTANTS
  Procs = {p1, p2}
  Subs = {s1, s2}
  Groups = {g1, g2}
  Nodes = {n1, n2}
  None = None
  Absent = Absent
  MaxCommands = 3
  MaxFaults = 1
SYMMETRY Symm
INVARIANTS DriftIsSimultaneous
PROPERTIES NoLostSelection RestartRestores
CHECK_DEADLOCK FALSE
