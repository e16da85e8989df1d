SPECIFICATION Spec
CONSTANTS
  Procs = {p1, p2}
  i1 = i1
  i2 = i2
  i3 = i3
  u1 = u1
  u2 = u2
  Ids = {i1, i2, i3}
  Urls = {u1, u2}
  Contents = {good, bad}
  Valid = {good}
  Registered <- MCRegistered
  Chosen = i1
  Usual = good
  NoFile = NoFile
  None = None
  RetiredLimit = 1
  MaxCommands = 3
  MaxFaults = 1
SYMMETRY Symm
INVARIANTS LockHonest ActiveUsable 
PROPERTIES NoResurrection
CHECK_DEADLOCK FALSE
