SPECIFICATION Spec
CONSTANTS
  Procs = {p1}
  s1 = s1
  s2 = s2
  N = N
  A = A
  x = x
  y = y
  q = q
  Subs = {s1, s2}
  Groups = {N, A}
  Nodes = {x, y}
  Providers = {q}
  Direct = Direct
  Reject = Reject
  Contents <- MCContents
  Initial <- MCInitial
  Definitions <- MCDefinitions
  Targets = {N, A}
  Ruled = {N}
  None = None
  Limit <- MCLimit
INVARIANTS GroupsSound IncrementsKept
PROPERTIES NoReroute AcceptedTakesEffect
CHECK_DEADLOCK FALSE
