SPECIFICATION FairSpec
CONSTANTS
  Cores = {c1, c2, c3}
  Revs = {r1, r2}
  None = None
  NoFile = NoFile
  MaxRequests = 2
  MaxFaults = 2
INVARIANTS OneCore LaunchedHonest
PROPERTIES RolledBackRestores NoSilentTunLoss StrangersSafe LifecycleEnds
CHECK_DEADLOCK FALSE
