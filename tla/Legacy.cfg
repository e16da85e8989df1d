SPECIFICATION MCFairSpec
CONSTANTS
  Procs = {p, q, r}
  Spare = r
  NoMarker = NoMarker
  Ids = {1, 2, 3, 4, 5, 6}
  MaxFaults = 2
  MaxEdits = 1
  MaxCommands = 1
INVARIANTS ExclusiveWhileAllLive ResetUnderGate
PROPERTY LegacyEnds
