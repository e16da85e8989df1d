SPECIFICATION FairSpec
CONSTANTS
  Procs = {p, q}
  Again = p
  Keep = 1
  MaxCommands = 1
  MaxFaults = 2
  MaxClock = 1
INVARIANTS NewestKept
PROPERTIES EvidenceFirst CoreReturns
CHECK_DEADLOCK FALSE
