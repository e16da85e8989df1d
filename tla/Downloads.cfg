SPECIFICATION FairSpec
CONSTANTS
  Procs = {p, q}
  Urls = 2
  Tries = 2
  MaxCommands = 3
  MaxFaults = 2
CHECK_DEADLOCK FALSE
INVARIANTS
  Heals
  InstalledIsAsked
PROPERTY
  DownloadEnds
