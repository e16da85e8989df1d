SPECIFICATION FairSpec
CONSTANTS
  CLIs = {c1}
  Ops <- AllOps
  MaxEdits = 1
  MaxGen = 2
  MaxFaults = 2
  Pids = {1, 2, 3, 4}
  NoFile = NoFile
  NoTx = NoTx
  NoCore = NoCore
INVARIANTS
  NoLostEdit
  CommittedLanded
  RolledBackRestoresSnapshot
  GateOwned
PROPERTIES TerminalMatchesRuntime CommandsEnd SwitchEnds
