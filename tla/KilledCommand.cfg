SPECIFICATION KillsSpec
CONSTANTS
  CLIs = {c1}
  Ops <- SwitchOnAndRecover
  MaxEdits = 0
  MaxGen = 1
  MaxFaults = 1
  Pids = {1, 2, 3, 4}
  NoFile = NoFile
  NoTx = NoTx
  NoCore = NoCore
PROPERTY TransactionEnds
