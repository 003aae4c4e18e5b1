SPECIFICATION FairSpec
CONSTANTS
  MaxPkts = 2
  StaleLimit = 1
  InitialSeeds <- MCNoSeeds
  QueueCap = 2
  MaxExecs = 3
INVARIANTS CleanExitCompletes InitFileComplete
PROPERTIES ContractKept FuzzOneReturns
CHECK_DEADLOCK FALSE
