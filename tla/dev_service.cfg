SPECIFICATION FairServiceSpec
CONSTANTS
  j1 = j1
  j2 = j2
  x = x
  Jobs = {j1, j2}
  Txs = {x}
  TxOf <- SameTx
  WithParents = {j1, j2}
  Propagated = {j2}
  Unsolvable = {j1}
  None = None
  MaxBlocks = 1
  Signals = {"SIGTERM", "SIGINT"}
CHECK_DEADLOCK FALSE
INVARIANTS CancelledTaskEnds OneSignalIsClean
PROPERTIES DevRegistrySpec DevJobKeepsHash SignalEndsService EveryDevJobEnds EveryDevJobIsForgotten
