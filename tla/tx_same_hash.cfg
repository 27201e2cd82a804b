SPECIFICATION HistorySpec
CONSTANTS
  j1 = j1
  j2 = j2
  t1 = t1
  t2 = t2
  m1 = m1
  m2 = m2
  Jobs = {j1, j2}
  Txs = {t1}
  Uuid <- SameTx
  AddParents = {j1}
  Propagate = {j1, j2}
  Miners = {m1}
  MaxInFlight = 2
  TimeoutIsShorter = FALSE
  Block = Block
  None = None
INVARIANTS TypeOK QueueAssertions TimersCover FailureCountedOnce DoneIsAnnounced
PROPERTIES RegistrySpec LiveJobKeepsHash
