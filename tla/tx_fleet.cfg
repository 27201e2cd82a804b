SPECIFICATION Spec
CONSTANTS
  j1 = j1
  j2 = j2
  t1 = t1
  t2 = t2
  m1 = m1
  m2 = m2
  Jobs = {j1, j2}
  Txs = {t1, t2}
  Uuid <- TwoTxs
  AddParents = {j1}
  Propagate = {j2}
  Miners = {m1, m2}
  MaxInFlight = 1
  TimeoutIsShorter = TRUE
  Block = Block
  None = None
SYMMETRY MinerSymmetry
PROPERTIES FleetSpec
