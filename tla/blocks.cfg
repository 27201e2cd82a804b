SPECIFICATION FairSpec
CONSTANTS
  Miners = {"m1"}
  MaxHeight = 2
  Requests = {"poll", "extra"}
  Poll = "poll"
  MaxPushes = 1
  Idle = Idle
  Asked = Asked
  Failed = Failed
  Tx = Tx
  None = None
INVARIANTS MinersOnTemplate
PROPERTIES UsefulBlockIsPushed MinersCatchUp
