SPECIFICATION Spec
CONSTANTS
  x1 = x1
  x2 = x2
  TxJobs = {x1, x2}
  Weight <- Weights
  Block = Block
  None = None
  MinWeight = 4
  InitialWeight = 5
  MaxJobs = 2
  Burst = 1
  Estimates = {0, 8}
  MaxMade = 4
  WeightBound = 9
  MaxWeight = 7
CHECK_DEADLOCK FALSE
INVARIANTS AnsweredOnce LatestJobsAreKnown SharesWithinWeight NewTransactionIsClean
