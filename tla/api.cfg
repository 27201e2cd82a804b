SPECIFICATION ApiSpec
CONSTANTS
  Bodies = {"payment", "banned"}
  BannedBodies = {"banned"}
  MaxTime = 1
  MaxTimestampDelta = 0
  FixInvalidTimestamp = TRUE
  ToiFailBlock = TRUE
  Requests = {"r1"}
  Polls = {p1, p2}
  Txs <- Hashes
  None = None
SYMMETRY PollSymmetry
INVARIANTS AnswerWasTrue VerdictHasCause
PROPERTIES AdmittedWhenAdded NoBannedJob
