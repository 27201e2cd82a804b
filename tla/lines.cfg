SPECIFICATION Spec
CONSTANTS
  Bytes = {"a", "q", "nl"}
  Delimiter = "nl"
  Closing = "q"
  MaxLength = 2
  StreamLength = 7
CHECK_DEADLOCK FALSE
INVARIANTS LinesAreTheStream ClosesWhereItMust
