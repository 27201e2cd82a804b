SPECIFICATION Spec
CONSTANTS
  Miners = {"m1"}
  Addresses = {"a1"}
  Types = {"cpuminer", "cgminer"}
  Unknown = "unknown"
  MaxTasks = 5
CHECK_DEADLOCK FALSE
INVARIANTS UpMeansConnected TasksEndWithConnection
PROPERTIES OutsidersStayOut
