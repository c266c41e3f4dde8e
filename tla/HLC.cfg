CONSTANTS
  Threads = {"a", "b"}
  Refreshers = {"a"}
  Monitors = {"b"}
  Walls = {3, 4}
  Logicals = {3}
  MaxOffset = 2
  Delta = 1
  MaxInt32 = 7
  MaxPhys = 2
  MaxCalls = 3
SPECIFICATION Spec
PROPERTIES Causality CoveredByPersisted LastFollows NeverBack CallsEnd
CHECK_DEADLOCK FALSE
