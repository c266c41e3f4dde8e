CONSTANTS
  Goroutines = {"a", "b"}
  Serial = FALSE
  Epoch = 2
  MaxTime = 5
SPECIFICATION WatchSpec
INVARIANT NoInventedTime
CHECK_DEADLOCK FALSE
