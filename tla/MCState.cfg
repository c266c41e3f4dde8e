CONSTANTS
  Byte = {0, 1}
  Zero = 0
  MaxLen = 3
  MaxArr = 2

  Elem = {1, 2}
  Nil = Nil
  MaxCap = 4
  ReserveFrom = 99

  Goroutines = {"a", "b"}
  Serial = TRUE
  Epoch = 2
  MaxTime = 6

  Clients = {"c", "d"}
  Lib = {"r", "s", "t"}
  NoTimer = NoTimer
  MaxResets = 4

  Callers = {"c", "d"}
  Times = {1, 2, 3}
  SeqSize = 16
  RandFails = TRUE
  MaxUuids = 4

  Partitions <- MCPartitions
  Null = Null
  Offsets = {0, 1, 2, 4}
  Crossed = FALSE
  LargestInt = 100

  MaxOps = 2
SPECIFICATION MCSpec
INVARIANTS IInv StringsImmutable BufferIntact ElapsedIsRunning TimersApart NeverTwice FrameIsDefined HeldAlike PathsLeadBack
PROPERTIES IsDeque
CHECK_DEADLOCK FALSE
