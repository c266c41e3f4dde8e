CONSTANTS
  Partitions <- MCPartitions
  Null = Null
  Offsets = {0, 2}
  Crossed = TRUE
  LargestInt = 100
SPECIFICATION WindowSpec
INVARIANT FrameInPartition
CHECK_DEADLOCK FALSE
