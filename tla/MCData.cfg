CONSTANT MaxValues = 2
SPECIFICATION MCSpec
INVARIANTS NormalizeKeeps KeysInOrder EncodingsReadBack
CHECK_DEADLOCK FALSE
