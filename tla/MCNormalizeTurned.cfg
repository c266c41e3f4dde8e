CONSTANTS
  Exprs <- TurnedExprs
  MaxInt = 7
  One = 8
SPECIFICATION Spec
INVARIANT NormalizeKeeps
CHECK_DEADLOCK FALSE
