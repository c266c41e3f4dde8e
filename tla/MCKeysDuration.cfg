CONSTANTS
  Base = 40
  Width = 2
  Radix = 3
  MaxMedium = 1
  NanoDay = 2
  DaysPerMonth = 3
  Columns <- MixedColumns
  Cells <- MixedCells
SPECIFICATION Spec
INVARIANT KeysInOrder
CHECK_DEADLOCK FALSE
