CONSTANTS
  BitsBegun = 6
  BitsCombined = 3
  MaxBits = 7
  MaxShift = 8
  TabWidth = 4
  Half = 64
  MaxObjects = 2
  MaxFrom = 1
  Databases = {"a", "b"}
  UserSchemas = {"b"}
  Written <- MCWritten
  SearchPaths <- MCSearchPaths
  FunDefs <- MCFunDefs
SPECIFICATION MCSpec
INVARIANTS RecordsRead DatesRead BitsAreSequence LikeMeans NamesResolve LayoutIsBest
CHECK_DEADLOCK FALSE
