CONSTANTS
  Docs <- StringDocs
  Others <- MCOthers
  Keys <- MCKeys
  Paths <- MCPaths
  Stride = 2
  Size = 32
  MaxOps = 2
SPECIFICATION Spec
INVARIANT ExistsAlike
CHECK_DEADLOCK FALSE
