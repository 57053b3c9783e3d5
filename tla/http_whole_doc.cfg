\* The same reader against a server that ignores Range.
SPECIFICATION HttpSpec
CONSTANTS
  Size = 9
  Requests <- MCRequests
  MaxInflight = 2
  HonoursRange = FALSE
INVARIANT
  NeverWholeFile
CHECK_DEADLOCK FALSE
