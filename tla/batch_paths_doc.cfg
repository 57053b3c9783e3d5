\* A daemon task may end in an error; no fetch panics.
CONSTANTS
  NSrc = 5
  Io = 2
  Buf = 1
  CanPanic = FALSE
  CanDrop = FALSE
  NGroups = 3
  GroupOf <- MCPairs
  NDaemons = 1
  DaemonsFail = TRUE
SPECIFICATION BatchSpec
INVARIANT OnlyPathsReturned
CHECK_DEADLOCK FALSE
