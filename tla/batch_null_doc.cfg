\* A panic in one fetch kills the driver; no daemon fails.
CONSTANTS
  NSrc = 5
  Io = 2
  Buf = 1
  CanPanic = TRUE
  CanDrop = FALSE
  NGroups = 3
  GroupOf <- MCPairs
  NDaemons = 1
  DaemonsFail = FALSE
SPECIFICATION BatchSpec
INVARIANT NaIsDocumented
CHECK_DEADLOCK FALSE
