\* Every triple of the four headers, eight requests, all five entry points.
SPECIFICATION StackSpec
CONSTANTS
  NSrc = 3
  Metas <- MCMetas
  Requests <- MCRequests
  Methods = {"near", "mode"}
  Options = {"threads", "cache"}
  OutPixels = {6, 20}
INVARIANTS
  StackTypeOK
  OutputComplete
  NamesMatch
  WindowsServable
  NoneDropped
  NothingLeft
  ConfigRestored
  ArrayBounded
CHECK_DEADLOCK FALSE
