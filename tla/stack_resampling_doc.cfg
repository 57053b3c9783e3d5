\* Per-source methods with a source dropped in the middle.
SPECIFICATION StackSpec
CONSTANTS
  NSrc = 3
  Metas <- MCMetas
  Requests <- MCRequests
  Methods = {"near", "mode"}
  Options = {"threads", "cache"}
  OutPixels = {6, 20}
INVARIANT
  ResamplingOwn
CHECK_DEADLOCK FALSE
