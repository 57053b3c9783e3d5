\* A limit that the first source on a grid meets and the second does not.
SPECIFICATION StackSpec
CONSTANTS
  NSrc = 3
  Metas <- MCMetas
  Requests <- MCRequests
  Methods = {"near", "mode"}
  Options = {"threads", "cache"}
  OutPixels = {6, 20}
INVARIANT
  SizeGuarded
CHECK_DEADLOCK FALSE
