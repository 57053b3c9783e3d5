\* Every mode of ck_batch (stack or not, inline or daemons) over every
\* overlap pattern of three groups: two pairs and a single.
CONSTANTS
  NSrc = 5
  Io = 2
  Buf = 1
  CanPanic = TRUE
  CanDrop = TRUE
  NGroups = 3
  GroupOf <- MCPairs
  NDaemons = 2
  DaemonsFail = TRUE
SPECIFICATION FairBatchSpec
INVARIANTS
  BatchTypeOK
  AccumulatorsExact
  StackCompleteInBandOrder
  PathMeansComplete
  NaExplained
  InlineMemoryBounded
PROPERTIES
  BatchPromiseKept
  BatchReturns
\* ck_batch returns or raises, and its session is dropped.
CHECK_DEADLOCK FALSE
