\* One session with faults: a fetch may panic and R may abandon the handle.
\* Io < NSrc and Buf = 1, so sends park and the channel fills.
CONSTANTS
  NSrc = 4
  Io = 2
  Buf = 1
  CanPanic = TRUE
  CanDrop = TRUE
SPECIFICATION FairStreamSpec
INVARIANTS
  StreamTypeOK
  Conservation
  Backpressure
  NullMeansDrainedOrPanicked
PROPERTIES
  PromiseKept
  EverySourceDelivered
\* The session really ends: NULL was returned or R dropped it.
CHECK_DEADLOCK FALSE
