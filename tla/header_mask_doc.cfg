\* One source whose image and overview each have a mask.
SPECIFICATION SourceSpec
CONSTANTS
  Masks = TRUE
  Calls <- MCCalls
  Headers <- MCHeaders
  MaxReplaced = 0
INVARIANT ImageryPlanned
CHECK_DEADLOCK FALSE
