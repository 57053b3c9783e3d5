\* Every sequence of ranges of MCRequests, against a server that may refuse,
\* reorder, coalesce or drop parts but honours a single range.
SPECIFICATION FairHttpSpec
CONSTANTS
  Size = 9
  Requests <- MCRequests
  MaxInflight = 2
  HonoursRange = TRUE
INVARIANTS
  HttpTypeOK
  RangesExact
  NoEmptyRequest
  FallbackBounded
PROPERTIES
  ReadEnds
CHECK_DEADLOCK FALSE
