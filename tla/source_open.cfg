\* Every pair of a dozen URLs, every kind of header, plans over two sources; one file replaced.
SPECIFICATION SourceSpec
CONSTANTS
  Masks = FALSE
  Calls <- MCCalls
  Headers <- MCHeaders
  MaxReplaced = 1
INVARIANTS
  SourceTypeOK
  ReadersOwn
  PoolsShared
  GeoreferencedRight
  CrsRight
  FetchedAsPlanned
CHECK_DEADLOCK FALSE
