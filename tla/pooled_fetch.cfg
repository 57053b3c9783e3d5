\* A 5 x 3 image in 2 x 2 tiles, partial at the right and at the bottom.
SPECIFICATION FairPoolSpec
CONSTANTS
  ImgW = 5
  ImgH = 3
  TileW = 2
  TileH = 2
  NBands = 3
  NWin = 2
  Concurrency = 2
  Requests <- MCRequests
  Selections <- MCSelections
INVARIANTS
  PoolTypeOK
  WindowExact
  NoPanicInBlit
  BlitsAgree
  TilesExact
PROPERTIES
  WrittenOnce
  PoolEnds
CHECK_DEADLOCK FALSE
