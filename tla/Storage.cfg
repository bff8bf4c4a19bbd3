CONSTANTS
  NULL = NULL
  Threads = {t1, t2}
  Devices = {0, 1}
  Sectors = {0, 1}
  Values = {1, 2}
  Size = 1
  MaxCalls = 4
SPECIFICATION MCSpec
INVARIANT MapMatchesOwners
INVARIANT FilesKeepTheirData
 
INVARIANT PositionsAdvance
INVARIANT ServesItsRequest
INVARIANT PartitionsStayInside
INVARIANT ArchiveHoldsItsFiles
CHECK_DEADLOCK FALSE
