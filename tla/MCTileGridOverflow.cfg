SPECIFICATION Spec
CONSTANTS
  Requests <- MCRequests
  Extents <- MCExtents
  MaxI32 = 7
  MaxI64 = 63
INVARIANT GridIsTileCount
CHECK_DEADLOCK FALSE
