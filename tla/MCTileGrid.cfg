SPECIFICATION FairSpec
CONSTANTS
  Requests <- MCRequests
  Extents <- MCExtents
  MaxI32 = 7
  MaxI64 = 63
INVARIANTS
  LaunchIsValid
  PersistentGridFits
  HostPathsAgree
  IndicesAreTiles
  AllTilesProcessed
PROPERTY LaunchFinishes
CHECK_DEADLOCK FALSE
