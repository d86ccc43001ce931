SPECIFICATION Spec
CONSTANTS
  Totals <- MCTotals
  Grids <- MCGrids
INVARIANTS
  AllTilesProcessed
  StrideInv
PROPERTY EachTileOnce
CHECK_DEADLOCK FALSE
