CONSTANTS
  Failed = Failed
  Graphs <- MCUnitReductions
  MaxTileSizePow2 = 2
  ReductionTileSizes = {1, 2}
SPECIFICATION Spec
INVARIANT CompiledMatchesReference
CHECK_DEADLOCK FALSE
