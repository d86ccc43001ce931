SPECIFICATION Spec
CONSTANT Failed = Failed
CONSTANT Graphs <- MCGraphs
CONSTANT MaxTileSizePow2 = 2
CONSTANT ReductionTileSizes = {1, 2, 4}
CHECK_DEADLOCK FALSE
INVARIANT LayoutReadsWhatItComputes
INVARIANT LayoutSourcesVerify
INVARIANT NormalizationKeepsReads
INVARIANT CompiledMatchesReference
INVARIANT TilesDominateTheirUses
INVARIANT StagedCodeIsVerified
INVARIANT VerifierAndReferenceAgree
INVARIANT NodesStayInTensors
INVARIANT SimpleGraphsCompile
PROPERTY VerifierSpec
