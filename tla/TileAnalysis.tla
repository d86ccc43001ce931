---------------------------- MODULE TileAnalysis ----------------------------
(***************************************************************************)
(* The tile analyzer (lib/Analysis/TileAnalyzer.cpp): valid tile sizes,    *)
(* the pointwise baseline, and the tensor that the grid covers.            *)
(***************************************************************************)
EXTENDS TileReductions

CONSTANT MaxTileSizePow2             \* the logarithm of the elements of a tile, 9 in the code

IsValidTile(size, shape) ==
    /\ Len(size) = Len(shape)
    /\ \A d \in DOMAIN size : size[d] \in {2 ^ b : b \in 0 .. size[d]} /\ size[d] <= PowerOf2Ceil(shape[d])

\* Fastest dimension first.
DimensionOrder(strides) == InOrder(DOMAIN strides, LAMBDA i, j : strides[i] < strides[j])

\* A dimension doubles until it covers the extent or the budget is spent; a
\* reduced one has its extent.
RECURSIVE PointwiseBaseline(_, _, _, _)
PointwiseBaseline(shape, order, reduced, budget) ==
    LET d == Head(order)
        bits == Min({budget} \cup {b \in 0 .. budget : 2 ^ b >= shape[d]})
    IN  IF order = <<>> THEN shape
        ELSE IF d \in reduced THEN PointwiseBaseline(shape, Tail(order), reduced, budget)
        ELSE Replaced(PointwiseBaseline(shape, Tail(order), reduced, budget - bits), d, 2 ^ bits)

ReductionDims == UNION {ToSet(op.attr.dims) : op \in {op \in ToSet(graph.ops) : op.op = "reduce"}}

\* The tile of the first argument.
AnalyzedTile(shape, strides) ==
    LET size == PointwiseBaseline(shape, DimensionOrder(strides), ReductionDims, MaxTileSizePow2)
    IN  IF IsValidTile(size, shape) THEN size ELSE Failed
AnalyzeTileSize ==
    IF IsScalar(graph, 1) THEN Failed ELSE AnalyzedTile(graph.args[1].shape, StridesOf(graph.args[1].shape, graph.args[1].strides))

UseOutputTensorShapeForGrid == \E op \in ToSet(graph.ops) : op.op \in {"matmul", "concatenate", "broadcast"}
=============================================================================
