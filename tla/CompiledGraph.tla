--------------------------- MODULE CompiledGraph ---------------------------
(***************************************************************************)
(* A graph computed by the reference interpreter, and compiled: it is      *)
(* verified, layouts are propagated and normalized, a tile is selected,    *)
(* the tile's code is formed, its contractions are strip-mined, it is      *)
(* converted to CUDA Tile operations, and the grid runs it.  The code is   *)
(* verified after each pass.  On the second route the graph is lowered to  *)
(* Linalg, canonicalized before or not, and runs on the host.  On the      *)
(* third one its iteration spaces are discovered, it is converted along    *)
(* their maps, and the grid runs it.                                       *)
(***************************************************************************)
EXTENDS VerifiedGraph, TileMaterializer, CudaTileConversion, LinalgConversion, AffineMapConversion

CONSTANT ReductionTileSizes            \* the reduction tile sizes, powers of two

VARIABLES tileSize,                    \* the tile_size attribute
          tile,                        \* the code of a tile and the next id, or of the lowered function
          stores                       \* what the grid has stored: result, address, term

\* compileStatus goes on from "analyzing": "selected", "formed", "tiled", "converted";
\* "lowered"; "discovered", "mapped"; then "launched" or "failed".
tileVars == <<tileSize, tile, compileStatus, stores>>
vars == <<graph, refVars, layoutVars, spaces, tileVars>>

IterationSpace == SourceShape(normalization.iterationSpace)
Coordinates(shape) == {Unravel(i, shape) : i \in 0 .. Volume(shape) - 1}

(***************************************************************************)
(* Tile selection                                                          *)
(***************************************************************************)
\* A result that is projected along a dimension is not partitioned there.
ResultFixedTileSizes ==
    [d \in DOMAIN IterationSpace |->
        IF IterationSpace[d] # 1 /\ \E r \in DOMAIN normalization.resultViews :
               LogicalDescriptor(normalization.resultViews[r]).strides[d] = 0
        THEN IterationSpace[d] ELSE 0]

SelectableTiles ==
    {size \in [DOMAIN IterationSpace -> {2 ^ b : b \in 0 .. 3}] :
        /\ \A d \in DOMAIN size : ResultFixedTileSizes[d] \in {0, size[d]}
        /\ IsValidTile(size, IterationSpace)}

SelectTile ==
    /\ layoutStatus = "done" /\ compileStatus = "analyzing"
    /\ tileSize' \in SelectableTiles
    /\ compileStatus' = "selected"
    /\ UNCHANGED <<tile, stores>>

(***************************************************************************)
(* Grid formation, strip mining and launch                                 *)
(***************************************************************************)
FormGrid ==
    /\ compileStatus = "selected"
    /\ tile' = FormedTile(tileSize)
    /\ compileStatus' = IF tile' = Failed THEN "failed" ELSE "formed"
    /\ UNCHANGED <<tileSize, stores>>

TileReductions ==
    /\ compileStatus = "formed"
    /\ \E size \in ReductionTileSizes : tile' = StripMine(tile.code, tile.next, size)
    /\ compileStatus' = IF tile' = Failed THEN "failed" ELSE "tiled"
    /\ UNCHANGED <<tileSize, stores>>

Convert ==
    /\ compileStatus = "tiled"
    /\ tile' = ConvertTile(tile.code, tile.next)
    /\ compileStatus' = IF tile' = Failed THEN "failed" ELSE "converted"
    /\ UNCHANGED <<tileSize, stores>>

\* Dimension 0 is the fastest; the ids of the coordinates are their dimensions.
TileCoordinates(linear) ==
    LET counts == TileCounts(IterationSpace, tileSize)
    IN  [d \in 0 .. Len(counts) |->
            IF d = 0 THEN 0 ELSE (linear \div Volume(SubSeq(counts, 1, d - 1))) % counts[d]]

\* The blocks run concurrently; none reads what another one stores.
RunGrid ==
    /\ compileStatus = "converted"
    /\ LET memory == [v \in 1 .. NumArgs(graph) |-> refMemory[v]]
       IN  stores' = UNION {Writes(tile.code, TileCoordinates(t), memory) :
                               t \in 0 .. Volume(TileCounts(IterationSpace, tileSize)) - 1}
    /\ compileStatus' = "launched"
    /\ UNCHANGED <<tileSize, tile>>

TileStep == SelectTile \/ FormGrid \/ TileReductions \/ Convert \/ RunGrid

(***************************************************************************)
(* The Linalg route                                                        *)
(***************************************************************************)
\* An instruction per value; the results.
GraphCode ==
    [v \in Values(graph) |->
        IF IsArg(graph, v) THEN Instruction(v, "argument", <<>>, ShapeOf(graph, v), "none")
        ELSE Instruction(v, Op(graph, v).op, Op(graph, v).ins, Op(graph, v).shape, Op(graph, v).attr)]
GraphResults == [r \in DOMAIN graph.results |-> graph.results[r].value]

LowerFrom(statuses) ==
    /\ compileStatus \in statuses
    /\ \E source \in {[code |-> GraphCode, results |-> GraphResults], Canonicalized(GraphCode, GraphResults)} :
          tile' = LowerToLinalg(source.code, source.results, Cardinality(Values(graph)) + 1)
    /\ compileStatus' = "lowered"
    /\ UNCHANGED <<tileSize, stores>>

\* Mutant: the module is not verified before its first pass.
LowerUnverified == LayoutInit /\ LowerFrom({"parsed", "analyzing"})

\* The layouts are not analyzed on this route.
Lower == LayoutInit /\ LowerFrom({"analyzing"})

RunOnHost ==
    /\ compileStatus = "lowered"
    /\ LET Argument(v) == Tile(ShapeOf(graph, v), LAMBDA c : refMemory[v][Dot(c, refTensors[v].strides)])
           after == RunLinalg(tile.code, [v \in 1 .. NumArgs(graph) |-> Argument(v)])
       IN  stores' = UNION {LET shape == ShapeOf(graph, GraphResults[r])
                                strides == StridesOf(shape, graph.results[r].strides)
                            IN  {<<r, Dot(c, strides), At(after[tile.results[r]], c)>> : c \in Coordinates(shape)} :
                               r \in DOMAIN graph.results}
    /\ compileStatus' = "launched"
    /\ UNCHANGED <<tileSize, tile>>

HostStep == Lower \/ RunOnHost

(***************************************************************************)
(* The affine-map route, with the tile sizes that are requested for the    *)
(* graph; the empty one requests the analyzed tile.                        *)
(***************************************************************************)
DiscoverIterationSpaces ==
    /\ compileStatus = "analyzing" /\ LayoutInit /\ graph.tiles # {}
    /\ spaces' = Discovered
    /\ compileStatus' = IF spaces' = Failed THEN "failed" ELSE "discovered"
    /\ UNCHANGED <<tileSize, tile, stores>>

ConvertAlongMaps ==
    /\ compileStatus = "discovered"
    /\ tileSize' \in graph.tiles
    /\ tile' = ConvertGraph(ResolvedTileSizes(tileSize'))
    /\ compileStatus' = IF tile' = Failed THEN "failed" ELSE "mapped"
    /\ UNCHANGED <<spaces, stores>>

\* A block has its linear index.
RunAffineGrid ==
    /\ compileStatus = "mapped" /\ GridShape # <<>>
    /\ LET memory == [v \in 1 .. NumArgs(graph) |-> refMemory[v]]
           size == IF tileSize = <<>> THEN ResolvedTileSizes(<<>>) ELSE tileSize
       IN  stores' = UNION {Writes(tile, (0 :> 0) @@ (ProgramId :> block), memory) :
                               block \in 0 .. StaticGridSize(GridShape, size) - 1}
    /\ compileStatus' = "launched"
    /\ UNCHANGED <<spaces, tileSize, tile>>

AffineStep == DiscoverIterationSpaces \/ ConvertAlongMaps \/ RunAffineGrid

(***************************************************************************)
(* The specification                                                       *)
(***************************************************************************)
Init ==
    /\ VerifierInit /\ LayoutInit /\ spaces = Failed
    /\ tileSize = <<>> /\ tile = Failed /\ stores = {}

Reference == RefNext /\ UNCHANGED <<layoutVars, spaces, tileVars>>
Analyze   == compileStatus = "analyzing" /\ LayoutNext /\ UNCHANGED <<refVars, spaces, tileVars>>
Verify    == VerifyGraph /\ UNCHANGED <<tileSize, tile, stores>>
Compile   ==
    /\ refStatus \in {"done", "failed"}
    /\ ((Verify \/ TileStep \/ HostStep) /\ UNCHANGED spaces) \/ AffineStep
    /\ UNCHANGED <<graph, refVars, layoutVars>>

Next == Reference \/ Analyze \/ Compile

Spec == Init /\ [][Next]_vars

(***************************************************************************)
(* Properties                                                              *)
(***************************************************************************)
(* The input elements that a term is computed from. *)
RECURSIVE InputsOf(_)
InputsOf(t) ==
    CASE t[1] = "in"            -> {t}
      [] t[1] = "poly"          -> UNION {InputsOf(x) : x \in UNION {DOMAIN m : m \in DOMAIN t[2]}}
      [] t[1] \in {"max", "min"} -> UNION {InputsOf(x) : x \in t[2]}
      [] t[1] = "function"      -> UNION {InputsOf(x) : x \in ToSet(t[3])}
      [] t[1] = "compare"       -> InputsOf(t[4]) \cup InputsOf(t[5])
      [] t[1] = "select"        -> UNION {InputsOf(t[k]) : k \in 2 .. 4}
      [] OTHER                  -> {}

\* The reference keeps scalars out of the layouts.
TensorInputs(term) == {t \in InputsOf(term) : t[2] \in Inputs}

\* A layout source reads exactly the input elements of the value it describes.
LayoutReadsWhatItComputes ==
    (refStatus = "done" /\ layoutStatus # "done") =>
        \A v \in DOMAIN layouts :
            /\ SourceShape(layouts[v]) = ShapeOf(graph, v)
            /\ \A c \in Coordinates(ShapeOf(graph, v)) :
                  Reads(layouts[v], c) = TensorInputs(Stored(v, c))

\* The layout sources that propagation and normalization build satisfy the
\* verifiers of their attributes.
LayoutSourcesVerify ==
    /\ \A v \in DOMAIN layouts : SourceVerified(layouts[v])
    /\ layoutStatus = "done" =>
          \A source \in ToSet(<<normalization.iterationSpace>> \o normalization.resultLayouts \o normalization.resultViews) :
              SourceVerified(source)

\* Every element of the iteration space that a result's view maps to an element
\* of the result's buffer reads what that element is computed from.
NormalizationKeepsReads ==
    (refStatus = "done" /\ layoutStatus = "done" /\ compileStatus = "analyzing") =>
        \A r \in DOMAIN graph.results :
            LET v == graph.results[r].value
                shape == ShapeOf(graph, v)
                view == OutputView(r)
                At0(c) == CHOOSE e \in Coordinates(shape) : Reads(OutputSource(r), e) = Reads(view, c)
            IN  /\ {Reads(view, c) : c \in Coordinates(IterationSpace)} = {Reads(OutputSource(r), e) : e \in Coordinates(shape)}
                /\ \A c \in Coordinates(IterationSpace) : Reads(OutputLayout(r), c) = TensorInputs(Stored(v, At0(c)))

\* The grid stores every element of every result, and what the reference computes.
CompiledMatchesReference ==
    (refStatus = "done" /\ compileStatus = "launched") =>
        stores = UNION {LET v == graph.results[r].value
                            strides == StridesOf(ShapeOf(graph, v), graph.results[r].strides)
                        IN  {<<r, Dot(c, strides), Stored(v, c)>> : c \in Coordinates(ShapeOf(graph, v))} :
                           r \in DOMAIN graph.results}

\* No tile of one branch is reused in another one, or after the branches join.
TilesDominateTheirUses ==
    compileStatus \in {"formed", "tiled", "converted"} => UsesDominated(tile.code, 0 .. Len(tileSize))

\* What grid formation and strip mining emit satisfies the operations' verifiers.
StagedCodeIsVerified == compileStatus \in {"formed", "tiled"} => TileCodeVerified(tile.code)

(***************************************************************************)
(* Grid formation does not split a concatenated dimension, nor does strip  *)
(* mining clone a concatenation or a contraction, and the gradients of     *)
(* activations have no CUDA Tile conversion.  Every other graph compiles,  *)
(* with any valid tile and any reduction tile size.                        *)
(***************************************************************************)
IsContraction(v) == ~IsArg(graph, v) /\ Op(graph, v).op \in {"reduce", "matmul"}
HasNestedContractions == \E v, w \in Values(graph) : v # w /\ v \in Ancestors(w) /\ IsContraction(v) /\ IsContraction(w)
HasConcatenation == \E op \in ToSet(graph.ops) : op.op = "concatenate"
HasGradient == \E op \in ToSet(graph.ops) : op.op \in ActivationGradients

SimpleGraphsCompile ==
    (compileStatus = "failed" \/ layoutStatus = "failed") => HasNestedContractions \/ HasConcatenation \/ HasGradient
=============================================================================
