------------------------ MODULE AffineMapConversion ------------------------
(***************************************************************************)
(* Conversion of a graph to CUDA Tile operations along its iteration       *)
(* space's maps (lib/Conversion/TensorToCudaTile/AffineMapImpl.cpp): a     *)
(* block decodes its tile of the iteration space, loads the arguments'     *)
(* tiles there, computes and stores.  The contraction of a matmul is a     *)
(* tiler loop over its dimension, the last one.                            *)
(*                                                                         *)
(* Left out: static persistence, dynamic extents, several matmuls, and     *)
(* results that are computed inside of the loop.                           *)
(***************************************************************************)
EXTENDS IterationSpaces, TileAnalysis, CudaTileConversion

DefaultTileSize == 2
HasMatmul == \E op \in ToSet(graph.ops) : op.op = "matmul"
HasOneMatmul == Len(SelectSeq(graph.ops, LAMBDA op : op.op = "matmul")) = 1
TiledDim == IF HasMatmul THEN spaces.rank ELSE 0

(***************************************************************************)
(* Tile sizes of the iteration space                                       *)
(***************************************************************************)
SignatureValues == Inputs \cup {graph.results[r].value : r \in DOMAIN graph.results}
HasUniformTensors ==
    \A v \in UNION {{NumArgs(graph) + k} \cup ToSet(graph.ops[k].ins) : k \in DOMAIN graph.ops} \cup ToSet([r \in DOMAIN graph.results |-> graph.results[r].value]) :
        IsScalar(graph, v) \/ Rank(graph, v) = spaces.rank
HasMixedRanks ==
    graph.args # <<>> /\ (Inputs = {} \/ \E v, w \in SignatureValues : Rank(graph, v) # Rank(graph, w))

\* A requested tile is cut or filled up to the rank.
Padded(size, rank) == [d \in 1 .. rank |-> IF d \in DOMAIN size THEN size[d] ELSE DefaultTileSize]

ResolvedTileSizes(requested) ==
    CASE requested # <<>>  -> Padded(requested, spaces.rank)
      [] ~HasUniformTensors -> Padded(<<>>, spaces.rank)
      [] HasMixedRanks      -> Padded(<<>>, Max({2} \cup {Rank(graph, v) : v \in SignatureValues}))
      [] graph.args # <<>>  -> AnalyzeTileSize
      [] OTHER              -> Padded(<<>>, Rank(graph, graph.results[1].value))

(***************************************************************************)
(* The tensors of the signature, and where the dimensions' extents are     *)
(***************************************************************************)
TensorDescriptor(v, strides) ==
    [value |-> v, map |-> spaces.maps[v], ids |-> spaces.ids[v],
     view |-> [sizes |-> ShapeOf(graph, v), strides |-> StridesOf(ShapeOf(graph, v), strides), offset |-> 0]]
InputDescriptors ==
    LET inputs == SelectSeq([v \in 1 .. NumArgs(graph) |-> v], LAMBDA v : v \in Inputs)
    IN  [t \in DOMAIN inputs |-> TensorDescriptor(inputs[t], graph.args[inputs[t]].strides)]
\* The space of a result, or the first one of an argument.
OutputDescriptor(r) == [TensorDescriptor(graph.results[r].value, graph.results[r].strides) EXCEPT !.ids = {Min(@)}]

\* The first tensor of the space with a larger extent than 1, or the first one.
LocateDimension(tensors, space, d) ==
    LET at == {p \in (DOMAIN tensors) \X (1 .. spaces.rank) :
                  /\ space \in tensors[p[1]].ids /\ p[2] \in DOMAIN tensors[p[1]].map
                  /\ tensors[p[1]].map[p[2]] = d}
        confirmed == {p \in at : tensors[p[1]].view.sizes[p[2]] # 1}
        FirstOf(S) == CHOOSE p \in S : \A q \in S : p[1] < q[1] \/ (p[1] = q[1] /\ p[2] <= q[2])
    IN  IF at = {} THEN Failed ELSE FirstOf(IF confirmed = {} THEN at ELSE confirmed)

\* The tile of a tensor does not exceed it.
PartitionTile(tensor, tile) == [j \in DOMAIN tensor.map |-> Min({tile[tensor.map[j]], tensor.view.sizes[j]})]
NumTilesAlong(tensor, tile, j) == CeilDiv(tensor.view.sizes[j], PartitionTile(tensor, tile)[j])

\* A tensor that is consulted for one dimension sets the counts of all of its dimensions.
RECURSIVE NumTiles(_, _, _, _, _)
NumTiles(tensors, tile, located, counts, d) ==
    IF d > spaces.rank THEN counts
    ELSE IF d \in DOMAIN counts THEN NumTiles(tensors, tile, located, counts, d + 1)
    ELSE LET tensor == tensors[located[d][1]]
             own == [e \in ToSet(tensor.map) |-> NumTilesAlong(tensor, tile, CHOOSE j \in DOMAIN tensor.map : tensor.map[j] = e)]
         IN  NumTiles(tensors, tile, located, own @@ counts, d + 1)

SpaceInfo(tensors, tile, space) ==
    Then(AllOrFailed([d \in 1 .. spaces.rank |-> LocateDimension(tensors, space, d)]), LAMBDA located :
        [located |-> located, counts |-> NumTiles(tensors, tile, located, [d \in {} |-> 0], 1)])

SpaceIds == {0} \cup UNION {spaces.ids[v] : v \in {v \in Values(graph) : ~IsArg(graph, v)}}

\* What the patterns share: the tile sizes, the tensors, the spaces.
KernelInfo(tile) ==
    LET tensors == InputDescriptors \o [r \in DOMAIN graph.results |-> OutputDescriptor(r)]
        infos == [id \in SpaceIds |-> SpaceInfo(tensors, tile, id)]
    IN  IF tile = Failed THEN Failed
        ELSE IF Len(tile) # spaces.rank \/ \E id \in SpaceIds : infos[id] = Failed THEN Failed
        ELSE [tile |-> tile, tensors |-> tensors, spaces |-> infos]

(***************************************************************************)
(* Emission.  The state has the code of the loop and of the block after    *)
(* it; what an operation emits is placed in one of them.                   *)
(***************************************************************************)
ProgramId == 1
StepId    == 2
CarriedId == 3
InitialId == 4
LoopId    == 5

Begin == [code |-> <<>>, emitted |-> <<>>, next |-> 6, renamed |-> <<>>, value |-> 0,
          loop |-> <<>>, block |-> <<>>, coords |-> <<>>]

\* The deepest dimension decides: only the tiled one has a loop.
Placed(s, dims) ==
    IF TiledDim # 0 /\ TiledDim \in dims THEN [s EXCEPT !.loop = @ \o s.code, !.code = <<>>]
    ELSE [s EXCEPT !.block = @ \o s.code, !.code = <<>>]

\* The program id is decoded over the dimensions without a loop, the last one fastest.
GridCoordinate(counts, d) ==
    [below |-> Volume([e \in 1 .. spaces.rank |-> IF e > d /\ e # TiledDim THEN counts[e] ELSE 1]), count |-> counts[d]]

\* A tensor with fewer tiles than the tensor that defines the dimension.
NeedsClamping(k, info, tensor, j) ==
    LET at == info.located[tensor.map[j]]
        defining == k.tensors[at[1]].view.sizes[at[2]]
    IN  tensor.view.sizes[j] < defining /\ defining > k.tile[tensor.map[j]]

BlockIndex(s, k, info, tensor, j) ==
    LET d == tensor.map[j]
        decoded == IF d = TiledDim THEN [s EXCEPT !.value = StepId]
                   ELSE EmitTile(s, "coordinate", <<ProgramId>>, <<>>, GridCoordinate(info.counts, d))
    IN  IF NeedsClamping(k, info, tensor, j)
        THEN EmitTile(decoded, "coordinate", <<decoded.value>>, <<>>,
                      [below |-> 1, count |-> NumTilesAlong(tensor, k.tile, j)])
        ELSE decoded

\* In the first space of the tensor.
RECURSIVE BlockIndices(_, _, _, _)
BlockIndices(s, k, tensor, j) ==
    IF j > Len(tensor.map) THEN s
    ELSE LET index == BlockIndex(s, k, k.spaces[Min(tensor.ids)], tensor, j)
         IN  BlockIndices([index EXCEPT !.coords = Append(@, index.value)], k, tensor, j + 1)

\* With a matmul, what a tile has beyond the argument is zero.
CreateLoad(s, k, tensor) ==
    LET at == BlockIndices([s EXCEPT !.coords = <<>>], k, tensor, 1)
        loaded == EmitTile(at, "load", at.coords, PartitionTile(tensor, k.tile),
                           [view |-> tensor.view, arg |-> tensor.value, padding |-> IF HasMatmul THEN Zero ELSE Undefined])
    IN  Placed([loaded EXCEPT !.renamed = (tensor.value :> loaded.value) @@ @], ToSet(tensor.map))

RECURSIVE CreateLoads(_, _, _)
CreateLoads(s, k, tensors) ==
    IF tensors = <<>> THEN s ELSE CreateLoads(CreateLoad(s, k, Head(tensors)), k, Tail(tensors))

(***************************************************************************)
(* The operations                                                          *)
(***************************************************************************)
TileSizesOf(k, v) == [j \in DOMAIN spaces.maps[v] |-> k.tile[spaces.maps[v][j]]]
UnitTileSizesOf(k, v) == [j \in DOMAIN spaces.maps[v] |-> IF ShapeOf(graph, v)[j] = 1 THEN 1 ELSE k.tile[spaces.maps[v][j]]]
EmitOp(s, op, name, shape, attr) ==
    EmitTile(s, name, [j \in DOMAIN op.ins |-> Renamed(s, op.ins[j])], shape, attr)

\* One dimension, wherever it is; the extent is that of the tile.
ConvertAffineReduce(s, op) ==
    LET input == Renamed(s, op.ins[1])
        in == Definition(s.emitted, input).shape
        dim == op.attr.dims[1]
        mode == op.attr.mode
        kept == SubSeq(in, 1, dim - 1) \o SubSeq(in, dim + 1, Len(in))
        prepared == EmitUnlessType(mode \notin {"amax", "norm1", "norm2", "mul_no_zeros"},
                                   [s EXCEPT !.value = input], "prologue", in, mode)
        reduced == EmitTile(prepared, "tile_reduce", <<prepared.value>>, kept, [mode |-> mode, dim |-> dim])
        finished == EmitUnlessType(mode \notin {"norm2", "avg"}, reduced, "epilogue", kept,
                                   [mode |-> mode, extent |-> in[dim]])
    IN  IF Len(op.attr.dims) # 1 THEN Failed
        ELSE EmitUnlessType(Dropped(op) # {}, finished, "reshape", [in EXCEPT ![dim] = 1], "none")

\* The loop carries the accumulator, and its result is the matmul's.  An
\* accumulator among the operands is not used.
ConvertAffineMatmul(s, op, shape) ==
    LET product == EmitTile(s, "mma", <<Renamed(s, op.ins[1]), Renamed(s, op.ins[2]), CarriedId>>, shape, "none")
    IN  [product EXCEPT !.value = LoopId,
                        !.emitted = Append(@, Instruction(LoopId, "for", <<InitialId, product.value>>, shape, "none"))]

ConvertAffineOp(s, k, v) ==
    LET op == Op(graph, v)
    IN  CASE op.op = "broadcast" -> EmitOp(s, op, op.op, TileSizesOf(k, v), "none")
          [] op.op = "constant"  -> EmitOp(s, op, op.op, UnitTileSizesOf(k, v), IntTerm(op.attr))
          [] op.op = "splat"     -> ConvertSplat(s, [attr |-> op.ins[1], shape |-> UnitTileSizesOf(k, v)])
          [] op.op = "reduce"    -> ConvertAffineReduce(s, op)
          [] op.op = "matmul"    -> ConvertAffineMatmul(s, op, TileSizesOf(k, v))
          [] ~LowerablePointwise(op.op) -> Failed
          [] OTHER               -> EmitOp(s, op, op.op, UnitTileSizesOf(k, v), op.attr)

\* The dimensions of an operation's operands and of its result; constants and
\* splats go where the first dimension is.
PlaceOf(v) ==
    IF Op(graph, v).op \in {"constant", "splat"} THEN {1}
    ELSE UNION {ToSet(spaces.maps[w]) : w \in {v} \cup ToSet(Op(graph, v).ins)}

RECURSIVE ConvertOps(_, _, _)
ConvertOps(s, k, v) ==
    IF v \notin Values(graph) THEN s
    ELSE Then(ConvertAffineOp(s, k, v), LAMBDA next :
             ConvertOps(Placed([next EXCEPT !.renamed = (v :> next.value) @@ @], PlaceOf(v)), k, v + 1))

\* The tile must have the type of the tensor's partition.
CreateStore(s, k, r) ==
    LET tensor == k.tensors[Cardinality(Inputs) + r]
        value == Renamed(s, tensor.value)
        at == BlockIndices([s EXCEPT !.coords = <<>>], k, tensor, 1)
    IN  IF Definition(s.emitted, value).shape # PartitionTile(tensor, k.tile) \/ TiledDim \in ToSet(tensor.map) THEN Failed
        ELSE Placed(EmitTile(at, "store", <<value>> \o at.coords, <<>>, [result |-> r, view |-> tensor.view]), ToSet(tensor.map))

RECURSIVE CreateStores(_, _, _)
CreateStores(s, k, r) ==
    IF s = Failed \/ r \notin DOMAIN graph.results THEN s ELSE CreateStores(CreateStore(s, k, r), k, r + 1)

(***************************************************************************)
(* The kernel                                                              *)
(***************************************************************************)
\* Emitted before everything else: the first value of the accumulator and the loop.
TilerLoop(s, k) ==
    LET loop == Definition(s.emitted, LoopId)
    IN  <<Instruction(InitialId, "constant", <<>>, loop.shape, Zero),
          WithRegions(Instruction(LoopId, "for", <<InitialId>>, loop.shape, k.spaces[0].counts[TiledDim]),
                      <<Region(<<StepId, CarriedId>>, s.loop, loop.ins[2])>>)>>

\* The verifiers of CUDA Tile operations.
CudaTileOpVerified(i, ins) ==
    CASE i.op \in {"load", "store", "constant", "splat", "scalar", "coordinate", "for", "prologue", "epilogue"} -> TRUE
      [] i.op = "broadcast"   -> Len(ins[1]) = Len(i.shape) /\ \A d \in DOMAIN i.shape : ins[1][d] \in {1, i.shape[d]}
      [] i.op = "reshape"     -> ReshapeVerified(ins[1], i.shape)
      [] i.op = "mma"         -> Len(i.shape) \in {2, 3} /\ MatmulVerified(ins, i.shape)
      [] i.op = "tile_reduce" -> Len(ins[1]) = Len(i.shape) + 1
      [] OTHER                -> PointwiseVerified(ins, i.shape)
CudaTileVerified(code) ==
    /\ \A i \in ToSet(AllInstructions(code)) : TileType(i.shape) /\ CudaTileOpVerified(i, OperandShapes(code, i))
    /\ UsesDominated(code, {0, ProgramId})

KernelCode(k) ==
    Then(CreateStores(ConvertOps(CreateLoads(Begin, k, InputDescriptors), k, NumArgs(graph) + 1), k, 1),
         LAMBDA s : IF HasMatmul THEN TilerLoop(s, k) \o s.block ELSE s.block)

ConvertGraph(tile) ==
    LET k == KernelInfo(tile)
    IN  IF k = Failed \/ (HasMatmul /\ ~(HasOneMatmul /\ SpaceIds = {0})) THEN Failed
        ELSE Then(KernelCode(k), LAMBDA code : IF CudaTileVerified(code) THEN code ELSE Failed)

(***************************************************************************)
(* The launch grid: the requested tile's, or the resolved one's, number of *)
(* tiles in the first result or the first argument.                        *)
(***************************************************************************)
GridShape ==
    IF UseOutputTensorShapeForGrid \/ graph.args = <<>> THEN ShapeOf(graph, graph.results[1].value)
    ELSE IF Inputs = {} THEN <<>> ELSE ShapeOf(graph, Min(Inputs))

StaticGridSize(shape, tile) ==
    Volume([d \in 1 .. Min({Len(shape), Len(tile)}) |-> CeilDiv(shape[d], tile[d])])
=============================================================================
