-------------------------- MODULE TileMaterializer --------------------------
(***************************************************************************)
(* The tile materializer of grid formation: code for one tile of a value,  *)
(* requested in a layout, at tile coordinates and in a tile shape, traced  *)
(* backwards from the results of the graph (lib/Transform/FormGrid.cpp).   *)
(*                                                                         *)
(* The materializer's state m is the code of the region it emits into, the *)
(* next id, the tiles computed and loaded so far and the last value.       *)
(***************************************************************************)
EXTENDS LayoutPropagation, TileCode

NoTiles(first) == [code |-> <<>>, next |-> first, computed |-> <<>>, loaded |-> <<>>, value |-> 0]

Emit(m, op, ins, shape, attr) ==
    [m EXCEPT !.code = Append(@, Instruction(m.next, op, ins, shape, attr)),
              !.next = @ + 1, !.value = m.next]

EmitUnless(done, m, op, shape, attr) == IF done THEN m ELSE Emit(m, op, <<m.value>>, shape, attr)

(***************************************************************************)
(* Tile caches.  A tile is found again if value, layout, coordinates and   *)
(* shape are the same, or if they are a permutation of them.               *)
(***************************************************************************)
Tiling(v, layout, coords, shape) == [value |-> v, layout |-> layout, coords |-> coords, shape |-> shape]
Insert(cache, key, tile) == Append(cache, [key |-> key, tile |-> tile])

RECURSIVE DimensionKey(_, _)
DimensionKey(layout, d) ==
    CASE layout.kind = "tensor"    -> <<"dim", layout.layout[d]>>
      [] layout.kind = "composite" -> <<"all", [k \in DOMAIN layout.sources |-> DimensionKey(layout.sources[k], d)]>>
      [] layout.kind = "concat"    ->
            <<"concat", d = layout.dim, [k \in DOMAIN layout.sources |-> DimensionKey(layout.sources[k], d)]>>
      [] OTHER                     -> <<"dim", layout.view[d]>>

\* The first source dimension, not used yet, for each target dimension in turn.
RECURSIVE MatchedDimensions(_)
MatchedDimensions(matches) ==
    IF matches = <<>> THEN <<>>
    ELSE Then(MatchedDimensions(Front(matches)), LAMBDA found :
             LET free == Last(matches) \ ToSet(found)
             IN  IF free = {} THEN Failed ELSE Append(found, Min(free)))

\* Coordinates are the same if they are the same value, or both the constant 0.
FindLayoutPermutation(old, new) ==
    LET rank == Len(new.shape)
        Matches(from, to) ==
            /\ DimensionKey(old.layout, from) = DimensionKey(new.layout, to)
            /\ old.shape[from] = new.shape[to] /\ old.coords[from] = new.coords[to]
        Exact(perm) == IF Transpose(old.layout, perm) # new.layout THEN Failed ELSE perm
    IN  IF old.value # new.value \/ Len(old.shape) # rank THEN Failed
        ELSE IF {Len(SourceShape(old.layout)), Len(SourceShape(new.layout))} # {rank} THEN Failed
        ELSE Then(MatchedDimensions([to \in 1 .. rank |-> {from \in 1 .. rank : Matches(from, to)}]), Exact)

\* The first entry that has the key up to a permutation, and the permutation.
RECURSIVE FindPermuted(_, _)
FindPermuted(cache, key) ==
    IF cache = <<>> THEN Failed
    ELSE FirstMade(Then(FindLayoutPermutation(Head(cache).key, key), LAMBDA perm : [tile |-> Head(cache).tile, perm |-> perm]),
                   FindPermuted(Tail(cache), key))

\* The state with the tile found as its value, or Failed.
Lookup(m, cache, key) ==
    LET same == {k \in DOMAIN cache : cache[k].key = key}
        Transposed(found) ==
            EmitUnless(IsIdentity(found.perm), [m EXCEPT !.value = found.tile], "transpose", key.shape, found.perm)
    IN  IF same # {} THEN [m EXCEPT !.value = cache[Min(same)].tile]
        ELSE Then(FindPermuted(cache, key), Transposed)

Remember(made, key) == Then(made, LAMBDA m : [m EXCEPT !.computed = Insert(@, key, m.value)])

(***************************************************************************)
(* Loads                                                                   *)
(***************************************************************************)
RECURSIVE SingleTensorSource(_)
SingleTensorSource(layout) ==
    IF layout.kind = "tensor" THEN layout
    ELSE IF layout.kind = "composite" /\ Len(layout.sources) = 1 THEN SingleTensorSource(layout.sources[1])
    ELSE Failed

\* Extents and strides of a logical view; a grouped mode counts as their product.
LogicalDescriptor(source) ==
    [offset |-> source.offset, sizes |-> Shape(source.layout),
     strides |-> [d \in DOMAIN source.layout |-> Volume([j \in DOMAIN source.layout[d] |-> source.layout[d][j].d])]]

\* Mutant: an axis of stride 0 keeps its stride.
AccessViewProjected(desc) ==
    [offset  |-> desc.offset,
     sizes   |-> [d \in DOMAIN desc.sizes |-> IF desc.strides[d] = 0 THEN 1 ELSE desc.sizes[d]],
     strides |-> desc.strides]

\* An axis of stride 0 is accessed at extent 1 and index 0.
AccessView(desc) ==
    [offset  |-> desc.offset,
     sizes   |-> [d \in DOMAIN desc.sizes |-> IF desc.strides[d] = 0 THEN 1 ELSE desc.sizes[d]],
     strides |-> [d \in DOMAIN desc.sizes |-> IF desc.strides[d] = 0 THEN 2 ELSE desc.strides[d]]]
AccessIndices(desc, coords) == [d \in DOMAIN coords |-> IF desc.strides[d] = 0 THEN 0 ELSE coords[d]]
AccessShape(desc, shape)    == [d \in DOMAIN shape |-> IF desc.strides[d] = 0 THEN 1 ELSE shape[d]]

TiledLoad(m, arg, desc, coords, shape) ==
    LET loaded == AccessShape(desc, shape)
        load == Emit(m, "load", AccessIndices(desc, coords), loaded,
                     [arg |-> arg, view |-> AccessView(desc), padding |-> Undefined])
    IN  EmitUnless(loaded = shape, load, "broadcast", shape, "none")

TiledStore(m, result, desc, coords, shape) ==
    LET kept  == AccessShape(desc, shape)
        slice == EmitUnless(kept = shape, m, "slice", kept, "none")
    IN  Emit(slice, "store", <<slice.value>> \o AccessIndices(desc, coords), kept,
             [result |-> result, view |-> AccessView(desc)])

LoadTensor(m, v, source, coords, shape) ==
    LET key == Tiling(v, source, coords, shape)
    IN  IF Len(source.layout) # Len(shape) THEN Failed
        ELSE Then(FirstMade(Lookup(m, m.loaded, key), TiledLoad(m, v, LogicalDescriptor(source), coords, shape)),
                  LAMBDA found : [found EXCEPT !.loaded = Insert(@, key, found.value)])

LoadSource(m, v, layout, coords, shape) ==
    Then(SingleTensorSource(layout), LAMBDA source : LoadTensor(m, v, source, coords, shape))

(***************************************************************************)
(* The layouts of the operands, from the layout requested of the result.   *)
(***************************************************************************)
SourcesOf(layout) == IF layout.kind = "composite" THEN layout.sources ELSE <<layout>>

\* Each operand gets the requested counterparts of its own propagated sources.
RemapPointwiseOperand(annotated, requested, operand) ==
    LET own == SourcesOf(layouts[operand])
        At0(s) == CHOOSE k \in DOMAIN annotated : annotated[k] = s /\ \A j \in 1 .. k - 1 : annotated[j] # s
        mapped == [k \in DOMAIN own |-> requested.sources[At0(own[k])]]
    IN  IF requested.kind # "composite" THEN Failed
        ELSE IF Len(requested.sources) # Len(annotated) \/ ~ToSet(own) \subseteq ToSet(annotated) THEN Failed
        ELSE IF Len(mapped) = 1 THEN mapped[1] ELSE CompositeSource(mapped)

\* Of a pointwise operation; the others take theirs from the requested source's parts.
OperandLayouts(v, layout) ==
    LET ins == Op(graph, v).ins
    IN  IF Len(ins) = 1 \/ layouts[v].kind # "composite" THEN [k \in DOMAIN ins |-> layout]
        ELSE AllOrFailed([k \in DOMAIN ins |-> RemapPointwiseOperand(layouts[v].sources, layout, ins[k])])

(***************************************************************************)
(* Reductions: the operand's tile has the kept dimensions and the whole    *)
(* contraction; broadcast dimensions are put back afterwards.              *)
(***************************************************************************)
ViewStride(mode) == Volume([j \in DOMAIN mode |-> mode[j].d])

PlanReductionTile(layout, shape) ==
    LET outer == OuterModes(layout.view)
        kept  == SelectSeq([d \in DOMAIN outer |-> d], LAMBDA d : ViewStride(outer[d]) # 0)
        input == [k \in DOMAIN kept |-> shape[kept[k]]]
        contracting == ContractingShape(layout.view)
    IN  [inputDims  |-> kept,
         inputShape |-> input \o contracting,
         reduced    |-> [j \in DOMAIN contracting |-> Len(kept) + j],
         extent     |-> Volume(contracting),
         rawShape   |-> input \o [j \in DOMAIN contracting |-> 1],
         unbroadcast |-> [d \in DOMAIN outer |-> IF Contains(kept, d) THEN shape[d] ELSE 1]]

(***************************************************************************)
(* Matmuls: operands in the canonical [B,] M x K and [B,] K x N form, and  *)
(* the result reshaped, permuted and broadcast to the output tile.         *)
(***************************************************************************)
\* The strides in the view that the dimensions of an operand have.
OperandStrides(shape, split1, split2, base1, base2, base3) ==
    LET Part(from, to, base) ==
            LET part == SubSeq(shape, from + 1, to) IN [d \in DOMAIN part |-> base * RowMajor(part)[d]]
    IN  Part(0, split1, base1) \o Part(split1, split2, base2) \o Part(split2, Len(shape), base3)

DimensionMap(layout, strides) ==
    LET flat == Leaves(layout.view)
        At0(s) == {i \in DOMAIN flat : flat[i].d = s}
    IN  IF \E s \in ToSet(strides) : At0(s) = {} THEN Failed ELSE [k \in DOMAIN strides |-> Min(At0(strides[k]))]

LhsDimensionMap(layout) ==
    LET z == layout.size  shape == SourceShape(layout.lhs)
    IN  Then(AllOrFailed(<<DimensionWithSuffixProduct(shape, z.m * z.k), DimensionWithSuffixProduct(shape, z.k)>>),
             LAMBDA at : DimensionMap(layout, OperandStrides(shape, at[1], at[2], z.m * z.n * z.k, z.n * z.k, 1)))

RhsDimensionMap(layout) ==
    LET z == layout.size  shape == SourceShape(layout.rhs)
    IN  Then(AllOrFailed(<<DimensionWithSuffixProduct(shape, z.k * z.n), DimensionWithSuffixProduct(shape, z.n)>>),
             LAMBDA at : DimensionMap(layout, OperandStrides(shape, at[1], at[2], z.m * z.n * z.k, 1, z.k)))

\* Coordinate 0 stands for a dimension that is covered by one tile.
PlanOperandTile(layout, map, shape) ==
    LET rank == Len(shape)
        Outer(d) == d <= rank
    IN  [shape  |-> [k \in DOMAIN map |-> IF Outer(map[k]) THEN shape[map[k]]
                                          ELSE ContractingShape(layout.view)[map[k] - rank]],
         coords |-> [k \in DOMAIN map |-> IF Outer(map[k]) /\ SourceShape(layout)[map[k]] > shape[map[k]]
                                          THEN map[k] ELSE 0],
         contracting |-> SelectSeq([k \in DOMAIN map |-> k], LAMBDA k : ~Outer(map[k]))]

Kinds == <<"broadcast", "batch", "left", "right">>

PlanMatmulTile(layout, shape, lhsMap, rhsMap) ==
    LET z == layout.size
        stride == [d \in DOMAIN shape |-> ViewStride(layout.view[d])]
        Kind(d) == IF stride[d] = 0 THEN 1
                   ELSE IF stride[d] >= z.m * z.n * z.k THEN 2
                   ELSE IF stride[d] >= z.n * z.k THEN 3 ELSE 4
        Extent(kind) == Volume([d \in DOMAIN shape |-> IF Kinds[Kind(d)] = kind THEN shape[d] ELSE 1])
        k == Volume(ContractingShape(layout.view))
        batch == IF Extent("batch") > 1 THEN <<Extent("batch")>> ELSE <<>>
        result == [d \in DOMAIN shape |-> IF Kind(d) = 1 THEN 1 ELSE shape[d]]
        order == InOrder(DOMAIN shape, LAMBDA a, b :
                    Kind(a) < Kind(b) \/ (Kind(a) = Kind(b) /\ stride[a] > stride[b]))
    IN  [lhs |-> PlanOperandTile(layout, lhsMap, shape),
         rhs |-> PlanOperandTile(layout, rhsMap, shape),
         lhsShape |-> batch \o <<Extent("left"), k>>,
         rhsShape |-> batch \o <<k, Extent("right")>>,
         outShape |-> batch \o <<Extent("left"), Extent("right")>>,
         normalized |-> [p \in DOMAIN order |-> result[order[p]]],
         perm |-> [d \in DOMAIN shape |-> CHOOSE p \in DOMAIN order : order[p] = d],
         resultShape |-> result]

(***************************************************************************)
(* Materialization                                                         *)
(***************************************************************************)
RECURSIVE Materialize(_, _, _, _, _)

\* Coordinate 0 stands for the constant index 0.
CoordinatesAt(pattern, coords) ==
    [k \in DOMAIN pattern |-> IF pattern[k] = 0 THEN 0 ELSE coords[pattern[k]]]

EmitReduction(input, plan, mode, shape) ==
    LET raw == Emit(input, "reduce", <<input.value>>, plan.rawShape,
                    [dims |-> plan.reduced, mode |-> mode, prologueApplied |-> FALSE, extent |-> plan.extent])
        kept == EmitUnless(plan.rawShape = plan.unbroadcast, raw, "reshape", plan.unbroadcast, "none")
    IN  EmitUnless(plan.unbroadcast = shape, kept, "broadcast", shape, "none")

ReductionOperand(m, v, source, plan, coords) ==
    Materialize(m, v, source, CoordinatesAt(plan.inputDims \o [j \in DOMAIN plan.reduced |-> 0], coords), plan.inputShape)

MaterializeReduction(m, op, layout, coords, shape) ==
    IF layout.kind # "reduction" THEN Failed
    ELSE IF Len(shape) + 1 < Len(layout.view) THEN Failed
    ELSE Then(ReductionOperand(m, op.ins[1], layout.source, PlanReductionTile(layout, shape), coords),
              LAMBDA input : EmitReduction(input, PlanReductionTile(layout, shape), op.attr.mode, shape))

EmitMatmul(m, lhs, rhs, plan, contraction, shape) ==
    LET Canonical(m0, value, tile, to) ==
            EmitUnless(tile = to, [m0 EXCEPT !.value = value], "reshape", to, "matmul input")
        a == Canonical(m, lhs, plan.lhs.shape, plan.lhsShape)
        b == Canonical(a, rhs, plan.rhs.shape, plan.rhsShape)
        raw == Emit(b, "matmul", <<a.value, b.value>>, plan.outShape,
                    [contraction |-> contraction, lhs |-> plan.lhs, rhs |-> plan.rhs])
        flat == EmitUnless(plan.outShape = plan.normalized, raw, "reshape", plan.normalized, "none")
        ordered == EmitUnless(IsIdentity(plan.perm), flat, "transpose", plan.resultShape, plan.perm)
    IN  EmitUnless(plan.resultShape = shape, ordered, "broadcast", shape, "none")

\* The operands, in turn.
RECURSIVE MaterializeMatmulOperands(_, _, _, _, _)
MaterializeMatmulOperands(m, ins, sources, tiles, coords) ==
    IF ins = <<>> THEN [m |-> m, values |-> <<>>]
    ELSE Then(Materialize(m, Head(ins), Head(sources), CoordinatesAt(Head(tiles).coords, coords), Head(tiles).shape),
              LAMBDA first : Then(MaterializeMatmulOperands(first, Tail(ins), Tail(sources), Tail(tiles), coords),
                                  LAMBDA rest : [rest EXCEPT !.values = <<first.value>> \o @]))

MatmulOverTiles(m, op, layout, coords, shape, plan) ==
    LET Covers(tile) == Len(tile.contracting) = Len(ContractingShape(layout.view))
    IN  IF ~Covers(plan.lhs) \/ ~Covers(plan.rhs) THEN Failed
        ELSE Then(MaterializeMatmulOperands(m, op.ins, <<layout.lhs, layout.rhs>>, <<plan.lhs, plan.rhs>>, coords),
                  LAMBDA o : EmitMatmul(o.m, o.values[1], o.values[2], plan, ContractingShape(layout.view), shape))

MaterializeMatmul(m, op, layout, coords, shape) ==
    IF layout.kind # "matmul" THEN Failed
    ELSE IF Len(layout.view) # Len(shape) + 1 THEN Failed
    ELSE Then(AllOrFailed(<<LhsDimensionMap(layout), RhsDimensionMap(layout)>>), LAMBDA map :
             MatmulOverTiles(m, op, layout, coords, shape, PlanMatmulTile(layout, shape, map[1], map[2])))

\* The values of an iota are its layout's offsets inside the tile, and the tile's.
MaterializeIota(m, layout, coords, shape) ==
    LET desc == LogicalDescriptor(layout)
        varying == SelectSeq([d \in DOMAIN shape |-> d], LAMBDA d : desc.strides[d] # 0)
        Contribution(m0, d) ==
            LET iota == Emit(m0, "iota", <<>>, shape, d)
                factor == Emit(iota, "constant", <<>>, shape, IntTerm(desc.strides[d]))
            IN  IF desc.strides[d] = 1 THEN iota
                ELSE Emit(factor, "mul", <<iota.value, factor.value>>, shape, "none")
        Sum(m0, one) == IF m0.value = 0 THEN one ELSE Emit(one, "add", <<m0.value, one.value>>, shape, "none")
        SumOver[n \in 0 .. Len(varying)] ==
            IF n = 0 THEN [m EXCEPT !.value = 0] ELSE Sum(SumOver[n - 1], Contribution(SumOver[n - 1], varying[n]))
        WithOffset(local, offset) == Emit(offset, "add", <<local.value, offset.value>>, shape, "none")
        Offset0(local) == Emit(local, "offset", [k \in DOMAIN varying |-> coords[varying[k]]], shape,
                               [k \in DOMAIN varying |-> shape[varying[k]] * desc.strides[varying[k]]])
    IN  IF layout.kind # "tensor" THEN Failed
        ELSE IF Len(layout.layout) # Len(shape) \/ varying = <<>> THEN Failed
        ELSE WithOffset(SumOver[Len(varying)], Offset0(SumOver[Len(varying)]))

\* Mutant: the tiles of a region remain known after its end.
InRegionKeepingTiles(m, inner) ==
    IF inner = Failed THEN Failed
    ELSE [m |-> [inner EXCEPT !.code = m.code], region |-> Region(<<>>, inner.code, inner.value)]

\* A region of its own, whose tiles are forgotten when it ends.
Entering(m) == [m EXCEPT !.code = <<>>]
InRegion(m, inner) ==
    IF inner = Failed THEN Failed
    ELSE [m |-> [m EXCEPT !.next = inner.next], region |-> Region(<<>>, inner.code, inner.value)]

IfBelow(m, id, coord, threshold, shape, then, else) ==
    [m EXCEPT !.value = id,
              !.code = Append(@, WithRegions(Instruction(id, "if", <<coord>>, shape, threshold), <<then, else>>))]

\* Part k if the coordinate is below its extent, else the next ones.
RECURSIVE MaterializeBranch(_, _, _, _, _, _)
MaterializeBranch(m, ins, layout, coords, shape, k) ==
    LET dim == layout.dim
        last == k = Len(layout.sources)
        threshold == SourceShape(layout.sources[k])[dim]
        Rest(sub) == MaterializeBranch(sub, ins, layout, Replaced(coords, dim, sub.value), shape, k + 1)
        Below(then) ==
            Then(InRegion(then.m, Rest(Emit(Entering(then.m), "index_sub", <<coords[dim]>>, <<>>, threshold))),
                 LAMBDA else : IfBelow(else.m, m.next, coords[dim], threshold, shape, then.region, else.region))
        branch == IF last THEN m ELSE [m EXCEPT !.next = @ + 1]
        part   == Materialize(IF last THEN m ELSE Entering(branch), ins[layout.args[k]], layout.sources[k], coords, shape)
    IN  IF last THEN part ELSE Then(InRegion(branch, part), Below)

MaterializeConcatenate(m, op, layout, coords, shape) ==
    IF layout.kind # "concat" THEN Failed
    ELSE IF shape[layout.dim] # 1 THEN Failed
    ELSE MaterializeBranch(m, op.ins, layout, coords, shape, 1)

RECURSIVE MaterializeOperands(_, _, _, _, _)
MaterializeOperands(m, ins, operandLayouts, coords, shape) ==
    IF operandLayouts = Failed THEN Failed
    ELSE IF ins = <<>> THEN [m |-> m, values |-> <<>>]
    ELSE Then(Materialize(m, Head(ins), Head(operandLayouts), coords, shape), LAMBDA first :
             Then(MaterializeOperands(first, Tail(ins), Tail(operandLayouts), coords, shape),
                  LAMBDA rest : [rest EXCEPT !.values = <<first.value>> \o @]))

MaterializePointwise(m, v, layout, coords, shape) ==
    LET op == Op(graph, v)
    IN  Then(MaterializeOperands(m, op.ins, OperandLayouts(v, layout), coords, shape),
             LAMBDA operands : Emit(operands.m, op.op, operands.values, shape, op.attr))

\* One operation, or what it is another view of.
MaterializeOp(m, v, op, layout, coords, shape) ==
    CASE op.op = "concatenate" -> MaterializeConcatenate(m, op, layout, coords, shape)
      [] op.op = "matmul"      -> MaterializeMatmul(m, op, layout, coords, shape)
      [] op.op = "reduce"      -> MaterializeReduction(m, op, layout, coords, shape)
      [] op.op = "iota"        -> MaterializeIota(m, layout, coords, shape)
      [] op.op \in {"reshape", "broadcast", "transpose", "slice"} -> Materialize(m, op.ins[1], layout, coords, shape)
      [] op.op = "constant"    -> Emit(m, "constant", <<>>, shape, IntTerm(op.attr))
      [] op.op = "splat"       -> Emit(m, "splat", <<>>, shape, op.ins[1])
      [] OTHER                 -> MaterializePointwise(m, v, layout, coords, shape)

Materialize(m, v, layout, coords, shape) ==
    LET key == Tiling(v, layout, coords, shape)
    IN  IF IsArg(graph, v) THEN LoadSource(m, v, layout, coords, shape)
        ELSE Remember(FirstMade(Lookup(m, m.computed, key), MaterializeOp(m, v, Op(graph, v), layout, coords, shape)), key)

(***************************************************************************)
(* The tile of every result, traced back in turn and stored through the    *)
(* result's view in the iteration space.                                   *)
(***************************************************************************)
OutputView(r) ==
    IF normalization.resultViews # <<>> THEN normalization.resultViews[r]
    ELSE Reshape(OutputSource(r), SourceShape(normalization.iterationSpace))

OutputLayout(r) ==
    IF normalization.resultLayouts # <<>> THEN normalization.resultLayouts[r] ELSE normalization.iterationSpace

TileCounts(shape, tile) == [d \in DOMAIN shape |-> (shape[d] + tile[d] - 1) \div tile[d]]

\* The coordinate of dimension d has id d, unless there is only one tile.
GridCoordinates(shape, tile) == [d \in DOMAIN shape |-> IF TileCounts(shape, tile)[d] = 1 THEN 0 ELSE d]

MaterializeResult(m, r, coords, tile) ==
    LET StoreThrough(value, view) == Then(view, LAMBDA w : TiledStore(value, r, LogicalDescriptor(w), coords, tile))
    IN  Then(Materialize(m, graph.results[r].value, OutputLayout(r), coords, tile),
             LAMBDA value : StoreThrough(value, OutputView(r)))

RECURSIVE MaterializeResults(_, _, _, _)
MaterializeResults(m, r, coords, tile) ==
    IF m = Failed \/ r > Len(graph.results) THEN m
    ELSE MaterializeResults(MaterializeResult(m, r, coords, tile), r + 1, coords, tile)

FormedTile(tile) ==
    MaterializeResults(NoTiles(Len(tile) + 1), 1, GridCoordinates(SourceShape(normalization.iterationSpace), tile), tile)
=============================================================================
