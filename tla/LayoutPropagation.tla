------------------------- MODULE LayoutPropagation -------------------------
(***************************************************************************)
(* Forward propagation of layout sources through the operations of a       *)
(* graph, and their normalization to the iteration space that the grid is  *)
(* formed on (lib/Analysis/LayoutPropagation.cpp).                         *)
(***************************************************************************)
EXTENDS LayoutNormalization

VARIABLES layouts,                   \* value -> layout source
          layoutOps,                 \* operations processed
          normalization,             \* LayoutNormalization, or Failed
          layoutStatus               \* "propagating", "normalizing", "done", "failed"

layoutVars == <<layouts, layoutOps, normalization, layoutStatus>>

Structured == {"constant", "splat", "iota", "matmul", "concatenate", "slice",
               "reshape", "broadcast", "transpose", "reduce"}
IsElementwise(op) == op.op \notin Structured

BufferLayout(shape, strides) ==
    LET s == StridesOf(shape, strides) IN [d \in DOMAIN shape |-> <<Leaf(shape[d], s[d])>>]

InputSource(v) == TensorSource(v, 0, BufferLayout(graph.args[v].shape, graph.args[v].strides))

OutputSource(r) ==
    TensorSource(NumArgs(graph) + r, 0,
                 BufferLayout(ShapeOf(graph, graph.results[r].value), graph.results[r].strides))

(***************************************************************************)
(* One operation                                                           *)
(***************************************************************************)
Synthetic(shape, strides) == TensorSource(-1, 0, [d \in DOMAIN shape |-> <<Leaf(shape[d], strides[d])>>])

\* The distinct sources of the operands, in order.
CombinedSources(sources) ==
    LET flat == FlattenSeq([k \in DOMAIN sources |->
                    IF sources[k].kind = "composite" THEN sources[k].sources ELSE <<sources[k]>>])
        distinct == FoldLeft(LAMBDA acc, s : IF Contains(acc, s) THEN acc ELSE Append(acc, s), <<>>, flat)
    IN  IF Len(distinct) = 1 THEN distinct[1] ELSE CompositeSource(distinct)

\* Reduced dimensions become unit dimensions or disappear, and form the last mode.
ReductionView(shape, dims, drops) ==
    LET flat == Compact(shape)
        outer == [d \in DOMAIN shape |-> IF d \in ToSet(dims) THEN <<Leaf(1, 0)>> ELSE flat[d]]
        kept == SelectSeq([d \in DOMAIN shape |-> d], LAMBDA d : ~drops \/ d \notin ToSet(dims))
    IN  Append([i \in DOMAIN kept |-> outer[kept[i]]], [j \in DOMAIN dims |-> flat[dims[j]][1]])

MatmulView(op, lhsShape) ==
    LET n == Len(op.shape)
        k == Last(lhsShape)
    IN  [view |-> Compact(Append(op.shape, k)),
         size |-> [b |-> Volume(SubSeq(op.shape, 1, n - 2)), m |-> op.shape[n - 1], n |-> op.shape[n], k |-> k]]

InferResultLayout(op, sources) ==
    CASE op.op = "reduce" ->
            LET shape == SourceShape(sources[1])
            IN  ReductionSource(ReductionView(shape, op.attr.dims, Len(op.shape) # Len(shape)), sources[1])
      [] op.op = "matmul" ->
            LET v == MatmulView(op, ShapeOf(graph, op.ins[1]))
            IN  MatmulSource(v.view, v.size, sources[1], sources[2])
      [] op.op = "concatenate" -> ConcatSource(op.attr, sources, [k \in DOMAIN sources |-> k])
      [] op.op = "reshape"     -> Reshape(sources[1], op.shape)
      [] op.op = "broadcast"   -> Broadcast(sources[1], op.shape)
      [] op.op = "transpose"   -> Transpose(sources[1], op.attr)
      [] op.op = "slice"       -> Slice(sources[1], op.attr)
      [] OTHER                 -> IF Len(sources) > 1 THEN CombinedSources(sources) ELSE sources[1]

ResultLayout(op) ==
    CASE op.op \in {"constant", "splat"} -> Synthetic(op.shape, [d \in DOMAIN op.shape |-> 0])
      [] op.op = "iota" -> Synthetic(op.shape, [d \in DOMAIN op.shape |-> IF d = op.attr THEN 1 ELSE 0])
      [] OTHER -> IF ToSet(op.ins) \subseteq DOMAIN layouts
                  THEN InferResultLayout(op, [k \in DOMAIN op.ins |-> layouts[op.ins[k]]])
                  ELSE Failed

(***************************************************************************)
(* A carrier: the value in whose coordinates all results are expressed.    *)
(***************************************************************************)
RECURSIVE Ancestors(_)
Ancestors(v) ==
    {v} \cup IF IsArg(graph, v) THEN {} ELSE UNION {Ancestors(w) : w \in ToSet(Op(graph, v).ins)}

\* Every way of putting unit dimensions between those of a shape.
UnitInsertions(shape, carrier) ==
    LET At(S) == [j \in DOMAIN carrier |-> IF j \in S THEN shape[Cardinality({i \in S : i <= j})] ELSE 1]
    IN  {At(S) : S \in {S \in kSubset(Len(shape), DOMAIN carrier) : \A j \in S : At(S)[j] \in {carrier[j], 1}}}

FirstMade(a, b) == IF a # Failed THEN a ELSE b
OnlyElement(S)  == IF Cardinality(S) = 1 THEN CHOOSE x \in S : TRUE ELSE Failed

UnitLifts(source, carrier) ==
    {Then(Reshape(source, shape), LAMBDA r : Broadcast(r, carrier)) :
        shape \in UnitInsertions(SourceShape(source), carrier)} \ {Failed}

LiftLayoutToCarrier(source, carrier) ==
    IF SourceShape(source) = carrier THEN source
    ELSE FirstMade(Broadcast(source, carrier),
         FirstMade(Reshape(source, carrier),
                   IF Len(SourceShape(source)) >= Len(carrier) THEN Failed ELSE OnlyElement(UnitLifts(source, carrier))))

\* Transposes and reshapes next to the result are undone on the way to the
\* carrier.  The sources are those of the result's layout and of its view.
RECURSIVE LiftedAlong(_, _, _, _)
LiftedAlong(v, anchor, sources, transport) ==
    LET op == Op(graph, v)
    IN  IF sources = Failed THEN {}
        ELSE IF v = anchor
        THEN {AllOrFailed([k \in 1 .. 2 |-> LiftLayoutToCarrier(sources[k], ShapeOf(graph, anchor))])} \ {Failed}
        ELSE IF anchor \notin Ancestors(v) THEN {}
        ELSE IF transport /\ op.op = "transpose"
        THEN LiftedAlong(op.ins[1], anchor,
                         AllOrFailed([k \in 1 .. 2 |-> Transpose(sources[k], InversePermutation(op.attr))]), TRUE)
        ELSE IF transport /\ op.op = "reshape"
        THEN LiftedAlong(op.ins[1], anchor,
                         AllOrFailed([k \in 1 .. 2 |-> Reshape(sources[k], ShapeOf(graph, op.ins[1]))]), TRUE)
        ELSE UNION {LiftedAlong(w, anchor, sources, transport /\ IsElementwise(op)) :
                       w \in {w \in ToSet(op.ins) : ~IsScalar(graph, w)}}

LiftResultToCarrier(r, anchor) ==
    LET v == graph.results[r].value IN OnlyElement(LiftedAlong(v, anchor, <<layouts[v], OutputSource(r)>>, TRUE))

IsCarrierAnchor(v) == ~IsScalar(graph, v) /\ (IsArg(graph, v) \/ Op(graph, v).op \notin {"constant", "splat"})

CommonValues ==
    {v \in Values(graph) :
        /\ IsCarrierAnchor(v)
        /\ \A r \in DOMAIN graph.results : v \in Ancestors(graph.results[r].value)
        /\ \A r \in DOMAIN graph.results : LiftResultToCarrier(r, v) # Failed}

\* The value most downstream of a shape, or of all shapes if they differ.
DeriveCommonCarrier(common) ==
    LET elements(v) == Volume(ShapeOf(graph, v))
        maximal == {v \in common : \A w \in common : elements(w) <= elements(v)}
        shapes  == {ShapeOf(graph, v) : v \in maximal}
        below   == {v \in maximal : maximal \subseteq Ancestors(v)}
        eligible == {v \in maximal : \A s \in shapes : \E w \in Ancestors(v) \cap maximal : ShapeOf(graph, w) = s}
        Later(selected, v) == IF selected = 0 \/ selected \in Ancestors(v) THEN v ELSE selected
    IN  IF maximal = {} THEN Failed
        ELSE IF Cardinality(shapes) = 1 THEN IF below = {} THEN Min(maximal) ELSE Min(below)
        ELSE IF Cardinality({ShapeOf(graph, v) : v \in eligible}) # 1 THEN Failed
        ELSE FoldLeft(Later, 0, InOrder(eligible, LAMBDA v, w : v < w))

(***************************************************************************)
(* Normalization                                                           *)
(***************************************************************************)
Normalization(space, resultLayouts, resultViews) ==
    [iterationSpace |-> space, resultLayouts |-> resultLayouts, resultViews |-> resultViews]

NormalizeSingleResult ==
    LET combined == CompositeSource(<<layouts[graph.results[1].value], OutputSource(1)>>)
        Layout(normal) == RebuildLayoutFixReductions(normal.sources[1])
    IN  Then(Then(Normalize(combined), Layout), LAMBDA space : Normalization(space, <<>>, <<>>))

\* The results' layouts, then their views, in the coordinates of the carrier.
LiftResultsToCarrier(anchor) ==
    LET n == Len(graph.results)
        Combined(lifted) == CompositeSource([k \in 1 .. 2 * n |-> IF k <= n THEN lifted[k][1] ELSE lifted[k - n][2]])
    IN  IF anchor = Failed THEN Failed
        ELSE Then(AllOrFailed([r \in 1 .. n |-> LiftResultToCarrier(r, anchor)]), Combined)

NormalizeMultipleResults ==
    LET n == Len(graph.results)
        Space(rebuilt) == IF Cardinality(ToSet(rebuilt)) = 1 THEN rebuilt[1] ELSE CompositeSource(SetToSeq(ToSet(rebuilt)))
        OfResults(normal) ==
            Then(AllOrFailed([r \in 1 .. n |-> RebuildLayoutFixReductions(normal.sources[r])]),
                 LAMBDA rebuilt : Normalization(Space(rebuilt), rebuilt, SubSeq(normal.sources, n + 1, 2 * n)))
    IN  Then(Normalize(LiftResultsToCarrier(DeriveCommonCarrier(CommonValues))), OfResults)

(***************************************************************************)
(* The analysis                                                            *)
(***************************************************************************)
LayoutInit ==
    /\ layouts = [v \in Inputs |-> InputSource(v)]
    /\ layoutOps = 0
    /\ normalization = Failed
    /\ layoutStatus = IF graph.ops = <<>> THEN "normalizing" ELSE "propagating"

ProcessOperation ==
    /\ layoutStatus = "propagating"
    /\ \E v \in {NumArgs(graph) + layoutOps + 1} : \E layout \in {ResultLayout(Op(graph, v))} :
          IF layout = Failed
          THEN /\ layoutStatus' = "failed" /\ UNCHANGED <<layouts, layoutOps>>
          ELSE /\ layouts' = (v :> layout) @@ layouts
               /\ layoutOps' = layoutOps + 1
               /\ layoutStatus' = IF layoutOps + 1 = Len(graph.ops) THEN "normalizing" ELSE "propagating"
    /\ UNCHANGED <<graph, normalization>>

NormalizeLayouts ==
    /\ layoutStatus = "normalizing"
    /\ normalization' = IF Len(graph.results) = 1 THEN NormalizeSingleResult ELSE NormalizeMultipleResults
    /\ layoutStatus' = IF normalization' = Failed THEN "failed" ELSE "done"
    /\ UNCHANGED <<graph, layouts, layoutOps>>

LayoutNext == ProcessOperation \/ NormalizeLayouts

(***************************************************************************)
(* What a layout source stands for: the input elements that the element at *)
(* a coordinate is computed from.                                          *)
(***************************************************************************)
RECURSIVE Reads(_, _)
Reads(source, c) ==
    CASE source.kind = "tensor" ->
            IF source.id = -1 THEN {} ELSE {InputTerm(source.id, source.offset + Offset(source.layout, c))}
      [] source.kind = "composite" -> UNION {Reads(s, c) : s \in ToSet(source.sources)}
      [] source.kind = "concat" ->
            LET Before(k) == ShapeAlong(SubSeq(source.sources, 1, k - 1), source.dim)
                k == CHOOSE k \in DOMAIN source.sources :
                        Before(k) <= c[source.dim] /\ c[source.dim] < Before(k) + SourceShape(source.sources[k])[source.dim]
            IN  Reads(source.sources[k], Replaced(c, source.dim, c[source.dim] - Before(k)))
      [] source.kind = "reduction" ->
            UNION {Reads(source.source, Unravel(Offset(source.view, Append(c, r)), SourceShape(source.source))) :
                      r \in 0 .. ReductionSize(source) - 1}
      [] source.kind = "matmul" ->
            LET size == source.size
                Point(k) == Unravel(Offset(source.view, Append(c, k)), <<size.b, size.m, size.n, size.k>>)
                Lhs(p) == Unravel((p[1] * size.m + p[2]) * size.k + p[4], SourceShape(source.lhs))
                Rhs(p) == Unravel((p[1] * size.k + p[4]) * size.n + p[3], SourceShape(source.rhs))
            IN  UNION {Reads(source.lhs, Lhs(Point(k))) \cup Reads(source.rhs, Rhs(Point(k))) : k \in 0 .. size.k - 1}
=============================================================================
