--------------------------- MODULE LayoutSources ---------------------------
(***************************************************************************)
(* Layout source attributes: which elements of the graph's inputs an       *)
(* element of a tensor is computed from, kept through reshapes,            *)
(* broadcasts, transposes and slices (TensorAttrs.cpp).                    *)
(*                                                                         *)
(* Scan-slice sources and dynamic extents are left out.                    *)
(***************************************************************************)
EXTENDS LayoutAlgebra

TensorSource(id, offset, layout) ==
    [kind |-> "tensor", id |-> id, offset |-> offset, layout |-> layout]
CompositeSource(sources)   == [kind |-> "composite", sources |-> sources]
\* Part k of a concatenation is its operand args[k]: a slice may drop parts.
ConcatSource(dim, sources, args) == [kind |-> "concat", dim |-> dim, sources |-> sources, args |-> args]
ReductionSource(view, source) == [kind |-> "reduction", view |-> view, source |-> source]
MatmulSource(view, size, lhs, rhs) ==
    [kind |-> "matmul", view |-> view, size |-> size, lhs |-> lhs, rhs |-> rhs]

OuterModes(view)       == Front(view)                   \* of a reduction or matmul view
ContractingShape(view) == Extents(Last(view))
ReductionSize(source)  == ModeSize(Last(source.view))

(***************************************************************************)
(* Shapes                                                                  *)
(***************************************************************************)
RECURSIVE SourceShape(_)

ShapeAlong(sources, dim) == SumOf([k \in DOMAIN sources |-> SourceShape(sources[k])[dim]])

TensorShapeOf(source)    == Shape(source.layout)
CompositeShape(source)   == SourceShape(source.sources[1])
ConcatShape(source)      ==
    Replaced(SourceShape(source.sources[1]), source.dim, ShapeAlong(source.sources, source.dim))
ReductionShapeOf(source) == Shape(OuterModes(source.view))
MatmulShape(source)      == Shape(OuterModes(source.view))

SourceShape(source) ==
    CASE source.kind = "tensor"    -> TensorShapeOf(source)
      [] source.kind = "composite" -> CompositeShape(source)
      [] source.kind = "concat"    -> ConcatShape(source)
      [] source.kind = "reduction" -> ReductionShapeOf(source)
      [] source.kind = "matmul"    -> MatmulShape(source)

(***************************************************************************)
(* Reshape, broadcast and transpose.  A reduction or a matmul applies them *)
(* to its view, whose last mode holds the contracting dimensions.          *)
(***************************************************************************)
BroadcastLayout(layout, shape) ==
    LET old == Shape(layout)
    IN  IF Len(old) # Len(shape) \/ \E i \in DOMAIN old : old[i] # shape[i] /\ old[i] # 1 THEN Failed
        ELSE [i \in DOMAIN old |-> IF old[i] = shape[i] THEN layout[i] ELSE <<Leaf(shape[i], 0)>>]

\* Mutant: the permutation is applied in the opposite direction.
TransposeLayoutInverse(layout, perm) ==
    IF Len(perm) # Len(layout) \/ ToSet(perm) # DOMAIN layout THEN Failed
    ELSE [i \in DOMAIN perm |-> layout[CHOOSE o \in DOMAIN perm : perm[o] = i]]

TransposeLayout(layout, perm) ==
    IF Len(perm) # Len(layout) \/ ToSet(perm) # DOMAIN layout THEN Failed
    ELSE [i \in DOMAIN perm |-> layout[perm[i]]]

WithSources(source, sources) == Then(sources, LAMBDA s : [source EXCEPT !.sources = s])
WithView(source, view)       == Then(view, LAMBDA v : [source EXCEPT !.view = v])
WithLayout(source, layout)   == Then(layout, LAMBDA l : [source EXCEPT !.layout = l])

MapSources(source, Move(_)) ==
    WithSources(source, AllOrFailed([k \in DOMAIN source.sources |-> Move(source.sources[k])]))

RECURSIVE Reshape(_, _)

ReshapeTensor(source, shape)    == WithLayout(source, Composition(source.layout, shape))
ReshapeComposite(source, shape) == MapSources(source, LAMBDA s : Reshape(s, shape))

\* The concatenated dimension may not be joined with one to its left.
ReshapeConcatAt(source, shape, old, dim) ==
    LET Part(s) == Replaced(shape, dim, (shape[dim] * SourceShape(s)[source.dim]) \div old[source.dim])
    IN  MapSources([source EXCEPT !.dim = dim], LAMBDA s : Reshape(s, Part(s)))

ReshapeConcat(source, shape) ==
    LET old == SourceShape(source)
    IN  IF Volume(shape) # Volume(old) THEN Failed
        ELSE Then(DimensionWithSuffixProduct(shape, Volume(SubSeq(old, source.dim, Len(old)))),
                  LAMBDA split : ReshapeConcatAt(source, shape, old, split + 1))

ReshapeReduction(source, shape) ==
    Then(Composition(source.view, Append(shape, ReductionSize(source))),
         LAMBDA view : WithView(source, Append(Front(view), Last(source.view))))
ReshapeMatmul(source, shape) == WithView(source, Composition(source.view, Append(shape, source.size.k)))

Reshape(source, shape) ==
    CASE source.kind = "tensor"    -> ReshapeTensor(source, shape)
      [] source.kind = "composite" -> ReshapeComposite(source, shape)
      [] source.kind = "concat"    -> ReshapeConcat(source, shape)
      [] source.kind = "reduction" -> ReshapeReduction(source, shape)
      [] source.kind = "matmul"    -> ReshapeMatmul(source, shape)

RECURSIVE Broadcast(_, _)

BroadcastTensor(source, shape)    == WithLayout(source, BroadcastLayout(source.layout, shape))
BroadcastComposite(source, shape) == MapSources(source, LAMBDA s : Broadcast(s, shape))
BroadcastConcat(source, shape) ==
    LET old == SourceShape(source)
    IN  IF Len(shape) # Len(old) \/ old[source.dim] # shape[source.dim] THEN Failed
        ELSE MapSources(source, LAMBDA s : Broadcast(s, Replaced(shape, source.dim, SourceShape(s)[source.dim])))
BroadcastReduction(source, shape) ==
    WithView(source, BroadcastLayout(source.view, Append(shape, ReductionSize(source))))
BroadcastMatmul(source, shape)    == WithView(source, BroadcastLayout(source.view, Append(shape, source.size.k)))

Broadcast(source, shape) ==
    CASE source.kind = "tensor"    -> BroadcastTensor(source, shape)
      [] source.kind = "composite" -> BroadcastComposite(source, shape)
      [] source.kind = "concat"    -> BroadcastConcat(source, shape)
      [] source.kind = "reduction" -> BroadcastReduction(source, shape)
      [] source.kind = "matmul"    -> BroadcastMatmul(source, shape)

RECURSIVE Transpose(_, _)

TransposeTensor(source, perm)    == WithLayout(source, TransposeLayout(source.layout, perm))
TransposeComposite(source, perm) == MapSources(source, LAMBDA s : Transpose(s, perm))

\* Mutant: the concatenated dimension moves in the opposite direction.
TransposeConcatInverse(source, perm) ==
    MapSources([source EXCEPT !.dim = perm[@]], LAMBDA s : Transpose(s, perm))

TransposeConcat(source, perm) ==
    MapSources([source EXCEPT !.dim = CHOOSE i \in DOMAIN perm : perm[i] = @], LAMBDA s : Transpose(s, perm))

TransposeReduction(source, perm) == WithView(source, TransposeLayout(source.view, Append(perm, Len(perm) + 1)))
TransposeMatmul(source, perm)    == WithView(source, TransposeLayout(source.view, Append(perm, Len(perm) + 1)))

Transpose(source, perm) ==
    CASE source.kind = "tensor"    -> TransposeTensor(source, perm)
      [] source.kind = "composite" -> TransposeComposite(source, perm)
      [] source.kind = "concat"    -> TransposeConcat(source, perm)
      [] source.kind = "reduction" -> TransposeReduction(source, perm)
      [] source.kind = "matmul"    -> TransposeMatmul(source, perm)

(***************************************************************************)
(* Slices.  Within one mode the slice goes from the fastest leaf outwards, *)
(* with the elements and the step that are left.                           *)
(***************************************************************************)
RECURSIVE SliceLeaves(_, _, _, _)
SliceLeaves(mode, coord, count, step) ==
    LET leaf  == Last(mode)
        start == Last(coord)
        fits  == leaf.n \div step
        Outer(n, s) == SliceLeaves(Front(mode), Front(coord), n, s)
    IN  IF start + (count - 1) * step < leaf.n
        THEN <<Leaf(count, IF count > 1 THEN step * leaf.d ELSE 0)>>
        ELSE IF leaf.n % step = 0 /\ start < step /\ fits > 1 /\ count % fits = 0
        THEN Then(Outer(count \div fits, 1), LAMBDA outer : Append(outer, Leaf(fits, step * leaf.d)))
        ELSE IF step % leaf.n = 0 THEN Outer(count, step \div leaf.n) ELSE Failed

SliceLayout(layout, s) ==
    LET Count(i) == (s.limits[i] - s.starts[i] + s.strides[i] - 1) \div s.strides[i]
    IN  AllOrFailed([i \in DOMAIN layout |->
            SliceLeaves(layout[i], Unravel(s.starts[i], Extents(layout[i])), Count(i), s.strides[i])])

SliceInBounds(shape, s) ==
    \A i \in DOMAIN shape : s.limits[i] > s.starts[i] /\ s.limits[i] <= shape[i]

RECURSIVE Slice(_, _)

\* The parts from k on that the slice reaches, each from where its predecessor left off.
RECURSIVE SliceParts(_, _, _, _, _)
SliceParts(source, k, s, start, end) ==
    LET dim    == source.dim
        size   == SourceShape(source.sources[k])[dim]
        step   == s.strides[dim]
        tail   == (size - start) % step
        next   == IF tail = 0 THEN 0 ELSE step - tail
        last   == size + next >= end \/ k = Len(source.sources)
        With(others) ==
            Then(Slice(source.sources[k], [s EXCEPT !.starts[dim] = start, !.limits[dim] = Min({end, size})]),
                 LAMBDA sliced : ConcatSource(dim, <<sliced>> \o others.sources, <<source.args[k]>> \o others.args))
    IN  IF start >= size THEN SliceParts(source, k + 1, s, start - size, end - size)
        ELSE IF last THEN With(ConcatSource(dim, <<>>, <<>>))
        ELSE Then(SliceParts(source, k + 1, s, next, end - size), With)

SliceTensor(source, s) ==
    IF ~SliceInBounds(Shape(source.layout), s) THEN Failed
    ELSE Then(SliceLayout(source.layout, s), LAMBDA sliced :
             TensorSource(source.id, source.offset + Offset(source.layout, s.starts), sliced))
SliceComposite(source, s) == MapSources(source, LAMBDA part : Slice(part, s))
SliceConcat(source, s) ==
    LET d == source.dim
    IN  IF s.limits[d] <= s.starts[d] \/ s.limits[d] > SourceShape(source)[d] THEN Failed
        ELSE SliceParts(source, 1, s, s.starts[d], s.limits[d])

\* Slices of reductions and matmuls are not supported.
Slice(source, s) ==
    CASE source.kind = "tensor"    -> SliceTensor(source, s)
      [] source.kind = "composite" -> SliceComposite(source, s)
      [] source.kind = "concat"    -> SliceConcat(source, s)
      [] OTHER                     -> Failed

(***************************************************************************)
(* The verifiers of the attributes.                                        *)
(***************************************************************************)
CompositeVerified(source) ==
    source.sources # <<>> /\ \A s \in ToSet(source.sources) : SourceShape(s) = CompositeShape(source)

ConcatVerified(source) ==
    /\ source.sources # <<>>
    /\ \A s \in ToSet(source.sources) :
          Replaced(SourceShape(s), source.dim, 1) = Replaced(SourceShape(source.sources[1]), source.dim, 1)

\* The strides that are left cover the source without gaps.
ReductionVerified(source) ==
    LET parts == SelectSeq(Leaves(source.view), LAMBDA leaf : leaf.d # 0 /\ leaf.n # 1)
        order == InOrder(DOMAIN parts, LAMBDA i, j : parts[i].d < parts[j].d)
        Volume0 == Volume(SourceShape(source.source))
    IN  /\ \A k \in 2 .. Len(order) : parts[order[k]].d = parts[order[k - 1]].d * parts[order[k - 1]].n
        /\ Volume(Sizes(parts)) = Volume0
        /\ parts = <<>> => Volume0 = 1

MatmulSourceVerified(source) ==
    LET b == source.size.b  m == source.size.m  n == source.size.n  k == source.size.k
    IN  /\ Volume(SourceShape(source.lhs)) = b * m * k
        /\ Volume(SourceShape(source.rhs)) = b * n * k
        /\ Volume(Sizes(SelectSeq(Leaves(source.view), LAMBDA leaf : leaf.d # 0))) = b * m * n * k

RECURSIVE SourceVerified(_)
SourceVerified(source) ==
    CASE source.kind = "tensor"    -> TRUE
      [] source.kind = "composite" -> CompositeVerified(source) /\ \A s \in ToSet(source.sources) : SourceVerified(s)
      [] source.kind = "concat"    -> ConcatVerified(source) /\ \A s \in ToSet(source.sources) : SourceVerified(s)
      [] source.kind = "reduction" -> ReductionVerified(source) /\ SourceVerified(source.source)
      [] source.kind = "matmul"    -> MatmulSourceVerified(source) /\ SourceVerified(source.lhs) /\ SourceVerified(source.rhs)
=============================================================================
