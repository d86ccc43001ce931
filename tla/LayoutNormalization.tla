------------------------ MODULE LayoutNormalization ------------------------
(***************************************************************************)
(* Normalization of layout sources: contiguous dimensions are merged, and  *)
(* all sources of a graph's result are brought to one common shape, the    *)
(* iteration space (TensorAttrs.cpp, LayoutPropagation.cpp).               *)
(***************************************************************************)
EXTENDS LayoutSources

ReshapeIfNeeded(source, shape) ==
    IF shape = Failed THEN Failed
    ELSE IF SourceShape(source) = shape THEN source ELSE Reshape(source, shape)

ShapesOf(sources) == [k \in DOMAIN sources |-> SourceShape(sources[k])]

\* Mutant: a stable order of the dimensions as they are, whatever their strides.
ByPosition(leaves) == [i \in DOMAIN leaves |-> i]

ByStride(leaves) == InOrder(DOMAIN leaves, LAMBDA i, j : leaves[i].d > leaves[j].d)

NormalizeComposite(source, parts) ==
    LET ToSpace(space) == [k \in DOMAIN parts |-> ReshapeIfNeeded(parts[k], space)]
    IN  IF parts = Failed THEN Failed
        ELSE WithSources(source, AllOrFailed(ToSpace(CommonIterationSpace(ShapesOf(parts)))))

(***************************************************************************)
(* Concatenation.  The greatest common divisor of the concatenated extents *)
(* moves to the right of the concatenated dimension, which stays a         *)
(* dimension of its own in every part.                                     *)
(***************************************************************************)
Gcd(S) == Max({d \in 1 .. Min(S) : \A n \in S : n % d = 0})

\* The extents left of, along and right of the concatenated dimension.
ConcatExtents(shape, dim) ==
    [left  |-> Volume(SubSeq(shape, 1, dim - 1)), size |-> shape[dim],
     right |-> Volume(SubSeq(shape, dim + 1, Len(shape)))]

PartProfile(e, gcd) ==
    NonUnit(<<e.left>>) \o <<e.size \div gcd>> \o NonUnit(<<gcd * e.right>>)

\* Where the concatenated dimension is in a shape that refines the profile.
RefinedConcatDim(shape, e, gcd) ==
    DimensionWithSuffixProduct(shape, e.size * e.right) + (IF e.size = gcd THEN 0 ELSE 1)

\* The shape that a part asks of the whole.
RefinedWhole(part, e, whole, gcd) ==
    Then(CommonIterationSpace(<<SourceShape(part), PartProfile(e, gcd)>>),
         LAMBDA shape : Replaced(shape, RefinedConcatDim(shape, e, gcd), whole.size \div gcd))

ConcatParts(source, parts, es, gcd, space, dim) ==
    Then(AllOrFailed([k \in DOMAIN parts |-> ReshapeIfNeeded(parts[k], Replaced(space, dim, es[k].size \div gcd))]),
         LAMBDA reshaped : ConcatSource(dim, reshaped, source.args))

NormalizeConcat(source, parts) ==
    LET es    == [k \in DOMAIN source.sources |-> ConcatExtents(SourceShape(source.sources[k]), source.dim)]
        whole == ConcatExtents(SourceShape(source), source.dim)
        gcd   == Gcd({e.size : e \in ToSet(es)})
    IN  IF parts = Failed THEN Failed
        ELSE Then(CommonSpace([k \in DOMAIN parts |-> RefinedWhole(parts[k], es[k], whole, gcd)]),
                  LAMBDA space : ConcatParts(source, parts, es, gcd, space, RefinedConcatDim(space, whole, gcd)))

(***************************************************************************)
(* Reductions.  The underlying source is brought to the order of the view, *)
(* both get a common shape, and broadcast extents are put back.            *)
(***************************************************************************)
\* Modes from the right until they cover the reduction, at least one.
RECURSIVE ContractingLeaves(_, _)
ContractingLeaves(leaves, size) ==
    IF leaves = <<>> THEN <<>>
    ELSE IF Last(leaves).n >= size THEN <<Last(leaves)>>
    ELSE LET outer == ContractingLeaves(Front(leaves), (size + Last(leaves).n - 1) \div Last(leaves).n)
         IN  Append(outer, Last(leaves))

InsertAfter(seq, i, x) == SubSeq(seq, 1, i) \o <<x>> \o SubSeq(seq, i + 1, Len(seq))

\* Leaves of the view that are not broadcast.
Kept(leaf) == leaf.d # 0 \/ leaf.n = 1
KeptLeaves(leaves) == SelectSeq(leaves, Kept)

\* The underlying source in the order of the view's leaves.
UnderlyingInViewOrder(source) ==
    LET kept == KeptLeaves(Coalesce(source.view))
        order == ByStride(kept)
        Permuted(s) == IF IsIdentity(order) THEN s ELSE Transpose(s, InversePermutation(order))
    IN  Then(ReshapeIfNeeded(source.source, [i \in DOMAIN order |-> kept[order[i]].n]), Permuted)

\* Broadcast leaves, innermost first: the extent, and the number of positions inside.
BroadcastLeaves(leaves) ==
    Reverse(SelectSeq([i \in DOMAIN leaves |->
                          [leaf |-> leaves[i], inner |-> Volume(Sizes(KeptLeaves(SubSeq(leaves, i + 1, Len(leaves)))))]],
                      LAMBDA e : ~Kept(e.leaf)))

\* The shape that keeps the places of the broadcast extents apart.
ShapeBetween(expanded, total, size) ==
    LET Previous(i) == IF i = 1 THEN size ELSE expanded[i - 1].inner
        gaps == NonUnit([i \in DOMAIN expanded |-> expanded[i].inner \div Previous(i)])
        rest == total \div Previous(Len(expanded) + 1)
    IN  (IF rest > 1 \/ expanded = <<>> THEN <<rest>> ELSE <<>>) \o Reverse(gaps) \o <<size>>

ReductionModes(space, expanded, size) ==
    LET InsertLeaf(leaves, e) ==
            InsertAfter(leaves, DimensionWithSuffixProduct(space, e.inner), Leaf(e.leaf.n, 0))
        leaves == FoldLeft(InsertLeaf, Leaves(Compact(space)), expanded)
        last   == ContractingLeaves(leaves, size)
    IN  Append(Scalars(SubSeq(leaves, 1, Len(leaves) - Len(last))), last)

ReductionInSpace(normal, space, expanded, size) ==
    Then(ReshapeIfNeeded(normal, space),
         LAMBDA source : ReductionSource(ReductionModes(space, expanded, size), source))

\* normal is the underlying source, normalized in the order of the view.
NormalizeReduction(source, normal) ==
    LET flat  == Coalesce(source.view)
        shape == ShapeBetween(BroadcastLeaves(flat), Volume(Sizes(KeptLeaves(flat))), ReductionSize(source))
    IN  IF normal = Failed THEN Failed
        ELSE ReductionInSpace(normal, CommonIterationSpace(<<SourceShape(normal), shape>>),
                              BroadcastLeaves(flat), ReductionSize(source))

(***************************************************************************)
(* Matmuls.  Batch, row, column and contracting dimensions each get the    *)
(* common factors of the operands and of the view.                         *)
(***************************************************************************)
\* The parts of a leaf that lie between two suffix products of the profile.
RECURSIVE SplitAt(_, _)
SplitAt(leaf, bounds) ==
    IF bounds = <<>> THEN <<>>
    ELSE LET n == Head(bounds) \div leaf.d
         IN  IF leaf.d >= Head(bounds) THEN SplitAt(leaf, Tail(bounds))
             ELSE IF leaf.n <= n THEN <<leaf>>
             ELSE Append(SplitAt(Leaf(leaf.n \div n, leaf.d * n), Tail(bounds)), Leaf(n, leaf.d))

NormalizeLayout(layout, profile) ==
    LET bounds == [i \in DOMAIN profile |-> Volume(SubSeq(profile, Len(profile) + 1 - i, Len(profile)))]
        flat   == Coalesce(layout)
    IN  FlattenSeq([i \in DOMAIN flat |-> IF flat[i].d = 0 THEN <<flat[i]>> ELSE SplitAt(flat[i], bounds)])

ExtractSizes(leaves, start, size) ==
    LET inRange == SelectSeq(leaves, LAMBDA leaf : start <= leaf.d /\ leaf.d < start * size)
        order   == ByStride(inRange)
    IN  [i \in DOMAIN order |-> inRange[order[i]].n]

\* The normalized operand's extents, split by those of the contraction.
SplitShape(normal, profile) ==
    IF normal = Failed THEN Failed
    ELSE CommonIterationSpace(<<NonUnit(SourceShape(normal)), NonUnit(profile)>>)

OrUnit(shape) == IF shape = <<>> THEN <<1>> ELSE shape

\* Batch, row, column and contracting extents, from those of the operands.
MatmulGroups(size, view, lhs, rhs) ==
    LET b == size.b  m == size.m  n == size.n  k == size.k
        lhsM == DimensionWithSuffixProduct(lhs, m * k)
        lhsK == DimensionWithSuffixProduct(lhs, k)
        rhsK == DimensionWithSuffixProduct(rhs, k * n)
        rhsN == DimensionWithSuffixProduct(rhs, n)
        output == NormalizeLayout(view, <<b, m, n, k>>)
    IN  <<IF b = 1 THEN <<>>
          ELSE CommonIterationSpace(<<SubSeq(lhs, 1, lhsM), SubSeq(rhs, 1, rhsK), ExtractSizes(output, m * n * k, b)>>),
          CommonIterationSpace(<<SubSeq(lhs, lhsM + 1, lhsK), ExtractSizes(output, n * k, m)>>),
          CommonIterationSpace(<<SubSeq(rhs, rhsN + 1, Len(rhs)), ExtractSizes(output, k, n)>>),
          CommonIterationSpace(<<SubSeq(lhs, lhsK + 1, Len(lhs)), SubSeq(rhs, rhsK + 1, rhsN)>>)>>

\* The last mode has the innermost leaves, as many as are contracted.
MatmulModes(leaves, contracted) ==
    LET outer == Len(leaves) - contracted
    IN  Append(Scalars(SubSeq(leaves, 1, outer)),
               IF contracted = 0 THEN <<Leaf(1, 0)>> ELSE SubSeq(leaves, outer + 1, Len(leaves)))

MatmulOver(source, batch, rows, cols, contracting) ==
    LET leaves == NormalizeLayout(source.view, batch \o rows \o cols \o contracting)
        operands == <<ReshapeIfNeeded(source.lhs, OrUnit(batch \o rows \o contracting)),
                      ReshapeIfNeeded(source.rhs, OrUnit(batch \o contracting \o cols))>>
    IN  Then(AllOrFailed(operands),
             LAMBDA s : MatmulSource(MatmulModes(leaves, Len(contracting)), source.size, s[1], s[2]))

NormalizeMatmul(source, lhs, rhs) ==
    IF Failed \in {lhs, rhs} THEN Failed
    ELSE Then(AllOrFailed(MatmulGroups(source.size, source.view, lhs, rhs)),
              LAMBDA g : MatmulOver(source, g[1], g[2], g[3], g[4]))

(***************************************************************************)
(* What a source consists of is normalized first; nullptr stays nullptr.   *)
(***************************************************************************)
RECURSIVE Normalize(_)

NormalizeAll(sources) == AllOrFailed([k \in DOMAIN sources |-> Normalize(sources[k])])

NormalizeOperands(source) ==
    LET z == source.size
    IN  NormalizeMatmul(source, SplitShape(Normalize(source.lhs), <<z.b, z.m, z.k>>),
                                SplitShape(Normalize(source.rhs), <<z.b, z.k, z.n>>))

Normalize(source) ==
    IF source = Failed THEN Failed
    ELSE CASE source.kind = "tensor"    -> [source EXCEPT !.layout = Scalars(Coalesce(source.layout))]
           [] source.kind = "composite" -> NormalizeComposite(source, NormalizeAll(source.sources))
           [] source.kind = "concat"    -> NormalizeConcat(source, NormalizeAll(source.sources))
           [] source.kind = "reduction" -> NormalizeReduction(source, Normalize(UnderlyingInViewOrder(source)))
           [] source.kind = "matmul"    -> NormalizeOperands(source)

(***************************************************************************)
(* Reshaping a reduction or a matmul changes its view only; afterwards the *)
(* underlying sources get the shape that the view has.                     *)
(***************************************************************************)
ReductionUnderlying(source) ==
    LET kept == SelectSeq(Leaves(OuterModes(source.view)), LAMBDA leaf : leaf.d # 0)
    IN  ReshapeIfNeeded(source.source, Sizes(kept) \o ContractingShape(source.view))

MatmulUnderlying(source) ==
    LET flat == Leaves(source.view)
        order == ByStride(flat)
        k == source.size.k  n == source.size.n  m == source.size.m
        Part(from, to) == LET inPart == SelectSeq([i \in DOMAIN order |-> flat[order[i]]],
                                                  LAMBDA leaf : leaf.d # 0 /\ from <= leaf.d /\ leaf.d < to)
                          IN  Sizes(inPart)
        contracting == Part(0, k)
        batch == Part(k * n * m, k * n * m * source.size.b + 1)
    IN  <<ReshapeIfNeeded(source.lhs, OrUnit(batch \o Part(k * n, k * n * m) \o contracting)),
          ReshapeIfNeeded(source.rhs, OrUnit(batch \o contracting \o Part(k, k * n)))>>

RECURSIVE RebuildLayoutFixReductions(_)
RebuildLayoutFixReductions(source) ==
    IF source = Failed THEN Failed
    ELSE CASE source.kind = "tensor" -> source
           [] source.kind \in {"composite", "concat"} -> MapSources(source, RebuildLayoutFixReductions)
           [] source.kind = "reduction" ->
                 Then(RebuildLayoutFixReductions(ReductionUnderlying(source)),
                      LAMBDA rebuilt : [source EXCEPT !.source = rebuilt])
           [] source.kind = "matmul" ->
                 Then(AllOrFailed([k \in 1 .. 2 |-> RebuildLayoutFixReductions(MatmulUnderlying(source)[k])]),
                      LAMBDA rebuilt : [source EXCEPT !.lhs = rebuilt[1], !.rhs = rebuilt[2]])
=============================================================================
