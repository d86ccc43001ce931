--------------------------- MODULE LayoutAlgebra ---------------------------
(***************************************************************************)
(* Layouts with static shapes, last dimension fastest (TCutegen), and the  *)
(* shape arithmetic of the layout attributes (TensorAttrs.cpp).            *)
(*                                                                         *)
(* A layout is a sequence of modes, a mode a sequence of leaves (an extent *)
(* n and a stride d), and a logical coordinate has one number per mode.    *)
(***************************************************************************)
EXTENDS TensorGraph

CONSTANT Failed                         \* nullptr, failure(), an error layout

\* What is made of x, unless making x has failed.
Then(x, Make(_)) == IF x = Failed THEN Failed ELSE Make(x)

\* Failure as soon as one of them has failed.
AllOrFailed(xs) == IF \E x \in ToSet(xs) : x = Failed THEN Failed ELSE xs

InversePermutation(perm) == [d \in DOMAIN perm |-> CHOOSE i \in DOMAIN perm : perm[i] = d]
IsIdentity(perm) == \A d \in DOMAIN perm : perm[d] = d

Leaf(n, d) == [n |-> n, d |-> d]
Extents(mode)  == [j \in DOMAIN mode |-> mode[j].n]
ModeSize(mode) == Volume(Extents(mode))
Shape(layout)  == [i \in DOMAIN layout |-> ModeSize(layout[i])]
Leaves(layout) == FlattenSeq(layout)
Scalars(leaves) == [i \in DOMAIN leaves |-> <<leaves[i]>>]
Sizes(leaves)  == Extents(leaves)

\* The default strides of a shape.
Compact(shape) == [i \in DOMAIN shape |-> <<Leaf(shape[i], RowMajor(shape)[i])>>]

ModeOffset(mode, x) == Dot(Unravel(x, Extents(mode)), [j \in DOMAIN mode |-> mode[j].d])
Offset(layout, c) == SumOf([i \in DOMAIN layout |-> ModeOffset(layout[i], c[i])])

(***************************************************************************)
(* A unit mode left of another one disappears, and a mode folds into the   *)
(* one to its right if advancing it skips exactly that mode.               *)
(***************************************************************************)
CoalesceLeaf(left, right) ==
    IF right # <<>> /\ left.n = 1 THEN right
    ELSE IF right # <<>> /\ left.d = right[1].n * right[1].d
         THEN <<Leaf(left.n * right[1].n, right[1].d)>> \o Tail(right)
         ELSE <<left>> \o right

RECURSIVE CoalesceLeaves(_)
CoalesceLeaves(leaves) ==
    IF leaves = <<>> THEN <<>> ELSE CoalesceLeaf(Head(leaves), CoalesceLeaves(Tail(leaves)))

Coalesce(layout) ==
    LET merged == CoalesceLeaves(Leaves(layout))
    IN  IF \A leaf \in ToSet(merged) : leaf.n = 1 THEN <<Leaf(1, 0)>>
        ELSE IF Last(merged).n = 1 THEN Front(merged) ELSE merged

(***************************************************************************)
(* The layout's positions regrouped to a target shape.  TakeMode consumes  *)
(* the fastest leaves until they cover one target extent; a leaf that is   *)
(* larger is split.                                                        *)
(***************************************************************************)
RECURSIVE TakeMode(_, _)
TakeMode(leaves, size) ==
    IF leaves = <<>> THEN IF size = 1 THEN [mode |-> <<Leaf(1, 0)>>, rest |-> <<>>] ELSE Failed
    ELSE LET leaf == Last(leaves)
         IN  IF leaf.n > size
             THEN IF leaf.n % size # 0 THEN Failed
                  ELSE [mode |-> <<Leaf(size, IF size > 1 THEN leaf.d ELSE 0)>>,
                        rest |-> Append(Front(leaves), Leaf(leaf.n \div size, leaf.d * size))]
             ELSE IF size % leaf.n # 0 THEN Failed
             ELSE IF leaf.n = size THEN [mode |-> <<leaf>>, rest |-> Front(leaves)]
             ELSE IF Len(leaves) = 1 THEN Failed
             ELSE Then(TakeMode(Front(leaves), size \div leaf.n),
                       LAMBDA outer : [mode |-> Append(outer.mode, leaf), rest |-> outer.rest])

RECURSIVE TakeModes(_, _)
TakeModes(leaves, target) ==
    IF target = <<>> THEN IF \A leaf \in ToSet(leaves) : leaf.n = 1 THEN <<>> ELSE Failed
    ELSE Then(TakeMode(leaves, Last(target)), LAMBDA last :
             Then(TakeModes(last.rest, Front(target)), LAMBDA outer : Append(outer, last.mode)))

Composition(layout, target) == TakeModes(Coalesce(layout), target)

(***************************************************************************)
(* A shape that every given shape is a coarsening of, smallest extents     *)
(* first from the right.                                                   *)
(***************************************************************************)
RECURSIVE CommonIterationSpace(_)
CommonIterationSpace(shapes) ==
    LET open == {i \in DOMAIN shapes : shapes[i] # <<>>}
        div  == Min({Last(shapes[i]) : i \in open})
        Reduce(s) == IF s = <<>> THEN s
                     ELSE IF Last(s) = div THEN Front(s) ELSE Append(Front(s), Last(s) \div div)
    IN  IF shapes[1] = <<>>
        THEN IF \E i \in open : Volume(shapes[i]) # 1 THEN Failed
             ELSE [k \in 1 .. Max({Len(shapes[i]) : i \in DOMAIN shapes}) |-> 1]
        ELSE IF \E i \in open : Last(shapes[i]) % div # 0 THEN Failed
        ELSE Then(CommonIterationSpace([i \in DOMAIN shapes |-> Reduce(shapes[i])]),
                  LAMBDA outer : Append(outer, div))

\* The common shape of shapes of which some may have failed.
CommonSpace(shapes) == Then(AllOrFailed(shapes), LAMBDA all : CommonIterationSpace(all))

\* How many leading dimensions remain before the trailing ones with a product.
DimensionWithSuffixProduct(shape, product) ==
    LET at == {i \in 0 .. Len(shape) : Volume(SubSeq(shape, i + 1, Len(shape))) = product}
    IN  IF at = {} THEN Failed ELSE Max(at)

NonUnit(shape) == SelectSeq(shape, LAMBDA n : n # 1)
=============================================================================
