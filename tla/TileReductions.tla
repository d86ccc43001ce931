--------------------------- MODULE TileReductions ---------------------------
(***************************************************************************)
(* Strip mining of the contractions in a tile's code: a reduction or a     *)
(* matmul over a large extent becomes a loop that accumulates smaller      *)
(* tiles, whose producers are cloned into the loop; what a last tile has   *)
(* beyond the extent is padded or masked                                   *)
(* (lib/Transform/TileReductions.cpp).                                     *)
(*                                                                         *)
(* The state of the rewriting is the code and the next id.  Reductions     *)
(* with a user-defined body and those of scan slices are left out.         *)
(***************************************************************************)
EXTENDS LayoutAlgebra, TileCode

CeilDiv(a, b) == (a + b - 1) \div b
PowerOf2Ceil(n) == Min({p \in {2 ^ b : b \in 0 .. n} : p >= n})
Log2(n) == CHOOSE b \in 0 .. n : 2 ^ b = n

\* The bits of the tile size, spread over the dimensions, the first ones rounded up.
RECURSIVE ReductionTileShape(_, _)

\* Mutant: a small extent is its own tile.
ReductionTileShapeExact(shape, size) ==
    LET tile == Min({2 ^ CeilDiv(Log2(size), Len(shape)), Head(shape)})
    IN  IF shape = <<>> THEN <<>> ELSE <<tile>> \o ReductionTileShape(Tail(shape), size \div tile)

ReductionTileShape(shape, size) ==
    LET tile == Min({2 ^ CeilDiv(Log2(size), Len(shape)), PowerOf2Ceil(Head(shape))})
    IN  IF shape = <<>> THEN <<>> ELSE <<tile>> \o ReductionTileShape(Tail(shape), size \div tile)

(***************************************************************************)
(* The producers of a value                                                *)
(***************************************************************************)
Structural == {"index_sub", "load", "store", "constant", "splat", "iota", "offset", "reshape", "slice",
               "broadcast", "transpose", "reduce", "matmul", "if", "for", "argument"}
IsElementwiseTile(i) == i.op \notin Structural

TensorOperands(i) ==
    CASE i.op \in {"index_sub", "load", "offset", "if"} -> {}
      [] i.op \in {"store", "select"} -> {i.ins[1]}
      [] OTHER -> ToSet(i.ins)

RECURSIVE Producers(_, _)
Producers(code, id) ==
    {id} \cup UNION {Producers(code, o) : o \in TensorOperands(Definition(code, id))}

HasNestedContraction(code, id) ==
    \E p \in Producers(code, id) : Definition(code, p).op \in {"reduce", "matmul"}

RECURSIVE Without(_, _)
Without(code, id) ==
    LET kept == SelectSeq(code, LAMBDA i : i.id # id)
    IN  [k \in DOMAIN kept |-> [kept[k] EXCEPT !.regions =
            [r \in DOMAIN @ |-> [@[r] EXCEPT !.code = Without(@, id)]]]]

RECURSIVE EraseDead(_, _)
EraseDead(code, ids) ==
    LET dead == {id \in ids : id \notin UsedIds(code)}
    IN  IF dead = {} THEN code
        ELSE LET id == CHOOSE id \in dead : TRUE IN EraseDead(Without(code, id), ids \ {id})

\* The code with an instruction, in whatever region, replaced by others.
RECURSIVE ReplaceOp(_, _, _)
ReplaceOp(code, id, others) ==
    FlattenSeq([k \in DOMAIN code |->
        IF code[k].id = id THEN others
        ELSE <<[code[k] EXCEPT !.regions = [r \in DOMAIN @ |-> [@[r] EXCEPT !.code = ReplaceOp(@, id, others)]]]>>])

(***************************************************************************)
(* Padding.  A load may fill up its tile with the neutral element if all   *)
(* that lies between it and the contraction keeps that element.            *)
(***************************************************************************)
RECURSIVE IsLoadPaddingNeutral(_, _, _)
IsLoadPaddingNeutral(code, id, contracting) ==
    LET i == Definition(code, id)
        Input == Definition(code, i.ins[1])
    IN  CASE i.op = "load"      -> TRUE
          [] i.op = "transpose" -> IsLoadPaddingNeutral(code, i.ins[1], {i.attr[d] : d \in contracting})
          [] i.op = "broadcast" -> /\ \A d \in contracting : Input.shape[d] = i.shape[d]
                                   /\ IsLoadPaddingNeutral(code, i.ins[1], contracting)
          [] i.op = "convert"   -> IsLoadPaddingNeutral(code, i.ins[1], contracting)
          [] OTHER              -> FALSE

\* Products have no padding of their own.
ReductionLoadPadding(code, reduce) ==
    /\ reduce.attr.mode \notin {"mul", "mul_no_zeros"}
    /\ IsLoadPaddingNeutral(code, reduce.ins[1], ToSet(reduce.attr.dims))

\* Mutant: only the last contracting dimension is masked.
ContractionMaskLast(dims, extents, tiles, coords) ==
    LET j == Len(dims)
    IN  IF dims = <<>> \/ extents[j] % tiles[j] = 0 THEN [masks |-> <<>>, coords |-> <<>>]
        ELSE [masks |-> <<[dim |-> dims[j], extent |-> extents[j], tile |-> tiles[j]]>>, coords |-> <<coords[j]>>]

\* One mask for each contracting dimension with a partial last tile.
ContractionMask(dims, extents, tiles, coords) ==
    LET partial == SelectSeq([j \in DOMAIN dims |-> j], LAMBDA j : extents[j] % tiles[j] # 0)
    IN  [masks  |-> [k \in DOMAIN partial |->
                        [dim |-> dims[partial[k]], extent |-> extents[partial[k]], tile |-> tiles[partial[k]]]],
         coords |-> [k \in DOMAIN partial |-> coords[partial[k]]]]

(***************************************************************************)
(* The clone of a value's producers in smaller tiles.  dims says which     *)
(* dimension of the contraction's operand each dimension of a producer     *)
(* is, 0 for a broadcast one; coords has the loop index of a contracting   *)
(* dimension, or 0.  A state c holds the clones made so far.               *)
(***************************************************************************)
Target(tile, coords, padding) == [tile |-> tile, coords |-> coords, padding |-> padding]
NoClones(next) == [code |-> <<>>, next |-> next, clones |-> <<>>, value |-> 0]

EmitClone(c, op, ins, shape, attr) ==
    [c EXCEPT !.code = Append(@, Instruction(c.next, op, ins, shape, attr)), !.next = @ + 1, !.value = c.next]

RECURSIVE Clone(_, _, _, _, _)

RECURSIVE CloneAll(_, _, _, _, _)
CloneAll(c, code, ids, dims, to) ==
    IF ids = <<>> THEN [c |-> c, values |-> <<>>]
    ELSE Then(Clone(c, code, Head(ids), dims, to), LAMBDA first :
             Then(CloneAll(first, code, Tail(ids), dims, to), LAMBDA rest : [rest EXCEPT !.values = <<first.value>> \o @]))

CloneOp(c, code, i, dims, to) ==
    LET shape == [d \in DOMAIN dims |-> IF dims[d] = 0 THEN 1 ELSE to.tile[dims[d]]]
        Coordinate(d) == IF dims[d] = 0 THEN 0 ELSE to.coords[dims[d]]
        Indices == [d \in DOMAIN i.ins |-> IF Coordinate(d) # 0 THEN Coordinate(d) ELSE i.ins[d]]
        input(inputDims) == Clone(c, code, i.ins[1], inputDims, to)
        Singleton == [d \in DOMAIN dims |-> IF Definition(code, i.ins[1]).shape[d] # i.shape[d] THEN 0 ELSE dims[d]]
        \* An iota goes on where the step of the loop is.
        local  == EmitClone(c, "iota", <<>>, shape, i.attr)
        offset == EmitClone(local, "offset", <<Coordinate(i.attr)>>, shape, <<shape[i.attr]>>)
        Broadcasted(in) == IF Definition(in.code, in.value).shape = shape THEN in
                           ELSE EmitClone(in, "broadcast", <<in.value>>, shape, "none")
    IN  CASE i.op = "load" ->
                EmitClone(c, "load", Indices, shape, [i.attr EXCEPT !.padding = to.padding])
          [] i.op \in {"constant", "splat", "offset"} -> EmitClone(c, i.op, i.ins, shape, i.attr)
          [] i.op = "iota" ->
                IF Coordinate(i.attr) = 0 THEN local
                ELSE EmitClone(offset, "add", <<local.value, offset.value>>, shape, "none")
          [] i.op = "broadcast" -> Then(input(Singleton), Broadcasted)
          [] i.op = "transpose" ->
                Then(input([d \in DOMAIN dims |-> dims[CHOOSE o \in DOMAIN dims : i.attr[o] = d]]),
                     LAMBDA in : EmitClone(in, "transpose", <<in.value>>, shape, i.attr))
          [] IsElementwiseTile(i) ->
                Then(CloneAll(c, code, i.ins, dims, to),
                     LAMBDA operands : EmitClone(operands.c, i.op, operands.values, shape, i.attr))
          [] OTHER -> Failed

Clone(c, code, id, dims, to) ==
    LET found == {k \in DOMAIN c.clones : c.clones[k].of = id /\ c.clones[k].dims = dims}
    IN  IF found # {} THEN [c EXCEPT !.value = c.clones[Min(found)].tile]
        ELSE Then(CloneOp(c, code, Definition(code, id), dims, to), LAMBDA clone :
                 [clone EXCEPT !.clones = Append(@, [of |-> id, dims |-> dims, tile |-> clone.value])])

ClonedTile(code, id, next, to) == Clone(NoClones(next), code, id, [d \in DOMAIN to.tile |-> d], to)

\* The clone, with the elements beyond the contraction replaced by the neutral one.
MaskedClone(code, id, next, to, mask, neutral) ==
    Then(ClonedTile(code, id, next, to), LAMBDA clone :
        IF mask.masks = <<>> THEN clone
        ELSE EmitClone(clone, "select", <<clone.value>> \o mask.coords, to.tile,
                       [masks |-> mask.masks, neutral |-> Pad(neutral)]))

(***************************************************************************)
(* The loops: one for each contracting dimension with more than one tile,  *)
(* the first outermost, each with three ids from next on.                  *)
(***************************************************************************)
LoopDims(extents, tiles) == SelectSeq([j \in DOMAIN extents |-> j], LAMBDA j : extents[j] > tiles[j])

LoopNest(extents, tiles, next, initial) ==
    LET loops == LoopDims(extents, tiles)
        Nth(j) == CHOOSE n \in DOMAIN loops : loops[n] = j
    IN  [dims    |-> loops,
         coords  |-> [j \in DOMAIN extents |-> IF Contains(loops, j) THEN next + 3 * Nth(j) - 2 ELSE 0],
         carried |-> IF loops = <<>> THEN initial ELSE next + 3 * Len(loops) - 1,
         steps   |-> [n \in DOMAIN loops |-> CeilDiv(extents[loops[n]], tiles[loops[n]])],
         first   |-> next, initial |-> initial,
         next    |-> next + 3 * Len(loops)]

RECURSIVE LoopFrom(_, _, _, _)
LoopFrom(nest, n, shape, body) ==
    LET id == nest.first + 3 * (n - 1)
        init == IF n = 1 THEN nest.initial ELSE id - 1
        inner == IF n = Len(nest.dims) THEN body ELSE
                 [code |-> <<LoopFrom(nest, n + 1, shape, body)>>, yield |-> id + 3]
    IN  WithRegions(Instruction(id, "for", <<init>>, shape, nest.steps[n]),
                    <<Region(<<id + 1, id + 2>>, inner.code, inner.yield)>>)

\* The loop index of each dimension of an operand.
OperandCoords(rank, dims, coords) ==
    [d \in 1 .. rank |-> IF Contains(dims, d) THEN coords[CHOOSE j \in DOMAIN dims : dims[j] = d] ELSE 0]

OperandTile(shape, dims, tiles) ==
    [d \in DOMAIN shape |-> IF Contains(dims, d) THEN tiles[CHOOSE j \in DOMAIN dims : dims[j] = d] ELSE shape[d]]

\* The plan of a contraction: its loops, and what a load is filled up with.
NoMask == ContractionMask(<<>>, <<>>, <<>>, <<>>)
MaskUnless(padded, dims, p) == IF padded THEN NoMask ELSE ContractionMask(dims, p.extents, p.tiles, p.nest.coords)
PaddingIf(padded, neutral)  == IF padded THEN Pad(neutral) ELSE Undefined

PlanContraction(extents, tiles, next) ==
    [extents |-> extents, tiles |-> tiles, initial |-> next, nest |-> LoopNest(extents, tiles, next + 1, next)]

\* The clone of an operand in the tile that one step of the loops covers.
OperandStep(code, id, next, tile, dims, p, padded, neutral) ==
    MaskedClone(code, id, next,
                Target(tile, OperandCoords(Len(tile), dims, p.nest.coords), PaddingIf(padded, neutral)),
                MaskUnless(padded, dims, p), neutral)

(***************************************************************************)
(* Reductions                                                              *)
(***************************************************************************)
ReduceExtents(code, reduce) ==
    [j \in DOMAIN reduce.attr.dims |-> Definition(code, reduce.ins[1]).shape[reduce.attr.dims[j]]]

HasPrologue(mode) == mode \in {"amax", "norm1", "norm2", "mul_no_zeros"}

WithPrologue(clone, tile, mode) ==
    IF HasPrologue(mode) THEN EmitClone(clone, "prologue", <<clone.value>>, tile, mode) ELSE clone

\* What is left of the reduction after its loops.  The sum of an average keeps
\* its place; the division gets the id that is used.
ResidualReduction(reduce, p, sumId) ==
    LET mode == reduce.attr.mode
        looped == [reduce EXCEPT !.ins = <<p.nest.first>>, !.attr.prologueApplied = HasPrologue(mode)]
        Finish(id, as) == Instruction(reduce.id, "epilogue", <<id>>, reduce.shape,
                                      [mode |-> as, extent |-> Volume(p.extents)])
    IN  IF \A j \in DOMAIN p.tiles : p.tiles[j] = 1 THEN <<Finish(p.nest.first, mode)>>
        ELSE IF mode = "avg" THEN <<[looped EXCEPT !.id = sumId, !.attr.mode = "add"], Finish(sumId, "avg")>>
        ELSE <<looped>>

\* The accumulator has the shape of the smaller tile; what is left is reduced at the end.
ReductionLoop(reduce, p, tile, step) ==
    [next |-> step.next + 1,
     code |-> <<Instruction(p.initial, "constant", <<>>, tile, Pad(Identity(reduce.attr.mode))),
                LoopFrom(p.nest, 1, tile, [code |-> step.code, yield |-> step.value])>>
              \o ResidualReduction(reduce, p, step.next)]

AccumulateStep(clone, p, tile, mode) ==
    LET prologue == WithPrologue(clone, tile, mode)
    IN  EmitClone(prologue, "accumulate", <<p.nest.carried, prologue.value>>, tile, mode)

ReductionCode(reduce, p, tile, clone) ==
    IF p.nest.dims = <<>>
    THEN [next |-> clone.next, code |-> clone.code \o <<[reduce EXCEPT !.ins = <<clone.value>>]>>]
    ELSE ReductionLoop(reduce, p, tile, AccumulateStep(clone, p, tile, reduce.attr.mode))

\* The code with a contraction replaced, and without producers that are not used any more.
WithContraction(s, id, new, ids) ==
    [next |-> new.next,
     code |-> EraseDead(ReplaceOp(s.code, id, new.code), UNION {Producers(s.code, o) : o \in ToSet(ids)})]

TiledReduction(s, reduce, p) ==
    LET tile == OperandTile(Definition(s.code, reduce.ins[1]).shape, reduce.attr.dims, p.tiles)
        Replacement(clone) == WithContraction(s, reduce.id, ReductionCode(reduce, p, tile, clone), reduce.ins)
    IN  Then(OperandStep(s.code, reduce.ins[1], p.nest.next, tile, reduce.attr.dims, p,
                         ReductionLoadPadding(s.code, reduce), Identity(reduce.attr.mode)), Replacement)

AreOrderedAndUnique(dims) == dims # <<>> /\ \A k \in 2 .. Len(dims) : dims[k - 1] < dims[k]

\* An outer contraction keeps its extent: the inner one is strip-mined.
StripMineReduction(s, reduce, size) ==
    LET extents == ReduceExtents(s.code, reduce)
        tiles   == ReductionTileShape(extents, size)
    IN  IF ~AreOrderedAndUnique(reduce.attr.dims) THEN Failed
        ELSE IF tiles = extents \/ HasNestedContraction(s.code, reduce.ins[1]) THEN s
        ELSE TiledReduction(s, reduce, PlanContraction(extents, tiles, s.next))

(***************************************************************************)
(* Matmuls                                                                 *)
(***************************************************************************)
UnwrapFormationReshape(code, id) ==
    LET i == Definition(code, id) IN IF i.op = "reshape" /\ i.attr = "matmul input" THEN i.ins[1] ELSE id

\* An operand for one step of the loops, in the canonical shape.
CanonicalOperand(clone, tile, to) ==
    Then(clone, LAMBDA c : IF tile = to THEN c ELSE EmitClone(c, "reshape", <<c.value>>, to, "none"))

OperandOfStep(code, source, next, plan, p) ==
    OperandStep(code, source, next, OperandTile(plan.shape, plan.contracting, p.tiles), plan.contracting, p,
                IsLoadPaddingNeutral(code, source, ToSet(plan.contracting)), "zero")

MatmulOperandStep(s, matmul, k, plan, p, next) ==
    LET to == Replaced(Definition(s.code, matmul.ins[k]).shape, Len(matmul.shape) + 1 - k, Volume(p.tiles))
    IN  CanonicalOperand(OperandOfStep(s.code, UnwrapFormationReshape(s.code, matmul.ins[k]), next, plan, p),
                         OperandTile(plan.shape, plan.contracting, p.tiles), to)

MatmulLoop(matmul, p, operands, lhs, rhs, next) ==
    LET local == Instruction(next, "matmul", <<lhs, rhs, p.nest.carried>>, matmul.shape, matmul.attr)
        loop  == LoopFrom(p.nest, 1, matmul.shape, [code |-> Append(operands, local), yield |-> next])
    IN  [next |-> next + 1,
         code |-> IF p.nest.dims = <<>> THEN Append(operands, [matmul EXCEPT !.ins = <<lhs, rhs>>])
                  ELSE <<Instruction(p.initial, "constant", <<>>, matmul.shape, Pad("zero")), [loop EXCEPT !.id = matmul.id]>>]

TiledMatmul(s, matmul, p) ==
    LET WithRhs(lhs, rhs) ==
            WithContraction(s, matmul.id,
                            MatmulLoop(matmul, p, lhs.code \o rhs.code, lhs.value, rhs.value, rhs.next), matmul.ins)
        WithLhs(lhs) == Then(MatmulOperandStep(s, matmul, 2, matmul.attr.rhs, p, lhs.next), LAMBDA rhs : WithRhs(lhs, rhs))
    IN  Then(MatmulOperandStep(s, matmul, 1, matmul.attr.lhs, p, p.nest.next), WithLhs)

StripMineMatmul(s, matmul, size) ==
    LET extents == matmul.attr.contraction
        tiles   == ReductionTileShape(extents, size)
    IN  IF tiles = extents THEN s ELSE TiledMatmul(s, matmul, PlanContraction(extents, tiles, s.next))

(***************************************************************************)
(* The pass: all reductions, then all matmuls.                             *)
(***************************************************************************)
StripMineOne(s, contraction, size) ==
    IF s = Failed THEN Failed
    ELSE IF contraction.op = "reduce" THEN StripMineReduction(s, Definition(s.code, contraction.id), size)
    ELSE StripMineMatmul(s, Definition(s.code, contraction.id), size)

RECURSIVE StripMineAll(_, _, _)
StripMineAll(s, contractions, size) ==
    IF contractions = <<>> THEN s
    ELSE StripMineAll(StripMineOne(s, Head(contractions), size), Tail(contractions), size)

OperationsOf(code, op) == SelectSeq(AllInstructions(code), LAMBDA i : i.op = op)

StripMine(code, next, size) ==
    StripMineAll([code |-> code, next |-> next], OperationsOf(code, "reduce") \o OperationsOf(code, "matmul"), size)
=============================================================================
