-------------------------- MODULE LinalgConversion --------------------------
(***************************************************************************)
(* Conversion of a graph to Linalg on tensors                              *)
(* (lib/Conversion/TensorToLinalg/TensorToLinalg.cpp).  Signedness and     *)
(* dynamic extents are left out.                                           *)
(***************************************************************************)
EXTENDS Canonicalization, LinalgPointwise

(***************************************************************************)
(* What the Linalg and Tensor operations compute that TensorIR is lowered  *)
(* to.  They are MLIR's own: the model gives the meaning that              *)
(* lib/Conversion/TensorToLinalg relies on.                                *)
(***************************************************************************)
\* Of n dimensions, those that are not among dims, and their elements of a sequence.
KeptDims(n, dims) == SelectSeq([d \in 1 .. n |-> d], LAMBDA d : ~Contains(dims, d))
Dropping(s, dims) == LET kept == KeptDims(Len(s), dims) IN [j \in DOMAIN kept |-> s[kept[j]]]

\* The coordinate with offsets c in the dimensions kept and r in the others.
Merge(c, r, dims) ==
    LET kept == KeptDims(Len(c) + Len(dims), dims)
    IN  [d \in 1 .. Len(c) + Len(dims) |->
            IF Contains(dims, d) THEN r[CHOOSE j \in DOMAIN dims : dims[j] = d]
            ELSE c[CHOOSE j \in DOMAIN kept : kept[j] = d]]

RECURSIVE Accumulated(_, _, _)
Accumulated(mode, accumulator, elements) ==
    IF elements = <<>> THEN accumulator
    ELSE Accumulated(mode, ReductionScalar(mode, Head(elements), accumulator), Tail(elements))

LinalgReduce(i, in) ==
    LET dims == i.attr.dims
        extents == [j \in DOMAIN dims |-> in[1].shape[dims[j]]]
    IN  Tile(i.shape, LAMBDA c : Accumulated(i.attr.mode, At(in[2], c),
            [r \in 1 .. Volume(extents) |-> At(in[1], Merge(c, Unravel(r - 1, extents), dims))]))

RECURSIVE MmaChain(_, _)
MmaChain(accumulator, pairs) ==
    IF pairs = <<>> THEN accumulator
    ELSE MmaChain(MmaScalar(Head(pairs)[1], Head(pairs)[2], accumulator), Tail(pairs))

LinalgMatmul(i, in) ==
    LET n == Len(i.shape)
    IN  Tile(i.shape, LAMBDA c : MmaChain(At(in[3], c),
            [k \in 1 .. in[1].shape[n] |-> <<At(in[1], Replaced(c, n, k - 1)), At(in[2], Replaced(c, n - 1, k - 1))>>]))

LinalgConcat(i, in) ==
    LET Before(k) == SumOf([j \in 1 .. k - 1 |-> in[j].shape[i.attr]])
        Part(c) == CHOOSE k \in DOMAIN in : Before(k) <= c[i.attr] /\ c[i.attr] < Before(k) + in[k].shape[i.attr]
    IN  Tile(i.shape, LAMBDA c : At(in[Part(c)], Replaced(c, i.attr, c[i.attr] - Before(Part(c)))))

LinalgValue(i, in) ==
    CASE i.op = "arith.constant"  -> Tile(i.shape, LAMBDA c : i.attr)
      [] i.op = "linalg.fill"     -> Tile(i.shape, LAMBDA c : in[1].at[1])
      [] i.op = "linalg.generic"  ->
             Tile(i.shape, LAMBDA c : PointwiseScalar(i.attr.op, [k \in DOMAIN in |-> At(in[k], c)], i.attr.attr))
      [] i.op = "linalg.index"    -> Tile(i.shape, LAMBDA c : IntTerm(c[i.attr]))
      [] i.op \in {"tensor.collapse_shape", "tensor.expand_shape", "tensor.reshape"} -> [shape |-> i.shape, at |-> in[1].at]
      [] i.op = "linalg.broadcast" -> Tile(i.shape, LAMBDA c : At(in[1], Dropping(c, i.attr)))
      [] i.op = "linalg.transpose" ->
             Tile(i.shape, LAMBDA c : At(in[1], [d \in DOMAIN c |-> c[CHOOSE o \in DOMAIN c : i.attr[o] = d]]))
      [] i.op = "tensor.extract_slice" ->
             Tile(i.shape, LAMBDA c : At(in[1], [d \in DOMAIN c |-> i.attr.starts[d] + c[d] * i.attr.strides[d]]))
      [] i.op = "tensor.concat"   -> LinalgConcat(i, in)
      [] i.op = "tensor.empty"    -> Tile(i.shape, LAMBDA c : Undefined)
      [] i.op = "linalg.reduce"   -> LinalgReduce(i, in)
      [] i.op \in {"linalg.matmul", "linalg.batch_matmul", "linalg.generic_matmul"} -> LinalgMatmul(i, in)

RECURSIVE RunLinalg(_, _)
RunLinalg(code, env) ==
    IF code = <<>> THEN env
    ELSE LET i == Head(code)
             value == LinalgValue(i, [k \in DOMAIN i.ins |-> env[i.ins[k]]])
         IN  RunLinalg(Tail(code), (i.id :> value) @@ env)

(***************************************************************************)
(* The patterns of the conversion.                                         *)
(***************************************************************************)
CreateFill(s, shape, term) ==
    LET scalar == EmitTile(s, "arith.constant", <<>>, <<>>, term)
    IN  EmitTile(scalar, "linalg.fill", <<scalar.value>>, shape, "none")

\* Inputs without elements are dropped, and nothing is concatenated to nothing.
ConcatenateConversion(s, i, ins, in) ==
    LET nonempty == SelectSeq(ins, LAMBDA v : \E k \in DOMAIN ins : ins[k] = v /\ in[k][i.attr] # 0)
    IN  IF 0 \in ToSet(i.shape) THEN EmitTile(s, "tensor.empty", <<>>, i.shape, "none")
        ELSE EmitTile(s, "tensor.concat", nonempty, i.shape, i.attr)

\* The broadcast dimensions, of extent one, are collapsed into their neighbours first.
BroadcastConversion(s, i, ins, in) ==
    LET dims == SelectSeq([d \in DOMAIN in[1] |-> d], LAMBDA d : in[1][d] # i.shape[d])
        collapsed == EmitTile(s, "tensor.collapse_shape", ins, Dropping(in[1], dims), "none")
    IN  EmitTile(collapsed, "linalg.broadcast", <<collapsed.value>>, i.shape, dims)

\* Whether consecutive dimensions of the longer shape multiply up to those of the shorter.
RECURSIVE Reassociates(_, _)
Reassociates(long, short) ==
    IF short = <<>> THEN \A d \in DOMAIN long : long[d] = 1
    ELSE \E n \in DOMAIN long :
            /\ Volume(SubSeq(long, 1, n)) = Head(short)
            /\ Reassociates(SubSeq(long, n + 1, Len(long)), Tail(short))

ReshapeConversion(s, i, ins, in) ==
    LET op == CASE Len(in[1]) > Len(i.shape) /\ Reassociates(in[1], i.shape) -> "tensor.collapse_shape"
                [] Len(in[1]) < Len(i.shape) /\ Reassociates(i.shape, in[1]) -> "tensor.expand_shape"
                [] OTHER -> "tensor.reshape"
    IN  EmitTile(s, op, ins, i.shape, "none")

BroadcastReductionResult(s, shape, reduced, dims) ==
    IF reduced = shape THEN s ELSE EmitTile(s, "linalg.broadcast", <<s.value>>, shape, dims)

\* The quotient of the reduced tensor and the number of elements.
DivideByCount(s, shape, count) ==
    LET counts == CreateFill(s, shape, IntTerm(count))
    IN  EmitTile(counts, "linalg.generic", <<s.value, counts.value>>, shape, [op |-> "div", attr |-> "none"])

ReduceConversion(s, i, ins, in) ==
    LET mode == i.attr.mode
        dims == SortSeq(i.attr.dims, <)
        reduced == Dropping(in[1], dims)
        init == CreateFill(s, reduced, Pad(ReductionIdentity(mode)))
        reduce == EmitTile(init, "linalg.reduce", Append(ins, init.value), reduced, [mode |-> mode, dims |-> dims])
        result == BroadcastReductionResult(reduce, i.shape, reduced, dims)
    IN  CASE mode = "norm2" -> EmitTile(result, "linalg.generic", <<result.value>>, i.shape, [op |-> "sqrt", attr |-> "none"])
          [] mode = "avg"   -> DivideByCount(result, i.shape, Volume([j \in DOMAIN dims |-> in[1][dims[j]]]))
          [] OTHER          -> result

MatmulConversion(s, i, ins) ==
    LET zero == CreateFill(s, i.shape, Zero)
        op == CASE Len(i.shape) = 2 -> "linalg.matmul"
                [] Len(i.shape) = 3 -> "linalg.batch_matmul"
                [] OTHER            -> "linalg.generic_matmul"
    IN  IF Len(ins) = 3 THEN EmitTile(s, op, ins, i.shape, "none")
        ELSE EmitTile(zero, op, Append(ins, zero.value), i.shape, "none")

\* An operation that folds is its operand.
LinalgOp(s, code, i) ==
    LET ins == [k \in DOMAIN i.ins |-> Renamed(s, i.ins[k])]
        in == OperandShapes(code, i)
    IN  CASE i.op = "argument"    -> [s EXCEPT !.value = i.id]
          [] ins # <<>> /\ FoldsToOperand(i, in[1]) -> [s EXCEPT !.value = ins[1]]
          [] i.op = "constant"    -> EmitTile(s, "arith.constant", <<>>, i.shape, IntTerm(i.attr))
          [] i.op = "splat"       -> EmitTile(s, "linalg.fill", ins, i.shape, "none")
          [] i.op = "iota"        -> EmitTile(s, "linalg.index", <<>>, i.shape, i.attr)
          [] i.op = "concatenate" -> ConcatenateConversion(s, i, ins, in)
          [] i.op = "broadcast"   -> BroadcastConversion(s, i, ins, in)
          [] i.op = "reshape"     -> ReshapeConversion(s, i, ins, in)
          [] i.op = "transpose"   -> EmitTile(s, "linalg.transpose", ins, i.shape, i.attr)
          [] i.op = "slice"       -> EmitTile(s, "tensor.extract_slice", ins, i.shape, i.attr)
          [] i.op = "reduce"      -> ReduceConversion(s, i, ins, in)
          [] i.op = "matmul"      -> MatmulConversion(s, i, ins)
          [] OTHER -> EmitTile(s, "linalg.generic", ins, i.shape, [op |-> i.op, attr |-> i.attr])

RECURSIVE LinalgFrom(_, _, _)
LinalgFrom(s, code, part) ==
    IF part = <<>> THEN s
    ELSE LinalgFrom(Replacing(LinalgOp(s, code, Head(part)), Head(part)), code, Tail(part))

\* The code of the function and the values that it returns.
LowerToLinalg(code, results, next) ==
    LET s == LinalgFrom(Emitting(next), code, code)
    IN  [code |-> s.code, results |-> [r \in DOMAIN results |-> Renamed(s, results[r])]]
=============================================================================
