---------------------------- MODULE OpVerifiers ----------------------------
(***************************************************************************)
(* The verifiers of the dialect's operations, over the shapes of the       *)
(* operands and of the result (lib/Dialect/TensorOps.cpp), on the graph    *)
(* that is compiled.                                                       *)
(*                                                                         *)
(* Element types and dynamic extents are left out.                         *)
(***************************************************************************)
EXTENDS TensorGraph

ReshapeVerified(in, out) == Volume(in) = Volume(out)

\* A unit dimension becomes a larger one, and at least one does.
BroadcastVerified(in, out) ==
    /\ Len(in) = Len(out) /\ in # out
    /\ \A d \in DOMAIN in : in[d] # out[d] => in[d] = 1 /\ out[d] > 1

\* Mutant: the result's extents are not compared with those of the operand.
TransposeVerifiedShapeless(in, out, perm) == Len(perm) = Len(in) /\ ToSet(perm) = DOMAIN in

TransposeVerified(in, out, perm) ==
    /\ Len(out) = Len(in) /\ Len(perm) = Len(in) /\ ToSet(perm) = DOMAIN in
    /\ \A d \in DOMAIN in : out[d] = in[perm[d]]

SliceVerified(in, out, s) ==
    /\ Len(out) = Len(in) /\ {Len(s.starts), Len(s.limits), Len(s.strides)} = {Len(in)}
    /\ \A d \in DOMAIN in :
          /\ s.starts[d] \in 0 .. in[d] /\ s.limits[d] \in 0 .. in[d] /\ s.strides[d] > 0
          /\ out[d] = IF s.limits[d] > s.starts[d] THEN 1 + (s.limits[d] - 1 - s.starts[d]) \div s.strides[d] ELSE 0

ConcatenateVerified(ins, out, dim) ==
    LET first == ins[1]
    IN  /\ ins # <<>> /\ Len(out) = Len(first) /\ dim \in DOMAIN first
        /\ \A in \in ToSet(ins) : Len(in) = Len(first) /\ \A d \in DOMAIN in \ {dim} : in[d] = first[d]
        /\ out = Replaced(first, dim, SumOf([k \in DOMAIN ins |-> ins[k][dim]]))

\* The reduced dimensions either stay as unit dimensions or all disappear.
ReductionDimensionsVerified(rank, dims) == ToSet(dims) \subseteq 1 .. rank /\ IsInjective(dims)
ReductionResultShapes(in, dims) ==
    LET kept == InOrder(DOMAIN in \ ToSet(dims), LAMBDA d, e : d < e)
    IN  {[d \in DOMAIN in |-> IF d \in ToSet(dims) THEN 1 ELSE in[d]], [k \in DOMAIN kept |-> in[kept[k]]]}
ReduceVerified(in, out, dims) ==
    ReductionDimensionsVerified(Len(in), dims) /\ out \in ReductionResultShapes(in, dims)

MatmulShapesVerified(a, b, c) ==
    LET n == Len(a)
    IN  /\ n >= 2 /\ Len(b) = n /\ Len(c) = n
        /\ \A d \in 1 .. n - 2 : a[d] = b[d] /\ c[d] = a[d]
        /\ a[n] = b[n - 1] /\ c[n - 1] = a[n - 1] /\ c[n] = b[n]
MatmulVerified(ins, out) ==
    MatmulShapesVerified(ins[1], ins[2], out) /\ (Len(ins) = 3 => ins[3] = out)

IotaVerified(out, dim) == dim \in DOMAIN out

\* All operands have the shape of the result.
PointwiseVerified(ins, out) == \A in \in ToSet(ins) : in = out

(***************************************************************************)
(* Graphs.  A graph that parses has operations of the dialect with the     *)
(* operands and attributes that their definitions declare, and values are  *)
(* defined before they are used.  Strides are not negative.                *)
(***************************************************************************)
OperandCounts(op) ==
    CASE op \in {"constant", "iota"} -> {0}
      [] op \in UnaryPointwise \cup ParametricUnaryPointwise \cup
               {"splat", "reshape", "broadcast", "convert", "reduce", "slice", "transpose"} -> {1}
      [] op \in BinaryPointwise \cup ParametricBinaryPointwise \cup {"cmp"} -> {2}
      [] op = "matmul" -> {2, 3}                               \* with an accumulator
      [] op = "binary_select" -> {3}
      [] op = "concatenate" -> Nat
      [] OTHER -> {}

IsAttribute(op, attr) ==
    CASE op \in {"iota", "concatenate"} -> attr \in Int
      [] op = "transpose" -> attr \in Seq(Int)
      [] op = "slice"     -> {attr.starts, attr.limits, attr.strides} \subseteq Seq(Int)
      [] op = "reduce"    -> attr.dims \in Seq(Int)
      [] OTHER            -> TRUE

IsScalarArg(g, v) == IsArg(g, v) /\ IsScalar(g, v)
IsOperation(g, v) ==
    LET op == Op(g, v)
    IN  /\ op.shape \in Seq(Nat) /\ op.ins \in Seq(1 .. v - 1)
        /\ Len(op.ins) \in OperandCounts(op.op) /\ IsAttribute(op.op, op.attr)
        /\ \A in \in ToSet(op.ins) : IsScalarArg(g, in) <=> op.op = "splat"

HasStrides(buffer, shape) == buffer.strides \in Seq(Nat) /\ Len(buffer.strides) \in {0, Len(shape)}
IsGraph(g) ==
    /\ \A part \in {g.args, g.ops, g.results} : part \in Seq(ToSet(part))
    /\ \A arg \in ToSet(g.args) : arg.shape \in Seq(Nat) /\ HasStrides(arg, arg.shape)
    /\ \A v \in Values(g) : ~IsArg(g, v) => IsOperation(g, v)
    /\ \A result \in ToSet(g.results) :
          result.value \in Values(g) /\ HasStrides(result, ShapeOf(g, result.value))

GraphOpVerified(op, ins) ==
    CASE op.op = "reshape"     -> ReshapeVerified(ins[1], op.shape)
      [] op.op = "broadcast"   -> BroadcastVerified(ins[1], op.shape)
      [] op.op = "transpose"   -> TransposeVerified(ins[1], op.shape, op.attr)
      [] op.op = "slice"       -> SliceVerified(ins[1], op.shape, op.attr)
      [] op.op = "concatenate" -> ConcatenateVerified(ins, op.shape, op.attr)
      [] op.op = "reduce"      -> ReduceVerified(ins[1], op.shape, op.attr.dims)
      [] op.op = "matmul"      -> MatmulVerified(ins, op.shape)
      [] op.op = "iota"        -> IotaVerified(op.shape, op.attr)
      [] op.op \in {"constant", "splat"} -> TRUE
      [] OTHER                 -> PointwiseVerified(ins, op.shape)

GraphVerified(g) ==
    \A k \in DOMAIN g.ops : GraphOpVerified(g.ops[k], [j \in DOMAIN g.ops[k].ins |-> ShapeOf(g, g.ops[k].ins[j])])
=============================================================================
