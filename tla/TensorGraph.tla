---------------------------- MODULE TensorGraph ----------------------------
(***************************************************************************)
(* Tensor graphs.                                                          *)
(*                                                                         *)
(* A graph has arguments (shape and strides), operations in the order of   *)
(* the graph's body and results (a value and the strides of its buffer).   *)
(* Value v is argument v up to the number of arguments, and the result of  *)
(* operation v - Len(args) above it.  Dimensions count from 1, and a       *)
(* coordinate is a sequence of offsets from 0.                             *)
(***************************************************************************)
EXTENDS Terms, Shapes

VARIABLE graph                       \* the tensor program

(* The product of a sequence of extents; 1 for the empty sequence. *)
Volume(s) == Product(s)

(* The position in row-major order, last dimension fastest. *)
Unravel(i, dims) ==
    [d \in DOMAIN dims |-> (i \div Volume(SubSeq(dims, d + 1, Len(dims)))) % dims[d]]

(* Strides of a compact row-major buffer. *)
RowMajor(dims) == [d \in DOMAIN dims |-> Volume(SubSeq(dims, d + 1, Len(dims)))]

(* The scalar product of two sequences of the same length. *)
Dot(a, b) == SumOf([k \in DOMAIN a |-> a[k] * b[k]])

(* The elements of a set of integers, the first ones in the order, ties as they are. *)
InOrder(S, Before(_, _)) ==
    LET First(j, i) == Before(j, i) \/ (~Before(i, j) /\ j < i)
    IN  [k \in 1 .. Cardinality(S) |-> CHOOSE i \in S : Cardinality({j \in S : First(j, i)}) = k - 1]

(* The sequence with another element at position i. *)
Replaced(s, i, x) == [j \in DOMAIN s |-> IF j = i THEN x ELSE s[j]]

(***************************************************************************)
(* Graphs                                                                  *)
(***************************************************************************)
NumArgs(g)     == Len(g.args)
Values(g)      == 1 .. NumArgs(g) + Len(g.ops)
IsArg(g, v)    == v <= NumArgs(g)
Op(g, v)       == g.ops[v - NumArgs(g)]
ShapeOf(g, v)  == IF IsArg(g, v) THEN g.args[v].shape ELSE Op(g, v).shape
Rank(g, v)     == Len(ShapeOf(g, v))
IsScalar(g, v) == ShapeOf(g, v) = <<>>
Inputs         == {v \in 1 .. NumArgs(graph) : ~IsScalar(graph, v)}
StridesOf(shape, strides) == IF strides = <<>> THEN RowMajor(shape) ELSE strides

\* The classes of pointwise operations.
UnaryPointwise == {"abs", "ceil", "cos", "erf", "exp", "floor", "gelu_fwd", "log", "neg", "relu_fwd", "sin",
                   "sqrt", "rsqrt", "tan", "tanh_fwd", "reciprocal", "sigmoid_fwd", "gelu_approx_tanh_fwd", "not"}
BinaryPointwise == {"add", "sub", "mul", "div", "max", "min", "pow", "atan2", "mod", "rem", "add_square",
                    "relu_bwd", "gelu_bwd", "sigmoid_bwd", "tanh_bwd", "gelu_approx_tanh_bwd", "and", "or"}
ActivationGradients == {"relu_bwd", "gelu_bwd", "sigmoid_bwd", "tanh_bwd", "gelu_approx_tanh_bwd",
                        "softplus_bwd", "swish_bwd", "elu_bwd"}
ParametricUnaryPointwise  == {"softplus_fwd", "swish_fwd", "elu_fwd"}
ParametricBinaryPointwise == {"softplus_bwd", "swish_bwd", "elu_bwd"}
=============================================================================
