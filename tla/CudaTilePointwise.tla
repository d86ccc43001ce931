------------------------- MODULE CudaTilePointwise -------------------------
(***************************************************************************)
(* The CUDA Tile operations that pointwise operations are converted to, by *)
(* what they compute for an element (PointwiseEmitter in                   *)
(* lib/Conversion/TensorToCudaTile/OutlinedComputeOps.cpp, and             *)
(* PointwiseOps.cpp).                                                      *)
(***************************************************************************)
EXTENDS Terms

\* The gradients of activations have no conversion.
LowerablePointwise(op) ==
    op \notin {"relu_bwd", "gelu_bwd", "sigmoid_bwd", "tanh_bwd", "gelu_approx_tanh_bwd",
               "softplus_bwd", "swish_bwd", "elu_bwd"}

Predicate(comparator) ==
    CASE comparator \in {"eq", "oeq", "ueq"}  -> "="
      [] comparator \in {"neq", "one", "une"} -> "#"
      [] comparator \in {"lt", "olt", "ult"}  -> "<"
      [] comparator \in {"le", "ole", "ule"}  -> "<="
      [] comparator \in {"gt", "ogt", "ugt"}  -> ">"
      [] comparator \in {"ge", "oge", "uge"}  -> ">="
Ordering(comparator) ==
    IF comparator \in {"ueq", "une", "ult", "ule", "ugt", "uge"} THEN "unordered" ELSE "ordered"

BuildExp(x)     == Call("exp", x)
BuildSigmoid(x) == Quotient(One, Add(One, BuildExp(Neg(x))))

\* The approximation of Abramowitz and Stegun 7.1.26 stands for erf itself.
BuildErfApprox(x) == Call("erf", x)

BuildGelu(x) == Mul(Mul(x, Half), Add(One, BuildErfApprox(Quotient(x, Real("sqrt(2)")))))
BuildGeluApproxTanh(x) ==
    LET cube == Mul(Mul(x, x), x)
        polynomial == Mul(Real("sqrt(2/pi)"), Add(x, Mul(Real("0.044715"), cube)))
    IN  Mul(Mul(Half, x), Add(One, Call("tanh_fwd", polynomial)))
BuildSoftplus(x, beta) == Mul(Reciprocal(beta), Call("log", Add(One, BuildExp(Mul(x, beta)))))
BuildSwish(x, beta)    == Mul(x, BuildSigmoid(Mul(x, beta)))
BuildElu(x, beta) ==
    Select(Compare(">", "ordered", x, Zero), x, Mul(Sub(BuildExp(x), One), beta))

LowerDiv(a, b) == IF Divisible(a, b) THEN IntTerm(Truncated(a[2], b[2])) ELSE Quotient(a, b)

\* Mutant: the remainder is not moved to the sign of the divisor.
LowerModTruncated(a, b) ==
    IF Divisible(a, b) THEN IntTerm(Remainder(a[2], b[2])) ELSE Function("mod", <<a, b>>)

\* Of integers, the sign of the exclusive or tells whether the signs differ.
LowerMod(a, b) ==
    LET r == Remainder(a[2], b[2])
    IN  IF ~Divisible(a, b) THEN Function("mod", <<a, b>>)
        ELSE IntTerm(IF r # 0 /\ (a[2] < 0) # (b[2] < 0) THEN r + b[2] ELSE r)

LowerRem(a, b) == IF Divisible(a, b) THEN IntTerm(Remainder(a[2], b[2])) ELSE Function("rem", <<a, b>>)

LowerPointwise(op, in, attr) ==
    CASE op = "neg" -> Neg(in[1])
      [] op = "exp" -> BuildExp(in[1])
      [] op = "erf" -> BuildErfApprox(in[1])
      [] op = "rsqrt"      -> Quotient(One, Call("sqrt", in[1]))
      [] op = "reciprocal" -> Quotient(One, in[1])
      [] op = "add" -> Add(in[1], in[2])
      [] op = "sub" -> Sub(in[1], in[2])
      [] op = "mul" -> Mul(in[1], in[2])
      [] op = "div" -> LowerDiv(in[1], in[2])
      [] op = "mod" -> LowerMod(in[1], in[2])
      [] op = "rem" -> LowerRem(in[1], in[2])
      [] op \in {"max", "min"} -> Extremum(op, in[1], in[2])
      [] op = "add_square"     -> Add(in[1], Mul(in[2], in[2]))
      [] op = "binary_select"  -> Select(in[1], in[2], in[3])
      [] op = "cmp"            -> Compare(Predicate(attr), Ordering(attr), in[1], in[2])
      [] op = "convert"        -> Converted(in[1])
      [] op = "relu_fwd"       -> Extremum("max", Zero, in[1])
      [] op = "sigmoid_fwd"    -> BuildSigmoid(in[1])
      [] op = "gelu_fwd"       -> BuildGelu(in[1])
      [] op = "gelu_approx_tanh_fwd" -> BuildGeluApproxTanh(in[1])
      [] op = "softplus_fwd"   -> BuildSoftplus(in[1], IntTerm(attr))
      [] op = "swish_fwd"      -> BuildSwish(in[1], IntTerm(attr))
      [] op = "elu_fwd"        -> BuildElu(in[1], IntTerm(attr))
      [] OTHER                 -> Function(op, in)
=============================================================================
