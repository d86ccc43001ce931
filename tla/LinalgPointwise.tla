-------------------------- MODULE LinalgPointwise --------------------------
(***************************************************************************)
(* The scalar computations that the Linalg conversion builds for elements  *)
(* (lib/Conversion/TensorToLinalg).                                        *)
(***************************************************************************)
EXTENDS Terms

ScalarSigmoid(x) == Quotient(One, Add(One, Call("exp", Neg(x))))

ScalarGeluApproxTanh(x) ==
    LET cubed == Mul(Mul(x, x), x)
        polynomial == Add(x, Mul(Real("0.044715"), cubed))
    IN  Mul(Mul(Half, x), Add(One, Call("tanh_fwd", Mul(Real("sqrt(2/pi)"), polynomial))))

SelectPositive(x, positive, nonPositive) == Select(Compare(">", "ordered", x, Zero), positive, nonPositive)

ScalarCompare(comparator, a, b) ==
    LET Is(names) == comparator \in names
        predicate == CASE Is({"eq", "ueq", "oeq"})  -> "="
                       [] Is({"neq", "une", "one"}) -> "#"
                       [] Is({"gt", "ugt", "ogt"})  -> ">"
                       [] Is({"ge", "uge", "oge"})  -> ">="
                       [] Is({"lt", "ult", "olt"})  -> "<"
                       [] OTHER                     -> "<="
        unordered == Is({"ueq", "une", "ugt", "uge", "ult", "ule"})
    IN  Compare(predicate, IF unordered THEN "unordered" ELSE "ordered", a, b)

\* The floored quotient of integers.
FloorQuotient(m, n) == IF n > 0 THEN m \div n ELSE (-m) \div (-n)

ScalarDiv(a, b) == IF Divisible(a, b) THEN IntTerm(Truncated(a[2], b[2])) ELSE Quotient(a, b)
ScalarRem(a, b) == IF Divisible(a, b) THEN IntTerm(Remainder(a[2], b[2])) ELSE Function("rem", <<a, b>>)

\* a less the multiple of b below it.
ScalarMod(a, b) ==
    IF Divisible(a, b) THEN IntTerm(a[2] - FloorQuotient(a[2], b[2]) * b[2]) ELSE Function("mod", <<a, b>>)

ScalarCdf(x) == Mul(Half, Add(One, Call("erf", Quotient(x, Real("sqrt(2)")))))

ScalarGeluBwd(x, gradient) ==
    LET density == Mul(Mul(x, Call("exp", Neg(Mul(Half, Mul(x, x))))), Real("1/sqrt(2 pi)"))
    IN  Mul(gradient, Add(ScalarCdf(x), density))

ScalarGeluApproxTanhBwd(x, gradient) ==
    LET squared == Mul(x, x)
        coefficient == Real("0.044715")
        scale == Real("sqrt(2/pi)")
        tanh == Call("tanh_fwd", Mul(scale, Add(x, Mul(coefficient, Mul(squared, x)))))
        inputDerivative == Mul(scale, Add(One, Mul(Mul(IntTerm(3), coefficient), squared)))
        product == Mul(x, Mul(Sub(One, Mul(tanh, tanh)), inputDerivative))
    IN  Mul(gradient, Mul(Half, Add(Add(One, tanh), product)))

ScalarForward(op, x) ==
    CASE op = "reciprocal"  -> Quotient(One, x)
      [] op = "rsqrt"       -> Reciprocal(Call("sqrt", x))
      [] op = "neg"         -> Neg(x)
      [] op = "convert"     -> Converted(x)
      [] op = "relu_fwd"    -> Extremum("max", Zero, x)
      [] op = "sigmoid_fwd" -> ScalarSigmoid(x)
      [] op = "gelu_fwd"    -> Mul(x, ScalarCdf(x))
      [] op = "gelu_approx_tanh_fwd" -> ScalarGeluApproxTanh(x)
      [] OTHER              -> Call(op, x)

ScalarParametricForward(op, x, beta) ==
    CASE op = "softplus_fwd" -> Mul(Reciprocal(beta), Call("log", Add(One, Call("exp", Mul(beta, x)))))
      [] op = "swish_fwd"    -> Mul(x, ScalarSigmoid(Mul(beta, x)))
      [] op = "elu_fwd"      -> SelectPositive(x, x, Mul(beta, Sub(Call("exp", x), One)))

ScalarBackward(op, x, gradient) ==
    LET sigmoid == ScalarSigmoid(x)
        tanh    == Call("tanh_fwd", x)
    IN  CASE op = "relu_bwd"    -> SelectPositive(x, gradient, Zero)
          [] op = "sigmoid_bwd" -> Mul(gradient, Mul(sigmoid, Sub(One, sigmoid)))
          [] op = "tanh_bwd"    -> Mul(gradient, Sub(One, Mul(tanh, tanh)))
          [] op = "gelu_bwd"    -> ScalarGeluBwd(x, gradient)
          [] op = "gelu_approx_tanh_bwd" -> ScalarGeluApproxTanhBwd(x, gradient)

ScalarParametricBackward(op, x, gradient, beta) ==
    LET sigmoid == ScalarSigmoid(Mul(beta, x))
        swish   == Add(sigmoid, Mul(Mul(beta, x), Mul(sigmoid, Sub(One, sigmoid))))
    IN  Mul(gradient, CASE op = "softplus_bwd" -> sigmoid
                        [] op = "swish_bwd"    -> swish
                        [] op = "elu_bwd"      -> SelectPositive(x, One, Mul(beta, Call("exp", x))))

\* The exclusive or with one negates a truth value.
PointwiseScalar(op, in, attr) ==
    CASE op = "add" -> Add(in[1], in[2])
      [] op = "sub" -> Sub(in[1], in[2])
      [] op = "mul" -> Mul(in[1], in[2])
      [] op = "div" -> ScalarDiv(in[1], in[2])
      [] op = "rem" -> ScalarRem(in[1], in[2])
      [] op = "mod" -> ScalarMod(in[1], in[2])
      [] op \in {"min", "max"} -> Extremum(op, in[1], in[2])
      [] op = "add_square"     -> Add(in[1], Mul(in[2], in[2]))
      [] op = "binary_select"  -> Select(in[1], in[2], in[3])
      [] op = "cmp"            -> ScalarCompare(attr, in[1], in[2])
      [] op \in {"and", "or", "pow", "atan2"} -> Function(op, in)
      [] op \in {"softplus_fwd", "swish_fwd", "elu_fwd"} -> ScalarParametricForward(op, in[1], IntTerm(attr))
      [] op \in {"softplus_bwd", "swish_bwd", "elu_bwd"} -> ScalarParametricBackward(op, in[1], in[2], IntTerm(attr))
      [] Len(in) = 1           -> ScalarForward(op, in[1])
      [] OTHER                 -> ScalarBackward(op, in[1], in[2])

(***************************************************************************)
(* Reductions.  The accumulator is the mode's identity at first.           *)
(***************************************************************************)
ReductionIdentity(mode) ==
    CASE mode \in {"add", "avg", "norm1", "norm2"} -> "zero"
      [] mode \in {"mul", "mul_no_zeros"}          -> "one"
      [] mode = "min"                              -> "+inf"
      [] mode \in {"max", "amax"}                  -> "-inf"

ReductionScalar(mode, input, accumulator) ==
    LET x == CASE mode \in {"amax", "norm1"} -> Call("abs", input)
               [] mode = "norm2"             -> Mul(input, input)
               [] mode = "mul_no_zeros"      -> Call("nonzero", input)
               [] OTHER                      -> input
    IN  CASE accumulator = Pad(ReductionIdentity(mode)) -> x
          [] mode \in {"mul", "mul_no_zeros"} -> Mul(accumulator, x)
          [] mode = "min"                     -> Extremum("min", accumulator, x)
          [] mode \in {"max", "amax"}         -> Extremum("max", accumulator, x)
          [] OTHER                            -> Add(accumulator, x)

\* A product of operands added to the accumulator; integer saturation is left out.
MmaScalar(a, b, accumulator) == Add(accumulator, Mul(a, b))
=============================================================================
