------------------------ MODULE ReferencePointwise ------------------------
(***************************************************************************)
(* What the reference interpreter computes for the elements of pointwise   *)
(* operations (lib/Reference/ReferenceNode.cpp).                           *)
(***************************************************************************)
EXTENDS Terms

SqrtTwo          == Real("sqrt(2)")
SqrtTwoOverPi    == Real("sqrt(2/pi)")
InverseSqrtTwoPi == Real("1/sqrt(2 pi)")
GeluCoefficient  == Real("0.044715")
Logistic(x)      == Quotient(One, Add(One, Call("exp", Neg(x))))
Positive(x)      == Compare(">", "ordered", x, Zero)

\* tanh's argument in the approximation of GELU.
TanhInput(x) == Mul(SqrtTwoOverPi, Add(x, Mul(GeluCoefficient, Mul(x, Mul(x, x)))))

GeluApproxTanh(x) == Mul(Mul(Half, x), Add(One, Call("tanh_fwd", TanhInput(x))))

GeluApproxTanhBwd(x, gradient) ==
    LET t == Call("tanh_fwd", TanhInput(x))
        inputDerivative == Mul(SqrtTwoOverPi, Add(One, Mul(Mul(IntTerm(3), GeluCoefficient), Mul(x, x))))
        product == Mul(Sub(One, Mul(t, t)), inputDerivative)
    IN  Mul(gradient, Mul(Half, Add(Add(One, t), Mul(x, product))))

ExactGeluBackward(x, gradient) ==
    LET cdf == Mul(Half, Add(One, Call("erf", Quotient(x, SqrtTwo))))
        density == Mul(Call("exp", Neg(Mul(Half, Mul(x, x)))), InverseSqrtTwoPi)
    IN  Mul(gradient, Add(cdf, Mul(x, density)))

EvaluateUnaryPointwise(mode, x) ==
    CASE mode = "gelu_fwd"    -> Mul(Mul(Half, x), Add(One, Call("erf", Quotient(x, SqrtTwo))))
      [] mode = "neg"         -> Neg(x)
      [] mode = "relu_fwd"    -> Extremum("max", x, Zero)
      [] mode = "rsqrt"       -> Quotient(One, Call("sqrt", x))
      [] mode = "reciprocal"  -> Quotient(One, x)
      [] mode = "sigmoid_fwd" -> Logistic(x)
      [] mode = "gelu_approx_tanh_fwd" -> GeluApproxTanh(x)
      [] OTHER                -> Call(mode, x)

\* max(y, 0) + log1p(exp(-|y|)) is log(1 + exp(y)), without its overflow; expm1 is exp less 1.
EvaluateParametricUnaryPointwise(mode, x, beta) ==
    CASE mode = "softplus_fwd" -> Quotient(Call("log", Add(One, Call("exp", Mul(beta, x)))), beta)
      [] mode = "swish_fwd"    -> Quotient(x, Add(One, Call("exp", Neg(Mul(beta, x)))))
      [] mode = "elu_fwd"      -> Select(Positive(x), x, Mul(beta, Sub(Call("exp", x), One)))

\* The truncated remainder, and the floored one: it takes the sign of b.
ApplyRemainder(a, b) == Remainder(a, b)
ApplyModulo(a, b) ==
    LET r == ApplyRemainder(a, b) IN IF r # 0 /\ (r < 0) # (b < 0) THEN r + b ELSE r

EvaluateBinaryPointwise(mode, a, b) ==
    CASE mode = "add" -> Add(a, b)
      [] mode = "sub" -> Sub(a, b)
      [] mode = "mul" -> Mul(a, b)
      [] mode = "div" -> IF Divisible(a, b) THEN IntTerm(Truncated(a[2], b[2])) ELSE Quotient(a, b)
      [] mode \in {"max", "min"} -> Extremum(mode, a, b)
      [] mode = "mod" /\ Divisible(a, b) -> IntTerm(ApplyModulo(a[2], b[2]))
      [] mode = "rem" /\ Divisible(a, b) -> IntTerm(ApplyRemainder(a[2], b[2]))
      [] mode = "add_square"  -> Add(a, Mul(b, b))
      [] mode = "relu_bwd"    -> Select(Positive(a), b, Zero)
      [] mode = "gelu_bwd"    -> ExactGeluBackward(a, b)
      [] mode = "sigmoid_bwd" -> Mul(b, Mul(Logistic(a), Sub(One, Logistic(a))))
      [] mode = "tanh_bwd"    -> Mul(b, Sub(One, Mul(Call("tanh_fwd", a), Call("tanh_fwd", a))))
      [] mode = "gelu_approx_tanh_bwd" -> GeluApproxTanhBwd(a, b)
      [] OTHER                -> Function(mode, <<a, b>>)

EvaluateParametricBinaryPointwise(mode, x, gradient, beta) ==
    LET s == Logistic(Mul(beta, x))
    IN  CASE mode = "softplus_bwd" -> Mul(gradient, s)
          [] mode = "swish_bwd" -> Mul(gradient, Add(s, Mul(Mul(Mul(beta, x), s), Sub(One, s))))
          [] mode = "elu_bwd"   -> Mul(gradient, Select(Positive(x), One, Mul(beta, Call("exp", x))))

\* Comparators that are false for unordered operands, and those that are true.
EvaluateComparator(comparator, a, b) ==
    LET predicate ==
            CASE comparator \in {"eq", "oeq", "ueq"}  -> "="
              [] comparator \in {"neq", "one", "une"} -> "#"
              [] comparator \in {"gt", "ogt", "ugt"}  -> ">"
              [] comparator \in {"ge", "oge", "uge"}  -> ">="
              [] comparator \in {"lt", "olt", "ult"}  -> "<"
              [] comparator \in {"le", "ole", "ule"}  -> "<="
        unordered == comparator \in {"ueq", "une", "ugt", "uge", "ult", "ule"}
    IN  Compare(predicate, IF unordered THEN "unordered" ELSE "ordered", a, b)

\* Quotients and remainders of integers have no zero divisor.
ValidIntegerDivRemInputs(mode, b) == mode \notin {"div", "mod", "rem"} \/ b # Zero
=============================================================================
