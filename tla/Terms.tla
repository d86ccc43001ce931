------------------------------- MODULE Terms -------------------------------
(***************************************************************************)
(* The terms that the elements of tensors denote.                          *)
(*                                                                         *)
(* Integers are evaluated.  An element of an input is a symbol: two        *)
(* computations agree if they are the same polynomial over input elements, *)
(* reciprocals and applications of functions to polynomials, hence equal   *)
(* over the real numbers.  Rounding, overflow and NaN are left out.        *)
(*                                                                         *)
(* A polynomial maps monomials to coefficients, and a monomial maps its    *)
(* factors to exponents; none of either is 0.                              *)
(***************************************************************************)
EXTENDS Integers, Sequences, FiniteSets, SequencesExt, FiniteSetsExt

InputTerm(arg, addr)  == <<"in", arg, addr>>
IntTerm(n)            == <<"int", n>>
Zero                  == IntTerm(0)
One                   == IntTerm(1)
Real(name)            == <<"real", name>>        \* a constant such as the square root of 2
Undefined             == <<"undefined">>         \* read outside of a view
Pad(neutral)          == <<"pad", neutral>>      \* an element that only fills a tile
Whole(t)              == t[1] = "int"

(***************************************************************************)
(* Polynomials                                                             *)
(***************************************************************************)
Value(f, x) == IF x \in DOMAIN f THEN f[x] ELSE 0

\* The sum of two polynomials, and the product of two monomials.
Plus(f, g) ==
    LET all == DOMAIN f \cup DOMAIN g
    IN  [x \in {x \in all : Value(f, x) + Value(g, x) # 0} |-> Value(f, x) + Value(g, x)]
Negated(f) == [x \in DOMAIN f |-> -f[x]]
Shifted(f, monomial, c) == [m \in {Plus(n, monomial) : n \in DOMAIN f} |-> c * f[Plus(m, Negated(monomial))]]

Times(f, g) == FoldSet(LAMBDA m, sum : Plus(Shifted(g, m, f[m]), sum), <<>>, DOMAIN f)

Polynomial(t) ==
    CASE t[1] = "poly" -> t[2]
      [] Whole(t)      -> IF t[2] = 0 THEN <<>> ELSE <<>> :> t[2]
      [] OTHER         -> (t :> 1) :> 1

\* The term of a polynomial: a number and a single factor stand for themselves.
Normal(f) ==
    LET single == UNION {DOMAIN m : m \in DOMAIN f}
    IN  IF single = {} THEN IntTerm(Value(f, <<>>))
        ELSE IF \E t \in single : f = Polynomial(t) THEN CHOOSE t \in single : f = Polynomial(t)
        ELSE <<"poly", f>>

(***************************************************************************)
(* Operations                                                              *)
(***************************************************************************)
Strict(operands, t) == IF \E k \in DOMAIN operands : operands[k] = Undefined THEN Undefined ELSE t

Add(a, b) == Strict(<<a, b>>, Normal(Plus(Polynomial(a), Polynomial(b))))
Neg(a)    == Strict(<<a>>, Normal(Negated(Polynomial(a))))
Sub(a, b) == Strict(<<a, b>>, Normal(Plus(Polynomial(a), Negated(Polynomial(b)))))
Mul(a, b) ==
    Strict(<<a, b>>, IF Pad("zero") \in {a, b} THEN Pad("zero") ELSE Normal(Times(Polynomial(a), Polynomial(b))))

\* Only a monomial with coefficient 1 or -1 has its reciprocal among the monomials.
Reciprocal(a) ==
    LET f == Polynomial(a)
        m == CHOOSE m \in DOMAIN f : TRUE
    IN  Strict(<<a>>, IF Cardinality(DOMAIN f) = 1 /\ f[m] \in {1, -1}
                      THEN Normal(Negated(m) :> f[m]) ELSE Normal((a :> -1) :> 1))
Quotient(a, b) == Mul(a, Reciprocal(b))
Half == Reciprocal(IntTerm(2))

\* Integer division truncates.  Division by zero stands for itself.
Divisible(a, b) == Whole(a) /\ Whole(b) /\ b # Zero
Magnitude(n) == IF n < 0 THEN -n ELSE n
Truncated(m, n) ==
    LET q == Magnitude(m) \div Magnitude(n) IN IF (m < 0) = (n < 0) THEN q ELSE -q
Remainder(m, n) == m - n * Truncated(m, n)

Function(name, operands) == Strict(operands, <<"function", name, operands>>)
Call(name, a)            == Function(name, <<a>>)
Compare(predicate, ordering, a, b) == Strict(<<a, b>>, <<"compare", predicate, ordering, a, b>>)
Select(condition, a, b)  == Strict(<<condition, a, b>>, <<"select", condition, a, b>>)
Converted(a) == IF a[1] = "pad" THEN a ELSE Call("convert", a)

\* The largest or smallest of several terms.
Among(which, t) == IF t[1] = which THEN t[2] ELSE {t}
Extremum(which, a, b) ==
    LET all == Among(which, a) \cup Among(which, b)
    IN  Strict(<<a, b>>, IF Cardinality(all) = 1 THEN a ELSE <<which, all>>)

(***************************************************************************)
(* A reduction combines its elements with an associative and commutative   *)
(* operation, between a prologue on each of them and an epilogue.          *)
(***************************************************************************)
Combiner(mode) ==
    CASE mode \in {"add", "avg", "norm1", "norm2"} -> "add"
      [] mode \in {"mul", "mul_no_zeros"}          -> "mul"
      [] mode \in {"max", "amax"}                  -> "max"
      [] mode = "min"                              -> "min"

\* |x| is not below 0, so that 0 is neutral for amax although -inf is for max.
Identity(mode) ==
    CASE mode \in {"add", "amax", "avg", "norm1", "norm2"} -> "zero"
      [] mode \in {"mul", "mul_no_zeros"} -> "one"
      [] mode = "max" -> "-inf"
      [] mode = "min" -> "+inf"

\* Absolute values, squares and ones for zeros leave the identity as it is.
Prologue(mode, t) ==
    IF t = Pad(Identity(mode)) THEN t
    ELSE IF mode \in {"amax", "norm1"} THEN Call("abs", t)
    ELSE IF mode = "norm2" THEN Mul(t, t)
    ELSE IF mode = "mul_no_zeros" THEN Call("nonzero", t) ELSE t

Epilogue(mode, size, t) ==
    IF mode = "norm2" THEN Call("sqrt", t)
    ELSE IF mode = "avg" THEN Quotient(t, IntTerm(size)) ELSE t

Combine(mode, a, b) ==
    IF a = Pad(Identity(mode)) THEN b
    ELSE IF b = Pad(Identity(mode)) THEN a
    ELSE CASE Combiner(mode) = "add" -> Add(a, b)
           [] Combiner(mode) = "mul" -> Mul(a, b)
           [] OTHER                  -> Extremum(Combiner(mode), a, b)

\* From the first element on.
Reduced(mode, terms) == FoldLeft(LAMBDA t, x : Combine(mode, t, x), Pad(Identity(mode)), terms)
=============================================================================
