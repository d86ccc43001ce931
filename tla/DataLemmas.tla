------------------------------ MODULE DataLemmas ------------------------------
(***************************************************************************)
(* Lemmas about the data the launch computations work on: induction and    *)
(* recursion over the naturals, division with remainder, and the folds of  *)
(* Shapes.  Induction is stated over a set instead of a predicate, and     *)
(* recursion over a step function instead of an operator: these forms are  *)
(* first-order, so the provers can instantiate them.                       *)
(***************************************************************************)
EXTENDS Shapes, FiniteSetTheorems, SequenceTheorems, WellFoundedInduction, TLAPS

-----------------------------------------------------------------------------
(* Induction and recursion.                                                *)

\* A set of naturals that holds 0 and the successors of its elements is Nat.
LEMMA SetInduction ==
  ASSUME NEW S, 0 \in S, \A n \in Nat : n \in S => n + 1 \in S
  PROVE  Nat \subseteq S
<1> SUFFICES ASSUME Nat \ S # {} PROVE FALSE
  OBVIOUS
<1>1. PICK x \in Nat \ S : \A y \in Nat \ S : ~ (<<y, x>> \in OpToRel(<, Nat))
  BY NatLessThanWellFounded, WFMin
<1>2. x # 0 /\ x - 1 \in Nat /\ x - 1 < x /\ (x - 1) + 1 = x
  OBVIOUS
<1>3. <<x - 1, x>> \in OpToRel(<, Nat)
  BY <1>2 DEF OpToRel
<1>4. x - 1 \in S
  BY <1>1, <1>2, <1>3
<1> QED BY <1>2, <1>4

\* The same up to a bound.
LEMMA IntervalInduction ==
  ASSUME NEW N \in Nat, NEW S, 0 \in S,
         \A n \in 0 .. N - 1 : n \in S => n + 1 \in S
  PROVE  0 .. N \subseteq S
<1> DEFINE U == {n \in Nat : n <= N => n \in S}
<1>1. 0 \in U  OBVIOUS
<1>2. \A n \in Nat : n \in U => n + 1 \in U  OBVIOUS
<1> HIDE DEF U
<1>3. Nat \subseteq U  BY <1>1, <1>2, SetInduction
<1> QED BY <1>3 DEF U

\* A nonempty set of numbers up to n has a greatest one.
LEMMA MaxOfInterval ==
  ASSUME NEW n \in Nat, NEW s \in SUBSET (1 .. n), s # {}
  PROVE  Max(s) \in s /\ \A y \in s : y <= Max(s)
<1> DEFINE U == {m \in 0 .. n : \A t \in SUBSET (1 .. m) :
                    t # {} => \E x \in t : \A y \in t : x >= y}
<1>1. 0 \in U
  <2>1. \A t \in SUBSET (1 .. 0) : t = {}  OBVIOUS
  <2>2. 0 \in 0 .. n  OBVIOUS
  <2> QED BY <2>1, <2>2
<1>2. \A m \in 0 .. n - 1 : m \in U => m + 1 \in U
  <2> SUFFICES ASSUME NEW m \in 0 .. n - 1, m \in U,
                      NEW t \in SUBSET (1 .. m + 1), t # {}
               PROVE  \E x \in t : \A y \in t : x >= y
    OBVIOUS
  <2>1. CASE m + 1 \in t      BY <2>1
  <2>2. CASE m + 1 \notin t
    <3>1. t \in SUBSET (1 .. m)  BY <2>2
    <3> QED BY <3>1
  <2> QED BY <2>1, <2>2
<1> HIDE DEF U
<1>3. 0 .. n \subseteq U  BY <1>1, <1>2, IntervalInduction
<1>4. n \in U  BY <1>3
<1>5. \E x \in s : \A y \in s : x >= y  BY <1>4 DEF U
<1>6. Max(s) \in s /\ \A y \in s : Max(s) >= y  BY <1>5 DEF Max
<1> QED BY <1>6

\* The greatest element of 1 .. k is k.
LEMMA MaxOfInitial ==
  ASSUME NEW k \in Nat, k # 0
  PROVE  Max(1 .. k) = k /\ (1 .. k) \ {k} = 1 .. k - 1
<1>1. k \in 1 .. k /\ 1 .. k # {}  OBVIOUS
<1>2. Max(1 .. k) \in 1 .. k /\ k <= Max(1 .. k)  BY <1>1, MaxOfInterval
<1> QED BY <1>2

\* A leading interval is a nonempty subset.
LEMMA LeadingInterval ==
  ASSUME NEW n \in Nat, NEW k \in 1 .. n
  PROVE  1 .. k \in SUBSET (1 .. n) /\ 1 .. k # {}
  OBVIOUS

\* The smaller of two numbers.
LEMMA MinOfTwo ==
  ASSUME NEW a \in Int, NEW b \in Int
  PROVE  Min({a, b}) = IF a <= b THEN a ELSE b
<1> DEFINE m == IF a <= b THEN a ELSE b
<1>1. \E x \in {a, b} : \A y \in {a, b} : x <= y  OBVIOUS
<1>2. Min({a, b}) \in {a, b} /\ \A y \in {a, b} : Min({a, b}) <= y
  BY <1>1 DEF Min
<1> QED BY <1>2

\* The greater of two numbers.
LEMMA MaxOfTwo ==
  ASSUME NEW a \in Int, NEW b \in Int
  PROVE  Max({a, b}) = IF a >= b THEN a ELSE b
<1>1. \E x \in {a, b} : \A y \in {a, b} : x >= y  OBVIOUS
<1>2. Max({a, b}) \in {a, b} /\ \A y \in {a, b} : Max({a, b}) >= y
  BY <1>1 DEF Max
<1> QED BY <1>2

\* The recursion of MapThenFoldSet over sets of indices, and the recursion of a
\* loop over the indices.  The lemmas are easier to use with these as names.
FoldsSets(f, N, base, step) ==
  \A s \in SUBSET (1 .. N) :
    f[s] = IF s = {} THEN base ELSE step[<<f[s \ {Max(s)}], Max(s)>>]

FoldsPrefixes(h, N, base, step) ==
  /\ h[0] = base
  /\ \A k \in 1 .. N : h[k] = step[<<h[k - 1], k>>]

\* What PrefixesOfFold needs of a function that folds sets of indices.
FoldsIntervals(iter, N, T, base, step) ==
  /\ iter[{}] = base
  /\ \A k \in 1 .. N : iter[1 .. k - 1] \in T =>
                          iter[1 .. k] = step[<<iter[1 .. k - 1], k>>]

OnPrefixes(iter, N) == [k \in 0 .. N |-> iter[1 .. k]]

\* The recursion of MapThenFoldSet, which removes the greatest element of a
\* set of indices, has a solution.
LEMMA SubsetRecursion ==
  ASSUME NEW N \in Nat, NEW T, NEW base \in T, NEW step \in [T \X (1 .. N) -> T]
  PROVE  \E f \in [SUBSET (1 .. N) -> T] : FoldsSets(f, N, base, step)
<1> DEFINE Solves(f, n) ==
             \A s \in SUBSET (1 .. n) :
               f[s] = IF s = {} THEN base ELSE step[<<f[s \ {Max(s)}], Max(s)>>]
           U == {n \in 0 .. N : \E f \in [SUBSET (1 .. n) -> T] : Solves(f, n)}
<1>1. 0 \in U
  <2> DEFINE f == [s \in SUBSET (1 .. 0) |-> base]
  <2>1. f \in [SUBSET (1 .. 0) -> T]  OBVIOUS
  <2>2. \A s \in SUBSET (1 .. 0) : s = {}  OBVIOUS
  <2>3. Solves(f, 0)  BY <2>2
  <2>4. 0 \in 0 .. N  OBVIOUS
  <2> HIDE DEF f, Solves
  <2> QED BY <2>1, <2>3, <2>4
<1>2. \A n \in 0 .. N - 1 : n \in U => n + 1 \in U
  <2> SUFFICES ASSUME NEW n \in 0 .. N - 1, NEW f \in [SUBSET (1 .. n) -> T], Solves(f, n)
               PROVE  \E g \in [SUBSET (1 .. n + 1) -> T] : Solves(g, n + 1)
    <3>1. \A n \in 0 .. N - 1 : n + 1 \in 0 .. N  OBVIOUS
    <3> HIDE DEF Solves
    <3> QED BY <3>1
  <2> DEFINE g == [s \in SUBSET (1 .. n + 1) |->
                     IF n + 1 \in s THEN step[<<f[s \ {n + 1}], n + 1>>] ELSE f[s]]
  <2>1. \A s \in SUBSET (1 .. n + 1) : s \ {n + 1} \in SUBSET (1 .. n)
    OBVIOUS
  <2>2. \A s \in SUBSET (1 .. n) : f[s] \in T
    OBVIOUS
  <2>3. g \in [SUBSET (1 .. n + 1) -> T]
    <3> SUFFICES ASSUME NEW s \in SUBSET (1 .. n + 1)
                 PROVE (IF n + 1 \in s THEN step[<<f[s \ {n + 1}], n + 1>>] ELSE f[s]) \in T
      OBVIOUS
    <3>1. CASE n + 1 \in s
      <4>1. <<f[s \ {n + 1}], n + 1>> \in T \X (1 .. N)  BY <2>1, <2>2
      <4> QED BY <3>1, <4>1
    <3>2. CASE n + 1 \notin s
      <4>1. s \ {n + 1} = s  BY <3>2
      <4> QED BY <2>1, <2>2, <3>2, <4>1
    <3> QED BY <3>1, <3>2
  <2>4. Solves(g, n + 1)
    <3> SUFFICES ASSUME NEW s \in SUBSET (1 .. n + 1)
                 PROVE  g[s] = IF s = {} THEN base ELSE step[<<g[s \ {Max(s)}], Max(s)>>]
      OBVIOUS
    <3>1. CASE n + 1 \in s
      <4>1. n + 1 \in Nat /\ s # {}  BY <3>1
      <4>2. Max(s) \in s /\ \A y \in s : y <= Max(s)  BY <4>1, MaxOfInterval
      <4>3. Max(s) = n + 1
        <5>1. Max(s) \in 1 .. n + 1  BY <4>2
        <5> QED BY <3>1, <4>2, <5>1
      <4>4. s \ {n + 1} \in SUBSET (1 .. n + 1) /\ n + 1 \notin s \ {n + 1}  OBVIOUS
      <4>5. g[s \ {n + 1}] = f[s \ {n + 1}]  BY <4>4
      <4>6. g[s] = step[<<f[s \ {n + 1}], n + 1>>]  BY <3>1
      <4> QED BY <4>1, <4>3, <4>5, <4>6
    <3>2. CASE n + 1 \notin s
      <4>1. s \in SUBSET (1 .. n)  BY <3>2
      <4>2. g[s] = f[s]  BY <3>2
      <4>3. CASE s = {}  BY <4>1, <4>2, <4>3
      <4>4. CASE s # {}
        <5>1. s \ {Max(s)} \in SUBSET (1 .. n + 1) /\ n + 1 \notin s \ {Max(s)}  BY <3>2
        <5>2. g[s \ {Max(s)}] = f[s \ {Max(s)}]  BY <5>1
        <5> QED BY <4>1, <4>2, <4>4, <5>2
      <4> QED BY <4>3, <4>4
    <3> QED BY <3>1, <3>2
  <2> HIDE DEF g, Solves
  <2> QED BY <2>3, <2>4
<1> HIDE DEF U, Solves
<1>3. 0 .. N \subseteq U  BY <1>1, <1>2, IntervalInduction
<1>4. N \in U  BY <1>3
<1> QED BY <1>4 DEF U, Solves, FoldsSets

\* A value folded over the sets 1 .. k is a sequence of values, one per k.
LEMMA PrefixesOfFold ==
  ASSUME NEW N \in Nat, NEW T, NEW base \in T, NEW step \in [T \X (1 .. N) -> T],
         NEW iter, FoldsIntervals(iter, N, T, base, step)
  PROVE  /\ OnPrefixes(iter, N) \in [0 .. N -> T]
         /\ FoldsPrefixes(OnPrefixes(iter, N), N, base, step)
<1> DEFINE U == {k \in 0 .. N : iter[1 .. k] \in T}
           h == [k \in 0 .. N |-> iter[1 .. k]]
<1>1. 1 .. 0 = {} /\ 0 \in 0 .. N  OBVIOUS
<1> USE DEF FoldsIntervals
<1>2. 0 \in U  BY <1>1
<1>3. \A k \in 0 .. N - 1 : k \in U => k + 1 \in U
  <2> SUFFICES ASSUME NEW k \in 0 .. N - 1, iter[1 .. k] \in T
               PROVE  k + 1 \in 0 .. N /\ iter[1 .. k + 1] \in T
    OBVIOUS
  <2>1. k + 1 \in 1 .. N /\ (k + 1) - 1 = k  OBVIOUS
  <2>2. iter[1 .. k + 1] = step[<<iter[1 .. k], k + 1>>]  BY <2>1
  <2> QED BY <2>1, <2>2
<1>4. 0 .. N \subseteq U
  <2> HIDE DEF U
  <2> QED BY <1>2, <1>3, IntervalInduction
<1>5. h \in [0 .. N -> T]  BY <1>4
<1>6. h[0] = base  BY <1>1
<1>7. \A k \in 1 .. N : h[k] = step[<<h[k - 1], k>>]
  <2> SUFFICES ASSUME NEW k \in 1 .. N PROVE h[k] = step[<<h[k - 1], k>>]
    OBVIOUS
  <2>1. k \in 0 .. N /\ k - 1 \in 0 .. N  OBVIOUS
  <2> QED BY <2>1, <1>4
<1>8. FoldsPrefixes(h, N, base, step)  BY <1>6, <1>7 DEF FoldsPrefixes
<1> QED BY <1>5, <1>8 DEF OnPrefixes

\* The value of a fold depends on the recursion only.
LEMMA RecursionUnique ==
  ASSUME NEW N \in Nat, NEW base, NEW step, NEW g, NEW h,
         FoldsPrefixes(g, N, base, step), FoldsPrefixes(h, N, base, step)
  PROVE  \A k \in 0 .. N : g[k] = h[k]
<1> DEFINE U == {k \in 0 .. N : g[k] = h[k]}
<1>1. 0 \in U  BY DEF FoldsPrefixes
<1>2. \A k \in 0 .. N - 1 : k \in U => k + 1 \in U
  <2> SUFFICES ASSUME NEW k \in 0 .. N - 1, g[k] = h[k]
               PROVE  k + 1 \in 0 .. N /\ g[k + 1] = h[k + 1]
    OBVIOUS
  <2>1. k + 1 \in 1 .. N /\ k + 1 \in 0 .. N /\ (k + 1) - 1 = k  OBVIOUS
  <2>2. g[k + 1] = step[<<g[(k + 1) - 1], k + 1>>] /\ h[k + 1] = step[<<h[(k + 1) - 1], k + 1>>]
    BY <2>1 DEF FoldsPrefixes
  <2> QED BY <2>1, <2>2
<1> HIDE DEF U
<1>3. 0 .. N \subseteq U  BY <1>1, <1>2, IntervalInduction
<1> QED BY <1>3 DEF U

-----------------------------------------------------------------------------
(* Division with remainder.                                                *)

\* Division with remainder, the form the other lemmas use.
LEMMA DivMod ==
  ASSUME NEW n \in Nat, NEW g \in Nat \ {0}
  PROVE  /\ n \div g \in Nat
         /\ n % g \in 0 .. g - 1
         /\ n = g * (n \div g) + (n % g)
  BY SMT

\* Multiples of g that differ by less than g are equal.
LEMMA MultipleUnique ==
  ASSUME NEW g \in Nat \ {0}, NEW q \in Nat, NEW p \in Nat,
         NEW r \in 0 .. g - 1, NEW s \in 0 .. g - 1,
         g * q + r = g * p + s
  PROVE  q = p /\ r = s
<1>1. CASE q < p
  <2>1. PICK d \in Nat : p = q + 1 + d  BY <1>1, SMT
  <2>2. g * p = g * q + g + g * d       BY <2>1, SMT
  <2>3. g * d \in Nat                   BY SMT
  <2>4. FALSE                           BY <2>2, <2>3, SMT
  <2> QED BY <2>4
<1>2. CASE p < q
  <2>1. PICK d \in Nat : q = p + 1 + d  BY <1>2, SMT
  <2>2. g * q = g * p + g + g * d       BY <2>1, SMT
  <2>3. g * d \in Nat                   BY SMT
  <2>4. FALSE                           BY <2>2, <2>3, SMT
  <2> QED BY <2>4
<1>3. CASE q = p  BY <1>3, SMT
<1> QED BY <1>1, <1>2, <1>3, SMT

\* A representation g * q + r with r < g is the division with remainder.
LEMMA ModOf ==
  ASSUME NEW g \in Nat \ {0}, NEW q \in Nat, NEW r \in 0 .. g - 1
  PROVE  (g * q + r) % g = r
<1>1. g * q + r \in Nat  BY SMT
<1> DEFINE n == g * q + r
<1>2. /\ n \div g \in Nat
      /\ n % g \in 0 .. g - 1
      /\ n = g * (n \div g) + (n % g)  BY <1>1, DivMod
<1> QED BY <1>2, MultipleUnique

\* One step of the loop stays in the residue class of the block.
LEMMA ModStep ==
  ASSUME NEW n \in Nat, NEW g \in Nat \ {0}
  PROVE  (n + g) % g = n % g
<1>1. PICK q \in Nat, r \in 0 .. g - 1 : q = n \div g /\ r = n % g /\ n = g * q + r  BY DivMod
<1>2. n + g = g * (q + 1) + r        BY <1>1, SMT
<1>3. (g * (q + 1) + r) % g = r      BY ModOf, SMT
<1> QED BY <1>1, <1>2, <1>3

\* A residue class has one member in every window of length g.
LEMMA ModWindow ==
  ASSUME NEW g \in Nat \ {0}, NEW m \in Nat, NEW n \in Nat,
         m % g = n % g, m <= n, n < m + g
  PROVE  n = m
<1>1. PICK q \in Nat, r \in 0 .. g - 1 : q = m \div g /\ r = m % g /\ m = g * q + r  BY DivMod
<1>2. PICK p \in Nat : n = g * p + r
  <2>1. PICK x \in Nat, s \in 0 .. g - 1 : x = n \div g /\ s = n % g /\ n = g * x + s  BY DivMod
  <2>2. s = r  BY <1>1, <2>1
  <2> QED BY <2>1, <2>2
<1>3. CASE q < p
  <2>1. PICK d \in Nat : p = q + 1 + d  BY <1>3, SMT
  <2>2. g * p = g * q + g + g * d       BY <2>1, SMT
  <2>3. g * d \in Nat                   BY SMT
  <2> QED BY <1>1, <1>2, <2>2, <2>3, SMT
<1>4. CASE p < q
  <2>1. PICK d \in Nat : q = p + 1 + d  BY <1>4, SMT
  <2>2. g * q = g * p + g + g * d       BY <2>1, SMT
  <2>3. g * d \in Nat                   BY SMT
  <2> QED BY <1>1, <1>2, <2>2, <2>3, SMT
<1>5. CASE q = p  BY <1>1, <1>2, <1>5, SMT
<1> QED BY <1>3, <1>4, <1>5, SMT

\* A multiple of a within m bounds the quotient from below.
LEMMA DivAtLeast ==
  ASSUME NEW a \in Nat \ {0}, NEW c \in Nat, NEW m \in Nat, a * c <= m
  PROVE  c <= m \div a
<1>1. PICK q \in Nat, t \in 0 .. a - 1 : q = m \div a /\ m = a * q + t  BY DivMod
<1> SUFFICES ASSUME c > q PROVE FALSE  BY <1>1
<1>2. PICK d \in Nat : c = q + 1 + d   BY SMT
<1>3. a * c = a * q + a + a * d        BY <1>2, SMT
<1>4. a * d \in Nat /\ a * q \in Nat   BY SMT
<1> QED BY <1>1, <1>3, <1>4

\* The quotient of a number below a multiple of a.
LEMMA DivLess ==
  ASSUME NEW a \in Nat \ {0}, NEW c \in Nat, NEW m \in Nat, m < a * c
  PROVE  m \div a < c
<1>1. PICK q \in Nat, t \in 0 .. a - 1 : q = m \div a /\ m = a * q + t  BY DivMod
<1> SUFFICES ASSUME q >= c PROVE FALSE  BY <1>1
<1>2. PICK d \in Nat : q = c + d       BY SMT
<1>3. a * q = a * c + a * d            BY <1>2, SMT
<1>4. a * d \in Nat /\ a * c \in Nat   BY SMT
<1> QED BY <1>1, <1>3, <1>4

\* A representation g * q + r with r < g is the division with remainder.
LEMMA DivOf ==
  ASSUME NEW g \in Nat \ {0}, NEW q \in Nat, NEW r \in 0 .. g - 1
  PROVE  (g * q + r) \div g = q
<1>1. g * q + r \in Nat  BY SMT
<1> DEFINE n == g * q + r
<1>2. n \div g \in Nat /\ n % g \in 0 .. g - 1 /\ n = g * (n \div g) + (n % g)
  BY <1>1, DivMod
<1> QED BY <1>2, MultipleUnique

\* A remainder is at most the number.
LEMMA ModAtMost ==
  ASSUME NEW n \in Nat, NEW g \in Nat \ {0}
  PROVE  n % g <= n
<1>1. PICK q \in Nat, r \in 0 .. g - 1 : r = n % g /\ n = g * q + r  BY DivMod
<1>2. g * q \in Nat  BY SMT
<1> QED BY <1>1, <1>2

\* A quotient is at most the number.
LEMMA DivAtMost ==
  ASSUME NEW n \in Nat, NEW g \in Nat \ {0}
  PROVE  n \div g <= n
<1>1. PICK q \in Nat, r \in 0 .. g - 1 : q = n \div g /\ n = g * q + r  BY DivMod
<1>2. PICK d \in Nat : g = d + 1  BY SMT
<1>3. g * q = d * q + q /\ d * q \in Nat  BY <1>2, SMT
<1> QED BY <1>1, <1>3

\* A remainder is its own remainder.
LEMMA SmallMod ==
  ASSUME NEW g \in Nat \ {0}, NEW b \in 0 .. g - 1
  PROVE  b % g = b
<1>1. g * 0 + b = b  BY SMT
<1> QED BY <1>1, ModOf

-----------------------------------------------------------------------------
(* The folds of Shapes.                                                    *)

\* The product of a sequence, by its leading products.
LEMMA ProductPrefixes ==
  ASSUME NEW s \in Seq(Int)
  PROVE  \E p \in [0 .. Len(s) -> Int] :
           /\ p[0] = 1
           /\ \A k \in 1 .. Len(s) : p[k] = p[k - 1] * s[k]
           /\ p[Len(s)] = Product(s)
<1> DEFINE N == Len(s)
           step == [x \in Int \X (1 .. N) |-> x[1] * s[x[2]]]
           Solution(f) == f = [t \in SUBSET (1 .. N) |->
                                 IF t = {} THEN 1 ELSE f[t \ {Max(t)}] * s[Max(t)]]
           iter == CHOOSE f : Solution(f)
<1>1. N \in Nat /\ DOMAIN s = 1 .. N /\ \A k \in 1 .. N : s[k] \in Int  OBVIOUS
<1>2. step \in [Int \X (1 .. N) -> Int]  BY <1>1
<1>3. PICK f \in [SUBSET (1 .. N) -> Int] : FoldsSets(f, N, 1, step)
  <2>1. N \in Nat /\ 1 \in Int  BY <1>1
  <2> HIDE DEF step, N, Solution
  <2> QED BY <2>1, <1>2, SubsetRecursion, Zenon
<1>4. \A t \in SUBSET (1 .. N) : t # {} =>
         step[<<f[t \ {Max(t)}], Max(t)>>] = f[t \ {Max(t)}] * s[Max(t)]
  <2> SUFFICES ASSUME NEW t \in SUBSET (1 .. N), t # {}
               PROVE  step[<<f[t \ {Max(t)}], Max(t)>>] = f[t \ {Max(t)}] * s[Max(t)]
    OBVIOUS
  <2>1. Max(t) \in 1 .. N  BY <1>1, MaxOfInterval
  <2>2. f[t \ {Max(t)}] \in Int  OBVIOUS
  <2> QED BY <2>1, <2>2
<1>5. Solution(f)
  <2> HIDE DEF step
  <2> QED BY <1>3, <1>4 DEF FoldsSets
<1>6. Solution(iter)  BY <1>5
<1>7. iter[{}] = 1  BY <1>6
<1>8. \A k \in 1 .. N : iter[1 .. k] = iter[1 .. k - 1] * s[k]
  <2> SUFFICES ASSUME NEW k \in 1 .. N PROVE iter[1 .. k] = iter[1 .. k - 1] * s[k]
    OBVIOUS
  <2>1. 1 .. k \in SUBSET (1 .. N) /\ 1 .. k # {}  OBVIOUS
  <2>2. Max(1 .. k) = k /\ (1 .. k) \ {k} = 1 .. k - 1  BY MaxOfInitial
  <2>3. iter[1 .. k] = iter[(1 .. k) \ {Max(1 .. k)}] * s[Max(1 .. k)]
    <3> HIDE DEF iter
    <3> QED BY <1>6, <2>1
  <2> QED BY <2>2, <2>3
<1>9. Product(s) = iter[1 .. N]
  BY <1>1, Zenon DEF Product, FoldLeft, MapThenFoldSet
<1> HIDE DEF iter
<1>10. FoldsIntervals(iter, N, Int, 1, step)
  BY <1>7, <1>8 DEF FoldsIntervals
<1> DEFINE h == OnPrefixes(iter, N)
<1>11. h \in [0 .. N -> Int] /\ FoldsPrefixes(h, N, 1, step)
  <2>1. N \in Nat /\ 1 \in Int  BY <1>1
  <2> HIDE DEF step, N, Solution
  <2> QED BY <2>1, <1>2, <1>10, PrefixesOfFold, Zenon
<1>12. h[N] = iter[1 .. N]  BY <1>1 DEF OnPrefixes
<1> HIDE DEF h
<1>13. \A k \in 1 .. N : h[k] = h[k - 1] * s[k]
  <2> SUFFICES ASSUME NEW k \in 1 .. N PROVE h[k] = h[k - 1] * s[k]
    OBVIOUS
  <2>0. k - 1 \in 0 .. N  OBVIOUS
  <2>1. h[k - 1] \in Int
    <3> HIDE DEF step, N
    <3> QED BY <1>11, <2>0
  <2> QED BY <1>11, <2>1 DEF FoldsPrefixes
<1> QED BY <1>9, <1>11, <1>12, <1>13 DEF FoldsPrefixes

\* The leading products of a sequence of naturals: a zero stays, and without one
\* they grow.
LEMMA ProductOfNats ==
  ASSUME NEW s \in Seq(Nat)
  PROVE  \E p \in [0 .. Len(s) -> Nat] :
           /\ p[0] = 1
           /\ \A k \in 1 .. Len(s) : p[k] = p[k - 1] * s[k]
           /\ p[Len(s)] = Product(s)
           /\ (\E k \in 1 .. Len(s) : s[k] = 0) => Product(s) = 0
           /\ (\A k \in 1 .. Len(s) : s[k] # 0) =>
                \A k \in 0 .. Len(s) : p[k] \in 1 .. Product(s)
<1> DEFINE N == Len(s)
<1>1. N \in Nat /\ s \in Seq(Int) /\ \A k \in 1 .. N : s[k] \in Nat  OBVIOUS
<1>2. PICK p \in [0 .. N -> Int] :
        /\ p[0] = 1
        /\ \A k \in 1 .. N : p[k] = p[k - 1] * s[k]
        /\ p[N] = Product(s)
  BY <1>1, ProductPrefixes
<1> HIDE DEF N
<1>3. \A k \in 0 .. N - 1 : k + 1 \in 1 .. N /\ k + 1 \in 0 .. N /\ k \in 0 .. N
                            /\ s[k + 1] \in Nat /\ p[k + 1] = p[k] * s[k + 1]
  <2> SUFFICES ASSUME NEW k \in 0 .. N - 1
               PROVE k + 1 \in 1 .. N /\ k + 1 \in 0 .. N /\ k \in 0 .. N
                     /\ s[k + 1] \in Nat /\ p[k + 1] = p[k] * s[k + 1]
    OBVIOUS
  <2>1. k + 1 \in 1 .. N /\ k + 1 \in 0 .. N /\ k \in 0 .. N /\ (k + 1) - 1 = k  BY <1>1
  <2> QED BY <1>1, <1>2, <2>1
<1>4. \A k \in 0 .. N : p[k] \in Nat
  <2> DEFINE U == {k \in 0 .. N : p[k] \in Nat}
  <2>1. 0 \in U  BY <1>1, <1>2
  <2>2. \A k \in 0 .. N - 1 : k \in U => k + 1 \in U
    <3> SUFFICES ASSUME NEW k \in 0 .. N - 1, p[k] \in Nat PROVE p[k + 1] \in Nat
      BY <1>3
    <3>1. s[k + 1] \in Nat /\ p[k + 1] = p[k] * s[k + 1]  BY <1>3
    <3>2. \A x, y \in Nat : x * y \in Nat  BY SMT
    <3> QED BY <3>1, <3>2
  <2> HIDE DEF U
  <2>3. 0 .. N \subseteq U  BY <1>1, <2>1, <2>2, IntervalInduction
  <2> QED BY <2>3 DEF U
<1>5. (\E k \in 1 .. N : s[k] = 0) => Product(s) = 0
  <2> DEFINE U == {m \in 0 .. N : (\E k \in 1 .. m : s[k] = 0) => p[m] = 0}
  <2>1. 0 \in U  BY <1>1
  <2>2. \A m \in 0 .. N - 1 : m \in U => m + 1 \in U
    <3> SUFFICES ASSUME NEW m \in 0 .. N - 1, m \in U,
                        NEW k \in 1 .. m + 1, s[k] = 0
                 PROVE  p[m + 1] = 0
      BY <1>3
    <3>1. p[m] \in Int /\ s[m + 1] \in Int /\ p[m + 1] = p[m] * s[m + 1]  BY <1>3, <1>4
    <3>2. CASE k = m + 1    BY <3>1, <3>2, SMT
    <3>3. CASE k # m + 1
      <4>1. k \in 1 .. m  BY <1>1, <3>3
      <4>2. p[m] = 0      BY <4>1
      <4> QED BY <3>1, <4>2, SMT
    <3> QED BY <3>2, <3>3
  <2> HIDE DEF U
  <2>3. 0 .. N \subseteq U  BY <1>1, <2>1, <2>2, IntervalInduction
  <2>4. N \in U  BY <1>1, <2>3
  <2> QED BY <1>2, <2>4 DEF U
<1>6. ASSUME \A k \in 1 .. N : s[k] # 0 PROVE \A k \in 0 .. N : p[k] \in 1 .. Product(s)
  <2> DEFINE U == {m \in 0 .. N : \A k \in 0 .. m : p[k] \in 1 .. p[m]}
  <2>1. 0 \in U  BY <1>1, <1>2
  <2>2. \A m \in 0 .. N - 1 : m \in U => m + 1 \in U
    <3> SUFFICES ASSUME NEW m \in 0 .. N - 1, m \in U, NEW k \in 0 .. m + 1
                 PROVE  p[k] \in 1 .. p[m + 1]
      BY <1>3
    <3>1. p[m] \in Nat /\ s[m + 1] \in Nat \ {0} /\ p[m + 1] = p[m] * s[m + 1]  BY <1>3, <1>4, <1>6
    <3>2. p[m] \in 1 .. p[m]  BY <1>1
    <3>3. \A x \in Nat \ {0}, y \in Nat \ {0} : x * y >= x  BY SMT
    <3>4. p[m + 1] \in Nat /\ p[m + 1] >= p[m] /\ p[m] >= 1  BY <1>3, <1>4, <3>1, <3>2, <3>3
    <3>5. CASE k = m + 1  BY <3>4, <3>5
    <3>6. CASE k # m + 1
      <4>1. k \in 0 .. m      BY <1>1, <3>6
      <4>2. p[k] \in 1 .. p[m]  BY <4>1
      <4> QED BY <3>4, <4>2
    <3> QED BY <3>5, <3>6
  <2> HIDE DEF U
  <2>3. 0 .. N \subseteq U  BY <1>1, <2>1, <2>2, IntervalInduction
  <2>4. N \in U  BY <1>1, <2>3
  <2> QED BY <1>2, <2>4 DEF U
<1>7. p \in [0 .. N -> Nat]  BY <1>4
<1> QED BY <1>2, <1>5, <1>6, <1>7 DEF N

\* The sum of a sequence, by its leading sums.
LEMMA SumPrefixes ==
  ASSUME NEW s \in Seq(Int)
  PROVE  \E p \in [0 .. Len(s) -> Int] :
           /\ p[0] = 0
           /\ \A k \in 1 .. Len(s) : p[k] = p[k - 1] + s[k]
           /\ p[Len(s)] = SumOf(s)
<1> DEFINE N == Len(s)
           step == [x \in Int \X (1 .. N) |-> x[1] + s[x[2]]]
           Solution(f) == f = [t \in SUBSET (1 .. N) |->
                                 IF t = {} THEN 0 ELSE f[t \ {Max(t)}] + s[Max(t)]]
           iter == CHOOSE f : Solution(f)
<1>1. N \in Nat /\ DOMAIN s = 1 .. N /\ \A k \in 1 .. N : s[k] \in Int  OBVIOUS
<1>2. step \in [Int \X (1 .. N) -> Int]  BY <1>1
<1>3. PICK f \in [SUBSET (1 .. N) -> Int] : FoldsSets(f, N, 0, step)
  <2>1. N \in Nat /\ 0 \in Int  BY <1>1
  <2> HIDE DEF step, N, Solution
  <2> QED BY <2>1, <1>2, SubsetRecursion, Zenon
<1>4. \A t \in SUBSET (1 .. N) : t # {} =>
         step[<<f[t \ {Max(t)}], Max(t)>>] = f[t \ {Max(t)}] + s[Max(t)]
  <2> SUFFICES ASSUME NEW t \in SUBSET (1 .. N), t # {}
               PROVE  step[<<f[t \ {Max(t)}], Max(t)>>] = f[t \ {Max(t)}] + s[Max(t)]
    OBVIOUS
  <2>1. Max(t) \in 1 .. N  BY <1>1, MaxOfInterval
  <2>2. f[t \ {Max(t)}] \in Int  OBVIOUS
  <2> QED BY <2>1, <2>2
<1>5. Solution(f)
  <2> HIDE DEF step
  <2> QED BY <1>3, <1>4 DEF FoldsSets
<1>6. Solution(iter)  BY <1>5
<1>7. iter[{}] = 0  BY <1>6
<1>8. \A k \in 1 .. N : iter[1 .. k] = iter[1 .. k - 1] + s[k]
  <2> SUFFICES ASSUME NEW k \in 1 .. N PROVE iter[1 .. k] = iter[1 .. k - 1] + s[k]
    OBVIOUS
  <2>1. 1 .. k \in SUBSET (1 .. N) /\ 1 .. k # {}  OBVIOUS
  <2>2. Max(1 .. k) = k /\ (1 .. k) \ {k} = 1 .. k - 1  BY MaxOfInitial
  <2>3. iter[1 .. k] = iter[(1 .. k) \ {Max(1 .. k)}] + s[Max(1 .. k)]
    <3> HIDE DEF iter
    <3> QED BY <1>6, <2>1
  <2> QED BY <2>2, <2>3
<1>9. SumOf(s) = iter[1 .. N]
  BY <1>1, Zenon DEF SumOf, FoldLeft, MapThenFoldSet
<1> HIDE DEF iter
<1>10. FoldsIntervals(iter, N, Int, 0, step)
  BY <1>7, <1>8 DEF FoldsIntervals
<1> DEFINE h == OnPrefixes(iter, N)
<1>11. h \in [0 .. N -> Int] /\ FoldsPrefixes(h, N, 0, step)
  <2>1. N \in Nat /\ 0 \in Int  BY <1>1
  <2> HIDE DEF step, N, Solution
  <2> QED BY <2>1, <1>2, <1>10, PrefixesOfFold, Zenon
<1>12. h[N] = iter[1 .. N]  BY <1>1 DEF OnPrefixes
<1> HIDE DEF h
<1>13. \A k \in 1 .. N : h[k] = h[k - 1] + s[k]
  <2> SUFFICES ASSUME NEW k \in 1 .. N PROVE h[k] = h[k - 1] + s[k]
    OBVIOUS
  <2>0. k - 1 \in 0 .. N  OBVIOUS
  <2>1. h[k - 1] \in Int
    <3> HIDE DEF step, N
    <3> QED BY <1>11, <2>0
  <2> QED BY <1>11, <2>1 DEF FoldsPrefixes
<1> QED BY <1>9, <1>11, <1>12, <1>13 DEF FoldsPrefixes

\* The sums of the leading parts of a sequence are its leading sums.
LeadingSum(n, k) == SumOf([j \in 1 .. k |-> n[j]])

\* The sums of the first numbers of a sequence, one after the other up to SumOf.
LEMMA LeadingSums ==
  ASSUME NEW N \in Nat, NEW n \in [1 .. N -> Int]
  PROVE  /\ LeadingSum(n, 0) = 0
         /\ \A k \in 0 .. N : LeadingSum(n, k) \in Int
         /\ \A k \in 1 .. N : LeadingSum(n, k) = LeadingSum(n, k - 1) + n[k]
         /\ LeadingSum(n, N) = SumOf(n)
<1> DEFINE part(k) == [j \in 1 .. k |-> n[j]]
<1>1. ASSUME NEW k \in 0 .. N
      PROVE  \E q \in [0 .. k -> Int] :
               /\ q[0] = 0
               /\ \A m \in 1 .. k : q[m] = q[m - 1] + n[m]
               /\ q[k] = LeadingSum(n, k)
  <2>1. k \in Nat /\ \A j \in 1 .. k : j \in 1 .. N /\ n[j] \in Int  OBVIOUS
  <2>2. part(k) \in [1 .. k -> Int] /\ \A j \in 1 .. k : part(k)[j] = n[j]  BY <2>1
  <2> HIDE DEF part
  <2>3. part(k) \in Seq(Int) /\ Len(part(k)) = k
    <3>1. part(k) \in Seq(Int)  BY <2>1, <2>2, SeqDef
    <3>2. DOMAIN part(k) = 1 .. k  BY <2>2
    <3> QED BY <2>1, <3>1, <3>2, LenProperties
  <2>4. PICK q \in [0 .. k -> Int] :
          /\ q[0] = 0
          /\ \A m \in 1 .. k : q[m] = q[m - 1] + part(k)[m]
          /\ q[k] = SumOf(part(k))
    BY <2>3, SumPrefixes
  <2>5. q[k] = LeadingSum(n, k)  BY <2>4 DEF LeadingSum, part
  <2> QED BY <2>2, <2>4, <2>5
<1>2. \A k \in 0 .. N : LeadingSum(n, k) \in Int
  <2> SUFFICES ASSUME NEW k \in 0 .. N PROVE LeadingSum(n, k) \in Int
    OBVIOUS
  <2>1. PICK q \in [0 .. k -> Int] : q[k] = LeadingSum(n, k)  BY <1>1
  <2>2. k \in 0 .. k  OBVIOUS
  <2> QED BY <2>1, <2>2
<1>3. LeadingSum(n, 0) = 0
  <2>1. 0 \in 0 .. N  OBVIOUS
  <2> QED BY <1>1, <2>1
<1>4. ASSUME NEW k \in 1 .. N
      PROVE  LeadingSum(n, k) = LeadingSum(n, k - 1) + n[k]
  <2> DEFINE l == k - 1
  <2>1. k \in 0 .. N /\ l \in 0 .. N /\ l \in Nat /\ k \in 1 .. k /\ l \in 0 .. l
        /\ \A m \in 1 .. l : m \in 1 .. k
    OBVIOUS
  <2>2. PICK q \in [0 .. k -> Int] :
          q[0] = 0 /\ (\A m \in 1 .. k : q[m] = q[m - 1] + n[m]) /\ q[k] = LeadingSum(n, k)
    BY <1>1, <2>1
  <2>3. PICK h \in [0 .. l -> Int] :
          h[0] = 0 /\ (\A m \in 1 .. l : h[m] = h[m - 1] + n[m]) /\ h[l] = LeadingSum(n, l)
    <3> HIDE DEF l
    <3> QED BY <1>1, <2>1
  <2> DEFINE U == {m \in 0 .. l : h[m] = q[m]}
  <2>4. 0 \in U  BY <2>1, <2>2, <2>3
  <2>5. \A m \in 0 .. l - 1 : m \in U => m + 1 \in U
    <3> HIDE DEF l
    <3> SUFFICES ASSUME NEW m \in 0 .. l - 1, h[m] = q[m]
                 PROVE  m + 1 \in 0 .. l /\ h[m + 1] = q[m + 1]
      OBVIOUS
    <3>0. l \in Nat  BY <2>1
    <3>4. m + 1 \in 1 .. l /\ m + 1 \in 0 .. l /\ (m + 1) - 1 = m  BY <3>0
    <3>1. m + 1 \in 1 .. k  BY <2>1, <3>4
    <3>2. h[m + 1] = h[m] + n[m + 1]  BY <2>3, <3>4
    <3>3. q[m + 1] = q[m] + n[m + 1]  BY <2>2, <3>1, <3>4
    <3> QED BY <3>2, <3>3, <3>4
  <2>6. l \in U
    <3> HIDE DEF U, l
    <3>1. 0 .. l \subseteq U  BY <2>1, <2>4, <2>5, IntervalInduction
    <3> QED BY <2>1, <3>1
  <2>7. q[k] = q[k - 1] + n[k]  BY <2>1, <2>2
  <2> QED BY <2>2, <2>3, <2>6, <2>7
<1>5. LeadingSum(n, N) = SumOf(n)
  <2>1. part(N) = n  OBVIOUS
  <2> QED BY <2>1 DEF LeadingSum
<1> QED BY <1>2, <1>3, <1>4, <1>5

\* Larger terms have the larger sum.
LEMMA SumMonotone ==
  ASSUME NEW N \in Nat, NEW a \in [1 .. N -> Int], NEW b \in [1 .. N -> Int],
         \A i \in 1 .. N : a[i] <= b[i]
  PROVE  SumOf(a) <= SumOf(b)
<1>1. /\ LeadingSum(a, 0) = 0 /\ LeadingSum(a, N) = SumOf(a)
      /\ \A k \in 0 .. N : LeadingSum(a, k) \in Int
      /\ \A k \in 1 .. N : LeadingSum(a, k) = LeadingSum(a, k - 1) + a[k]
  BY LeadingSums
<1>2. /\ LeadingSum(b, 0) = 0 /\ LeadingSum(b, N) = SumOf(b)
      /\ \A k \in 0 .. N : LeadingSum(b, k) \in Int
      /\ \A k \in 1 .. N : LeadingSum(b, k) = LeadingSum(b, k - 1) + b[k]
  BY LeadingSums
<1> DEFINE U == {k \in 0 .. N : LeadingSum(a, k) <= LeadingSum(b, k)}
<1>3. 0 \in U  BY <1>1, <1>2
<1>4. \A k \in 0 .. N - 1 : k \in U => k + 1 \in U
  <2> SUFFICES ASSUME NEW k \in 0 .. N - 1, LeadingSum(a, k) <= LeadingSum(b, k)
               PROVE  k + 1 \in 0 .. N /\ LeadingSum(a, k + 1) <= LeadingSum(b, k + 1)
    OBVIOUS
  <2>1. k + 1 \in 1 .. N /\ k + 1 \in 0 .. N /\ k \in 0 .. N /\ (k + 1) - 1 = k  OBVIOUS
  <2>2. /\ LeadingSum(a, k + 1) = LeadingSum(a, k) + a[k + 1]
        /\ LeadingSum(b, k + 1) = LeadingSum(b, k) + b[k + 1]
    BY <1>1, <1>2, <2>1
  <2>3. LeadingSum(a, k) \in Int /\ LeadingSum(b, k) \in Int /\ a[k + 1] \in Int /\ b[k + 1] \in Int
        /\ a[k + 1] <= b[k + 1]
    BY <1>1, <1>2, <2>1
  <2> QED BY <2>1, <2>2, <2>3
<1> HIDE DEF U
<1>5. N \in U
  <2>1. 0 .. N \subseteq U  BY <1>3, <1>4, IntervalInduction
  <2> QED BY <2>1
<1> QED BY <1>1, <1>2, <1>5 DEF U

\* A function on 1 .. n is a sequence.
LEMMA FunctionIsSeq ==
  ASSUME NEW E, NEW n \in Nat, NEW f \in [1 .. n -> E]
  PROVE  f \in Seq(E) /\ Len(f) = n
<1>1. f \in Seq(E)  BY SeqDef
<1>2. DOMAIN f = 1 .. Len(f) /\ Len(f) \in Nat  BY <1>1, LenProperties
<1>3. DOMAIN f = 1 .. n  OBVIOUS
<1>4. PICK m \in Nat : m = Len(f)  BY <1>2
<1>5. 1 .. m = 1 .. n  BY <1>2, <1>3, <1>4
<1>6. m = n
  <2>1. CASE m < n
    <3>1. n \in 1 .. n /\ n \notin 1 .. m  BY <2>1
    <3> QED BY <1>5, <3>1
  <2>2. CASE n < m
    <3>1. m \in 1 .. m /\ m \notin 1 .. n  BY <2>2
    <3> QED BY <1>5, <3>1
  <2> QED BY <2>1, <2>2
<1> QED BY <1>1, <1>4, <1>6

\* A sequence of sequences, concatenated from the left.
LEMMA FlattenPrefixes ==
  ASSUME NEW E, NEW ss \in Seq(Seq(E))
  PROVE  \E h \in [0 .. Len(ss) -> Seq(E)] :
           /\ h[0] = <<>>
           /\ \A k \in 1 .. Len(ss) : h[k] = h[k - 1] \o ss[k]
           /\ h[Len(ss)] = FlattenSeq(ss)
<1>0. PICK N : N = Len(ss)  OBVIOUS
<1> DEFINE T == Seq(E)
           step == [x \in T \X (1 .. N) |-> x[1] \o ss[x[2]]]
           Solution(f) == f = [i \in 1 .. N |-> IF i = 1 THEN ss[i] ELSE f[i - 1] \o ss[i]]
<1>1. N \in Nat /\ \A k \in 1 .. N : ss[k] \in T  BY <1>0
<1>2. \A x \in T, k \in 1 .. N : x \o ss[k] \in T  BY <1>1, ConcatProperties
<1>3. step \in [T \X (1 .. N) -> T]
  <2> HIDE DEF T
  <2> QED BY <1>2
<1>4. <<>> \in T  BY EmptySeq
<1>5. PICK g \in [SUBSET (1 .. N) -> T] : FoldsSets(g, N, <<>>, step)
  <2> HIDE DEF step, T
  <2> QED BY <1>1, <1>3, <1>4, SubsetRecursion, Zenon
<1>6. FoldsIntervals(g, N, T, <<>>, step)
  <2>1. g[{}] = <<>>  BY <1>5 DEF FoldsSets
  <2>2. ASSUME NEW k \in 1 .. N PROVE g[1 .. k] = step[<<g[1 .. k - 1], k>>]
    <3>1. 1 .. k \in SUBSET (1 .. N) /\ 1 .. k # {}  BY <1>1, LeadingInterval
    <3>2. Max(1 .. k) = k /\ (1 .. k) \ {k} = 1 .. k - 1  BY <1>1, MaxOfInitial
    <3>3. g[1 .. k] = step[<<g[(1 .. k) \ {Max(1 .. k)}], Max(1 .. k)>>]
      <4> HIDE DEF step, T
      <4> QED BY <1>5, <3>1 DEF FoldsSets
    <3> HIDE DEF step
    <3> QED BY <3>2, <3>3
  <2> HIDE DEF step, T
  <2> QED BY <2>1, <2>2 DEF FoldsIntervals
<1> DEFINE h == OnPrefixes(g, N)
<1>7. h \in [0 .. N -> T] /\ FoldsPrefixes(h, N, <<>>, step)
  <2> HIDE DEF step, T
  <2> QED BY <1>1, <1>3, <1>4, <1>6, PrefixesOfFold, Zenon
<1> HIDE DEF h
<1>8. h[0] = <<>> /\ \A k \in 1 .. N : h[k] = h[k - 1] \o ss[k]
  <2>1. h[0] = <<>>  BY <1>7 DEF FoldsPrefixes
  <2> SUFFICES ASSUME NEW k \in 1 .. N PROVE h[k] = h[k - 1] \o ss[k]
    BY <2>1
  <2>2. k - 1 \in 0 .. N  BY <1>1
  <2>3. h[k - 1] \in T
    <3> HIDE DEF T
    <3> QED BY <1>7, <2>2
  <2> HIDE DEF T
  <2> QED BY <1>7, <2>3 DEF FoldsPrefixes
<1>9. h[N] = FlattenSeq(ss)
  <2>1. CASE N = 0
    <3>1. ss = <<>>
      <4>1. ss # <<>> => Len(ss) \in Nat \ {0}  BY EmptySeq
      <4> QED BY <1>0, <2>1, <4>1
    <3>2. FlattenSeq(ss) = ss  BY <1>0, <2>1, Zenon DEF FlattenSeq
    <3> QED BY <1>8, <2>1, <3>1, <3>2
  <2>2. CASE N # 0
    <3> DEFINE f == [i \in 1 .. N |-> h[i]]
    <3>1. \A i \in 1 .. N : h[i] = IF i = 1 THEN ss[i] ELSE f[i - 1] \o ss[i]
      <4> SUFFICES ASSUME NEW i \in 1 .. N PROVE h[i] = IF i = 1 THEN ss[i] ELSE f[i - 1] \o ss[i]
        OBVIOUS
      <4>1. h[i] = h[i - 1] \o ss[i] /\ ss[i] \in Seq(E)  BY <1>1, <1>8
      <4>2. CASE i = 1
        <5>1. i - 1 = 0  BY <4>2
        <5>3. h[i] = <<>> \o ss[i]  BY <1>8, <4>1, <5>1
        <5>2. <<>> \o ss[i] = ss[i]  BY <4>1, ConcatEmptySeq
        <5> QED BY <4>2, <5>2, <5>3
      <4>3. CASE i # 1
        <5>1. i - 1 \in 1 .. N  BY <1>1, <4>3
        <5>2. f[i - 1] = h[i - 1]  BY <5>1
        <5> QED BY <4>1, <4>3, <5>2
      <4> QED BY <4>2, <4>3
    <3>2. Solution(f)
      <4>1. f = [i \in 1 .. N |-> IF i = 1 THEN ss[i] ELSE f[i - 1] \o ss[i]]
        <5>1. PICK e : e = f  OBVIOUS
        <5>2. e = [i \in 1 .. N |-> h[i]]  BY <5>1
        <5>3. \A i \in 1 .. N : h[i] = IF i = 1 THEN ss[i] ELSE e[i - 1] \o ss[i]  BY <3>1, <5>1
        <5>4. e = [i \in 1 .. N |-> IF i = 1 THEN ss[i] ELSE e[i - 1] \o ss[i]]  BY <5>2, <5>3
        <5> QED BY <5>1, <5>4
      <4> QED BY <4>1
    <3> HIDE DEF f
    <3> DEFINE r == CHOOSE f2 : Solution(f2)
    <3>3. Solution(r)
      <4> HIDE DEF Solution
      <4> QED BY <3>2
    <3>4. FlattenSeq(ss) = r[N]
      BY <1>0, <2>2, Zenon DEF FlattenSeq
    <3> HIDE DEF r
    <3> DEFINE U == {k \in 0 .. N : k = 0 \/ r[k] = h[k]}
    <3>5. 0 \in U  BY <1>1
    <3>6. \A k \in 0 .. N - 1 : k \in U => k + 1 \in U
      <4> SUFFICES ASSUME NEW k \in 0 .. N - 1, k = 0 \/ r[k] = h[k]
                   PROVE  k + 1 \in 0 .. N /\ r[k + 1] = h[k + 1]
        OBVIOUS
      <4>1. k + 1 \in 1 .. N /\ k + 1 \in 0 .. N /\ (k + 1) - 1 = k  BY <1>1
      <4>2. r[k + 1] = IF k + 1 = 1 THEN ss[k + 1] ELSE r[(k + 1) - 1] \o ss[k + 1]
        BY <3>3, <4>1
      <4>3. h[k + 1] = IF k + 1 = 1 THEN ss[k + 1] ELSE f[(k + 1) - 1] \o ss[k + 1]
        BY <3>1, <4>1
      <4>4. CASE k = 0  BY <4>1, <4>2, <4>3, <4>4
      <4>5. CASE k # 0
        <5>1. k \in 1 .. N /\ k + 1 # 1  BY <1>1, <4>5
        <5>2. f[k] = h[k]  BY <5>1 DEF f
        <5> QED BY <4>1, <4>2, <4>3, <4>5, <5>1, <5>2
      <4> QED BY <4>4, <4>5
    <3> HIDE DEF U
    <3>7. 0 .. N \subseteq U  BY <1>1, <3>5, <3>6, IntervalInduction
    <3>8. N \in U  BY <1>1, <3>7
    <3> QED BY <2>2, <3>4, <3>8 DEF U
  <2> QED BY <2>1, <2>2
<1> HIDE DEF T
<1> QED BY <1>0, <1>7, <1>8, <1>9 DEF T

\* Where the parts of a flattened sequence are: behind the sum of the lengths of
\* the parts before them.
FlatParts(E, N, ss, n) ==
  /\ FlattenSeq(ss) \in Seq(E)
  /\ Len(FlattenSeq(ss)) = SumOf(n)
  /\ \A i \in 1 .. N : \A j \in 1 .. n[i] :
       /\ LeadingSum(n, i - 1) + j \in 1 .. Len(FlattenSeq(ss))
       /\ FlattenSeq(ss)[LeadingSum(n, i - 1) + j] = ss[i][j]

\* The second part of a concatenation comes after the first.
LEMMA AfterPrefix ==
  ASSUME NEW a \in Nat, NEW b \in Nat, NEW c, c = a + b, NEW x \in 1 .. b
  PROVE  a + x \in 1 .. c
BY SMT

\* The elements of a concatenation.
LEMMA ConcatAt ==
  ASSUME NEW E, NEW q \in Seq(E), NEW s \in Seq(E), NEW r, r = q \o s
  PROVE  /\ Len(r) = Len(q) + Len(s) /\ Len(q) \in Nat /\ Len(s) \in Nat
         /\ \A i \in 1 .. Len(q) : r[i] = q[i]
         /\ \A j \in 1 .. Len(s) : r[Len(q) + j] = s[j]
<1>1. /\ Len(q \o s) = Len(q) + Len(s) /\ Len(q) \in Nat /\ Len(s) \in Nat
      /\ \A i \in 1 .. Len(q) + Len(s) : (q \o s)[i] = IF i <= Len(q) THEN q[i] ELSE s[i - Len(q)]
  BY ConcatProperties, LenProperties
<1>2. \A i \in 1 .. Len(q) : i \in 1 .. Len(q) + Len(s) /\ i <= Len(q)  BY <1>1
<1>3. \A j \in 1 .. Len(s) : /\ Len(q) + j \in 1 .. Len(q) + Len(s)
                             /\ ~(Len(q) + j <= Len(q)) /\ (Len(q) + j) - Len(q) = j
  BY <1>1
<1>4. \A i \in 1 .. Len(q) : (q \o s)[i] = q[i]  BY <1>1, <1>2
<1>5. \A j \in 1 .. Len(s) : (q \o s)[Len(q) + j] = s[j]  BY <1>1, <1>3
<1> QED BY <1>1, <1>4, <1>5

\* Part i of a concatenation stands behind the lengths of the parts before it.
LEMMA FlattenAt ==
  ASSUME NEW E, NEW N \in Nat, NEW ss \in [1 .. N -> Seq(E)], NEW n \in [1 .. N -> Int],
         \A i \in 1 .. N : n[i] = Len(ss[i])
  PROVE  FlatParts(E, N, ss, n)
<1>0. ss \in Seq(Seq(E)) /\ N = Len(ss)
  <2> DEFINE T == Seq(E)
  <2>1. ss \in [1 .. N -> T]  OBVIOUS
  <2> HIDE DEF T
  <2>2. ss \in Seq(T) /\ Len(ss) = N  BY <2>1, FunctionIsSeq
  <2> QED BY <2>2 DEF T
<1>1. N \in Nat /\ \A i \in 1 .. N : ss[i] \in Seq(E) /\ n[i] = Len(ss[i]) /\ n[i] \in Nat
  BY <1>0, LenProperties
<1>2. PICK h \in [0 .. N -> Seq(E)] :
        /\ h[0] = <<>>
        /\ \A k \in 1 .. N : h[k] = h[k - 1] \o ss[k]
        /\ h[N] = FlattenSeq(ss)
  BY <1>0, FlattenPrefixes
<1>3. PICK o : o = [k \in 0 .. N |-> LeadingSum(n, k)]  OBVIOUS
<1>4. /\ o[0] = 0 /\ o[N] = SumOf(n)
      /\ \A k \in 1 .. N : o[k] = o[k - 1] + n[k]
      /\ \A k \in 0 .. N : o[k] = LeadingSum(n, k)
  <2>1. /\ LeadingSum(n, 0) = 0 /\ LeadingSum(n, N) = SumOf(n)
        /\ \A k \in 1 .. N : LeadingSum(n, k) = LeadingSum(n, k - 1) + n[k]
    BY <1>0, <1>1, LeadingSums
  <2>2. 0 \in 0 .. N /\ N \in 0 .. N /\ \A k \in 1 .. N : k \in 0 .. N /\ k - 1 \in 0 .. N
    BY <1>1
  <2> QED BY <1>3, <2>1, <2>2
<1> DEFINE Placed(q, m) ==
             /\ Len(q) = o[m]
             /\ \A i \in 1 .. m : \A j \in 1 .. n[i] :
                  o[i - 1] + j \in 1 .. Len(q) /\ q[o[i - 1] + j] = ss[i][j]
           U == {m \in 0 .. N : Placed(h[m], m)}
<1>5. 0 \in U
  <2>1. Len(<<>>) = 0 /\ 0 \in 0 .. N  BY <1>1
  <2> QED BY <1>2, <1>4, <2>1
<1>6. \A m \in 0 .. N - 1 : m \in U => m + 1 \in U
  <2> SUFFICES ASSUME NEW m \in 0 .. N - 1, m \in U PROVE m + 1 \in U
    OBVIOUS
  <2>1. /\ m + 1 \in 1 .. N /\ m + 1 \in 0 .. N /\ m \in 0 .. N /\ (m + 1) - 1 = m
        /\ m \in Nat
    BY <1>1
  <2>2. PICK q : q = h[m]  OBVIOUS
  <2>3. PICK s : s = ss[m + 1]  OBVIOUS
  <2>4. PICK r : r = h[m + 1]  OBVIOUS
  <2>5. q \in Seq(E) /\ s \in Seq(E) /\ r = q \o s /\ n[m + 1] = Len(s)
        /\ o[m + 1] = o[m] + n[m + 1]
    BY <1>1, <1>2, <1>4, <2>1, <2>2, <2>3, <2>4
  <2>6. Placed(q, m)  BY <2>2
  <2>7. /\ Len(r) = Len(q) + Len(s) /\ Len(q) \in Nat /\ Len(s) \in Nat
        /\ \A i \in 1 .. Len(q) : r[i] = q[i]
        /\ \A j \in 1 .. Len(s) : r[Len(q) + j] = s[j]
    <3> HIDE DEF Placed, U
    <3> QED BY <2>5, ConcatAt
  <2>8. Len(r) = o[m + 1]  BY <2>5, <2>6, <2>7
  <2>9. ASSUME NEW i \in 1 .. m + 1, NEW j \in 1 .. n[i]
        PROVE  o[i - 1] + j \in 1 .. Len(r) /\ r[o[i - 1] + j] = ss[i][j]
    <3>1. CASE i \in 1 .. m
      <4>1. o[i - 1] + j \in 1 .. Len(q) /\ q[o[i - 1] + j] = ss[i][j]  BY <2>6, <3>1
      <4>2. \A x \in 1 .. Len(q) : x \in 1 .. Len(r)  BY <2>7
      <4> QED BY <2>7, <4>1, <4>2
    <3>2. CASE i = m + 1
      <4>1. o[i - 1] = Len(q) /\ j \in 1 .. Len(s) /\ ss[i] = s
        BY <2>1, <2>3, <2>5, <2>6, <3>2
      <4>3. Len(r) = Len(q) + Len(s) /\ Len(q) \in Nat /\ Len(s) \in Nat  BY <2>7
      <4>2. \A x \in 1 .. Len(s) : Len(q) + x \in 1 .. Len(r)  BY <4>3, AfterPrefix, Zenon
      <4> QED BY <2>7, <4>1, <4>2
    <3>3. i \in 1 .. m \/ i = m + 1  BY <2>1
    <3> QED BY <3>1, <3>2, <3>3
  <2>10. Placed(r, m + 1)  BY <2>8, <2>9
  <2> HIDE DEF Placed
  <2> QED BY <2>1, <2>4, <2>10
<1>7. Placed(h[N], N)
  <2> HIDE DEF U, Placed
  <2>1. 0 .. N \subseteq U  BY <1>1, <1>5, <1>6, IntervalInduction
  <2>2. N \in U  BY <1>1, <2>1
  <2> QED BY <2>2 DEF U
<1>8. N \in 0 .. N /\ \A i \in 1 .. N : i - 1 \in 0 .. N  BY <1>1
<1>9. FlattenSeq(ss) \in Seq(E)  BY <1>2, <1>8
<1>10. Len(FlattenSeq(ss)) = SumOf(n)  BY <1>2, <1>4, <1>7
<1>11. ASSUME NEW i \in 1 .. N, NEW j \in 1 .. n[i]
       PROVE  /\ LeadingSum(n, i - 1) + j \in 1 .. Len(FlattenSeq(ss))
              /\ FlattenSeq(ss)[LeadingSum(n, i - 1) + j] = ss[i][j]
  <2>1. o[i - 1] = LeadingSum(n, i - 1)  BY <1>4, <1>8
  <2>2. o[i - 1] + j \in 1 .. Len(h[N]) /\ h[N][o[i - 1] + j] = ss[i][j]  BY <1>7
  <2> HIDE DEF Placed, U
  <2> QED BY <1>2, <2>1, <2>2
<1> HIDE DEF Placed, U
<1> QED BY <1>9, <1>10, <1>11 DEF FlatParts

\* The dynamic dimensions of a shape, by those of its leading dimensions.
LEMMA DynamicDimsPrefixes ==
  ASSUME NEW s, NEW N \in Nat, DOMAIN s = 1 .. N
  PROVE  \E p \in [0 .. N -> Seq(1 .. N)] :
           /\ p[0] = <<>>
           /\ \A k \in 1 .. N : p[k] = IF s[k] = Dynamic THEN Append(p[k - 1], k) ELSE p[k - 1]
           /\ p[N] = DynamicDims(s)
<1> DEFINE T == Seq(1 .. N)
           Take(dims, d) == IF s[d] = Dynamic THEN Append(dims, d) ELSE dims
           step == [x \in T \X (1 .. N) |-> Take(x[1], x[2])]
           index == [d \in 1 .. N |-> d]
           Solution(f) == f = [t \in SUBSET (1 .. N) |->
                                 IF t = {} THEN <<>> ELSE Take(f[t \ {Max(t)}], index[Max(t)])]
           iter == CHOOSE f : Solution(f)
<1>1. \A dims \in T, d \in 1 .. N : Take(dims, d) \in T
  BY AppendProperties
<1>2. step \in [T \X (1 .. N) -> T]
  <2> HIDE DEF Take, T
  <2> QED BY <1>1
<1>3. PICK g \in [SUBSET (1 .. N) -> T] : FoldsSets(g, N, <<>>, step)
  <2>1. <<>> \in T  OBVIOUS
  <2> HIDE DEF step, T
  <2> QED BY <2>1, <1>2, SubsetRecursion, Zenon
<1>4. \A t \in SUBSET (1 .. N) : t # {} =>
         step[<<g[t \ {Max(t)}], Max(t)>>] = Take(g[t \ {Max(t)}], index[Max(t)])
  <2> SUFFICES ASSUME NEW t \in SUBSET (1 .. N), t # {}
               PROVE  step[<<g[t \ {Max(t)}], Max(t)>>] = Take(g[t \ {Max(t)}], index[Max(t)])
    OBVIOUS
  <2>1. Max(t) \in 1 .. N  BY MaxOfInterval
  <2>2. g[t \ {Max(t)}] \in T  OBVIOUS
  <2> HIDE DEF Take, T
  <2> QED BY <2>1, <2>2
<1>5. Solution(g)
  <2> HIDE DEF step, Take, index
  <2> QED BY <1>3, <1>4 DEF FoldsSets
<1>6. Solution(iter)
  <2> HIDE DEF Solution
  <2> QED BY <1>5
<1>7. iter[{}] = <<>>
  <2> HIDE DEF iter, Take, index
  <2> QED BY <1>6
<1>8. \A k \in 1 .. N : iter[1 .. k] = Take(iter[1 .. k - 1], k)
  <2> SUFFICES ASSUME NEW k \in 1 .. N PROVE iter[1 .. k] = Take(iter[1 .. k - 1], k)
    OBVIOUS
  <2>1. 1 .. k \in SUBSET (1 .. N) /\ 1 .. k # {} /\ index[k] = k
    <3>1. index[k] = k  OBVIOUS
    <3> HIDE DEF iter, Take, index, Solution
    <3>2. 1 .. k \in SUBSET (1 .. N) /\ 1 .. k # {}  BY LeadingInterval
    <3> QED BY <3>1, <3>2
  <2>2. Max(1 .. k) = k /\ (1 .. k) \ {k} = 1 .. k - 1  BY MaxOfInitial
  <2>3. iter[1 .. k] = Take(iter[(1 .. k) \ {Max(1 .. k)}], index[Max(1 .. k)])
    <3> HIDE DEF iter, Take, index
    <3> QED BY <1>6, <2>1
  <2> HIDE DEF iter, Take, index
  <2> QED BY <2>1, <2>2, <2>3
<1>9. DynamicDims(s) = iter[1 .. N]
  <2> DEFINE all == [i \in DOMAIN s |-> i]
  <2>1. all = index /\ DOMAIN all = 1 .. N  OBVIOUS
  <2>2. DynamicDims(s) = (CHOOSE f : f = [t \in SUBSET (DOMAIN all) |->
                            IF t = {} THEN <<>> ELSE Take(f[t \ {Max(t)}], all[Max(t)])])[DOMAIN all]
    BY Zenon DEF DynamicDims, FoldLeftDomain, FoldLeft, MapThenFoldSet
  <2> HIDE DEF all, index, Take
  <2> QED BY <2>1, <2>2
<1> HIDE DEF iter
<1>10. FoldsIntervals(iter, N, T, <<>>, step)
  <2> HIDE DEF Take, T
  <2> QED BY <1>7, <1>8 DEF FoldsIntervals
<1> DEFINE h == OnPrefixes(iter, N)
<1>11. h \in [0 .. N -> T] /\ FoldsPrefixes(h, N, <<>>, step)
  <2>1. <<>> \in T  OBVIOUS
  <2> HIDE DEF step, T
  <2> QED BY <2>1, <1>2, <1>10, PrefixesOfFold, Zenon
<1>12. h[N] = iter[1 .. N]  BY DEF OnPrefixes
<1> HIDE DEF h
<1>13. \A k \in 1 .. N : h[k] = Take(h[k - 1], k)
  <2> SUFFICES ASSUME NEW k \in 1 .. N PROVE h[k] = Take(h[k - 1], k)
    OBVIOUS
  <2>1. h[k - 1] \in T  BY <1>11
  <2> HIDE DEF Take, T
  <2> QED BY <1>11, <2>1 DEF FoldsPrefixes
<1> QED BY <1>9, <1>11, <1>12, <1>13 DEF FoldsPrefixes

\* How many of the first i dimensions are dynamic.
DynamicUpTo(s, i) == Cardinality({j \in 1 .. i : s[j] = Dynamic})

\* One more dimension adds itself to the count when it is dynamic.
LEMMA DynamicUpToNext ==
  ASSUME NEW s, NEW i \in Nat
  PROVE  /\ DynamicUpTo(s, 0) = 0
         /\ DynamicUpTo(s, i) \in Nat
         /\ DynamicUpTo(s, i + 1) = IF s[i + 1] = Dynamic THEN DynamicUpTo(s, i) + 1 ELSE DynamicUpTo(s, i)
<1> DEFINE D(k) == {j \in 1 .. k : s[j] = Dynamic}
<1>1. D(0) = {}  OBVIOUS
<1>2. IsFiniteSet(D(i)) /\ Cardinality(D(i)) \in Nat
  <2>1. IsFiniteSet(1 .. i)  BY FS_Interval
  <2>2. D(i) \in SUBSET (1 .. i)  OBVIOUS
  <2> QED BY <2>1, <2>2, FS_Subset, FS_CardinalityType
<1>3. CASE s[i + 1] = Dynamic
  <2>1. D(i + 1) = D(i) \cup {i + 1} /\ i + 1 \notin D(i)  BY <1>3
  <2> QED BY <1>1, <1>2, <1>3, <2>1, FS_AddElement, FS_EmptySet DEF DynamicUpTo
<1>4. CASE s[i + 1] # Dynamic
  <2>1. D(i + 1) = D(i)  BY <1>4
  <2> QED BY <1>1, <1>2, <1>4, <2>1, FS_EmptySet DEF DynamicUpTo
<1> QED BY <1>3, <1>4

\* DynamicDims lists the dynamic dimensions in order: the one with ordinal k is
\* its k-th entry.
LEMMA DynamicDimsInOrder ==
  ASSUME NEW s, NEW N \in Nat, DOMAIN s = 1 .. N
  PROVE  /\ DynamicDims(s) \in Seq(1 .. N)
         /\ Len(DynamicDims(s)) = DynamicUpTo(s, N)
         /\ \A k \in 1 .. Len(DynamicDims(s)) : s[DynamicDims(s)[k]] = Dynamic
         /\ \A k, m \in 1 .. Len(DynamicDims(s)) : k < m => DynamicDims(s)[k] < DynamicDims(s)[m]
         /\ \A i \in 1 .. N : s[i] = Dynamic =>
              /\ DynamicUpTo(s, i) \in 1 .. Len(DynamicDims(s))
              /\ DynamicDims(s)[DynamicUpTo(s, i)] = i
<1>1. PICK p \in [0 .. N -> Seq(1 .. N)] :
        /\ p[0] = <<>>
        /\ \A k \in 1 .. N : p[k] = IF s[k] = Dynamic THEN Append(p[k - 1], k) ELSE p[k - 1]
        /\ p[N] = DynamicDims(s)
  BY DynamicDimsPrefixes
<1> DEFINE Good(q, n) ==
             /\ Len(q) = DynamicUpTo(s, n)
             /\ \A k \in 1 .. Len(q) : q[k] \in 1 .. n /\ s[q[k]] = Dynamic
             /\ \A k, m \in 1 .. Len(q) : k < m => q[k] < q[m]
             /\ \A i \in 1 .. n : s[i] = Dynamic =>
                  DynamicUpTo(s, i) \in 1 .. Len(q) /\ q[DynamicUpTo(s, i)] = i
           U == {n \in 0 .. N : Good(p[n], n)}
<1>2. 0 \in U
  <2>1. Len(<<>>) = 0 /\ 1 .. 0 = {} /\ 0 \in 0 .. N  OBVIOUS
  <2>2. DynamicUpTo(s, 0) = 0  BY DynamicUpToNext
  <2>3. Good(<<>>, 0)  BY <2>1, <2>2
  <2> HIDE DEF Good
  <2> QED BY <1>1, <2>1, <2>3
<1>3. \A n \in 0 .. N - 1 : n \in U => n + 1 \in U
  <2> SUFFICES ASSUME NEW n \in 0 .. N - 1, Good(p[n], n)
               PROVE  Good(p[n + 1], n + 1)
    <3>1. \A n \in 0 .. N - 1 : n + 1 \in 0 .. N  OBVIOUS
    <3> HIDE DEF Good
    <3> QED BY <3>1
  <2> DEFINE q == p[n]
  <2>1. n \in Nat /\ n + 1 \in 1 .. N /\ (n + 1) - 1 = n /\ n \in 0 .. N  OBVIOUS
  <2>2. q \in Seq(1 .. N)  BY <2>1
  <2>3. DynamicUpTo(s, n) \in Nat
        /\ DynamicUpTo(s, n + 1) = IF s[n + 1] = Dynamic THEN DynamicUpTo(s, n) + 1 ELSE DynamicUpTo(s, n)
    BY <2>1, DynamicUpToNext
  <2>4. p[n + 1] = IF s[n + 1] = Dynamic THEN Append(q, n + 1) ELSE q
    BY <1>1, <2>1
  <2>5. CASE s[n + 1] = Dynamic
    <3> DEFINE r == Append(q, n + 1)
    <3>1. /\ Len(r) = Len(q) + 1 /\ r[Len(q) + 1] = n + 1
          /\ \A k \in 1 .. Len(q) : r[k] = q[k]
          /\ Len(q) \in Nat
      BY <2>1, <2>2, AppendProperties
    <3> HIDE DEF r, q
    <3>2. Good(q, n)  BY DEF q
    <3>3. Good(r, n + 1)
      <4>1. Len(r) = DynamicUpTo(s, n + 1)  BY <2>3, <2>5, <3>1, <3>2
      <4>2. \A k \in 1 .. Len(r) : r[k] \in 1 .. n + 1 /\ s[r[k]] = Dynamic
        <5> SUFFICES ASSUME NEW k \in 1 .. Len(r) PROVE r[k] \in 1 .. n + 1 /\ s[r[k]] = Dynamic
          OBVIOUS
        <5>1. CASE k = Len(q) + 1
          <6>1. r[k] = n + 1  BY <3>1, <5>1
          <6>2. s[r[k]] = Dynamic  BY <2>5, <6>1
          <6> QED BY <2>1, <6>1, <6>2
        <5>2. CASE k \in 1 .. Len(q)
          <6>1. q[k] \in 1 .. n /\ s[q[k]] = Dynamic /\ r[k] = q[k]  BY <3>1, <3>2, <5>2
          <6> QED BY <2>1, <6>1
        <5>3. k = Len(q) + 1 \/ k \in 1 .. Len(q)  BY <3>1
        <5> QED BY <5>1, <5>2, <5>3
      <4>3. \A k, m \in 1 .. Len(r) : k < m => r[k] < r[m]
        <5> SUFFICES ASSUME NEW k \in 1 .. Len(r), NEW m \in 1 .. Len(r), k < m PROVE r[k] < r[m]
          OBVIOUS
        <5>1. k \in 1 .. Len(q)  BY <3>1
        <5>2. r[k] = q[k] /\ q[k] \in 1 .. n  BY <3>1, <3>2, <5>1
        <5>3. CASE m = Len(q) + 1  BY <2>1, <3>1, <5>2, <5>3
        <5>4. CASE m \in 1 .. Len(q)  BY <3>1, <3>2, <5>1, <5>4
        <5> QED BY <3>1, <5>3, <5>4
      <4>4. \A i \in 1 .. n + 1 : s[i] = Dynamic =>
              DynamicUpTo(s, i) \in 1 .. Len(r) /\ r[DynamicUpTo(s, i)] = i
        <5> SUFFICES ASSUME NEW i \in 1 .. n + 1, s[i] = Dynamic
                     PROVE  DynamicUpTo(s, i) \in 1 .. Len(r) /\ r[DynamicUpTo(s, i)] = i
          OBVIOUS
        <5>1. CASE i = n + 1
          <6>1. DynamicUpTo(s, i) = Len(q) + 1  BY <2>3, <2>5, <3>2, <5>1
          <6> QED BY <3>1, <5>1, <6>1
        <5>2. CASE i \in 1 .. n
          <6>1. DynamicUpTo(s, i) \in 1 .. Len(q) /\ q[DynamicUpTo(s, i)] = i  BY <3>2, <5>2
          <6> QED BY <3>1, <6>1
        <5> QED BY <2>1, <5>1, <5>2
      <4> QED BY <4>1, <4>2, <4>3, <4>4
    <3> QED BY <2>4, <2>5, <3>3 DEF r
  <2>6. CASE s[n + 1] # Dynamic
    <3> HIDE DEF q
    <3>1. Good(q, n) /\ p[n + 1] = q  BY <2>4, <2>6 DEF q
    <3>2. \A i \in 1 .. n + 1 : s[i] = Dynamic => i \in 1 .. n  BY <2>1, <2>6
    <3>3. \A k \in 1 .. Len(q) : q[k] \in 1 .. n + 1  BY <2>1, <3>1
    <3> QED BY <2>3, <2>6, <3>1, <3>2, <3>3
  <2> QED BY <2>5, <2>6
<1>4. Good(p[N], N)
  <2> HIDE DEF Good, U
  <2>1. 0 .. N \subseteq U  BY <1>2, <1>3, IntervalInduction
  <2>2. N \in U  BY <2>1
  <2> QED BY <2>2 DEF U
<1>5. p[N] \in Seq(1 .. N)  OBVIOUS
<1> QED BY <1>1, <1>4, <1>5

\* The ordinal of the k-th dynamic dimension is k.
LEMMA DynamicOrdinal ==
  ASSUME NEW s, NEW N \in Nat, DOMAIN s = 1 .. N, NEW k \in 1 .. Len(DynamicDims(s))
  PROVE  DynamicUpTo(s, DynamicDims(s)[k]) = k
<1> DEFINE D == DynamicDims(s)
           m == DynamicUpTo(s, D[k])
<1>1. /\ D \in Seq(1 .. N)
      /\ \A i, j \in 1 .. Len(D) : i < j => D[i] < D[j]
      /\ \A i \in 1 .. N : s[i] = Dynamic => DynamicUpTo(s, i) \in 1 .. Len(D) /\ D[DynamicUpTo(s, i)] = i
      /\ s[D[k]] = Dynamic
  BY DynamicDimsInOrder
<1>2. D[k] \in 1 .. N  BY <1>1, ElementOfSeq
<1>3. m \in 1 .. Len(D) /\ D[m] = D[k]  BY <1>1, <1>2
<1> HIDE DEF m, D
<1>4. Len(D) \in Nat  BY <1>1
<1>5. k \in Int /\ m \in Int /\ D[k] \in Int /\ D[m] \in Int /\ k \in 1 .. Len(D)
  BY <1>2, <1>3, <1>4 DEF D
<1>6. ~(m < k) /\ ~(k < m)  BY <1>1, <1>3, <1>5
<1>7. m = k  BY <1>5, <1>6
<1> QED BY <1>7 DEF m, D

\* r is an element followed by two sequences.
HasParts(E, r, b, s, t) ==
  /\ r \in Seq(E)
  /\ Len(r) = 1 + Len(s) + Len(t)
  /\ r[1] = b
  /\ \A k \in 1 .. Len(s) : r[1 + k] = s[k]
  /\ \A k \in 1 .. Len(t) : r[1 + Len(s) + k] = t[k]

\* Where the elements of a pointer, sizes and strides are in their concatenation.
LEMMA ThreeParts ==
  ASSUME NEW E, NEW b \in E, NEW s \in Seq(E), NEW t \in Seq(E)
  PROVE  HasParts(E, <<b>> \o s \o t, b, s, t)
<1>0. PICK r : r = <<b>> \o s \o t  OBVIOUS
<1>1. PICK h : h = <<b>>  OBVIOUS
<1>2. h \in Seq(E) /\ Len(h) = 1 /\ h[1] = b  BY <1>1
<1>3. PICK q : q = h \o s  OBVIOUS
<1>4. r = q \o t  BY <1>0, <1>1, <1>3
<1>5. Len(s) \in Nat /\ Len(t) \in Nat  BY LenProperties
<1>6. /\ q \in Seq(E) /\ Len(q) = 1 + Len(s)
      /\ \A i \in 1 .. 1 + Len(s) : q[i] = IF i <= 1 THEN h[i] ELSE s[i - 1]
  <2>1. /\ q \in Seq(E) /\ Len(q) = Len(h) + Len(s)
        /\ \A i \in 1 .. Len(h) + Len(s) : q[i] = IF i <= Len(h) THEN h[i] ELSE s[i - Len(h)]
    BY <1>2, <1>3, ConcatProperties
  <2>2. Len(h) = 1  BY <1>2
  <2> QED BY <2>1, <2>2
<1>7. /\ r \in Seq(E) /\ Len(r) = Len(q) + Len(t)
      /\ \A i \in 1 .. Len(q) + Len(t) : r[i] = IF i <= Len(q) THEN q[i] ELSE t[i - Len(q)]
  BY <1>4, <1>6, ConcatProperties
<1>8. r[1] = b  BY <1>2, <1>5, <1>6, <1>7
<1>9. ASSUME NEW k \in 1 .. Len(s) PROVE r[1 + k] = s[k]
  <2>1. /\ 1 + k \in 1 .. 1 + Len(s) /\ 1 + k \in 1 .. Len(q) + Len(t)
        /\ ~(1 + k <= 1) /\ 1 + k <= Len(q) /\ (1 + k) - 1 = k
    BY <1>5, <1>6
  <2> QED BY <1>6, <1>7, <2>1
<1>10. ASSUME NEW k \in 1 .. Len(t) PROVE r[1 + Len(s) + k] = t[k]
  <2>1. /\ 1 + Len(s) + k \in 1 .. Len(q) + Len(t)
        /\ ~(1 + Len(s) + k <= Len(q)) /\ (1 + Len(s) + k) - Len(q) = k
    BY <1>5, <1>6
  <2> QED BY <1>7, <2>1
<1>11. r \in Seq(E) /\ Len(r) = 1 + Len(s) + Len(t)  BY <1>6, <1>7
<1>12. HasParts(E, r, b, s, t)  BY <1>8, <1>9, <1>10, <1>11 DEF HasParts
<1> QED BY <1>0, <1>12

\* The dynamic dimensions of a shape: as many as it has, none where none is.
LEMMA DynamicDimsOf ==
  ASSUME NEW E, NEW s \in Seq(E)
  PROVE  /\ Len(DynamicDims(s)) \in Nat
         /\ DOMAIN DynamicDims(s) = 1 .. Len(DynamicDims(s))
         /\ \A k \in 1 .. Len(DynamicDims(s)) :
              DynamicDims(s)[k] \in 1 .. Len(s) /\ s[DynamicDims(s)[k]] = Dynamic
         /\ \A d \in 1 .. Len(s) : s[d] = Dynamic =>
              \E k \in 1 .. Len(DynamicDims(s)) : DynamicDims(s)[k] = d
         /\ (\A d \in 1 .. Len(s) : s[d] # Dynamic) => Len(DynamicDims(s)) = 0
<1>1. PICK N \in Nat : N = Len(s) /\ DOMAIN s = 1 .. N  BY LenProperties
<1>2. /\ DynamicDims(s) \in Seq(1 .. N)
      /\ \A k \in 1 .. Len(DynamicDims(s)) : s[DynamicDims(s)[k]] = Dynamic
      /\ \A i \in 1 .. N : s[i] = Dynamic =>
           /\ DynamicUpTo(s, i) \in 1 .. Len(DynamicDims(s))
           /\ DynamicDims(s)[DynamicUpTo(s, i)] = i
  BY <1>1, DynamicDimsInOrder
<1>3. PICK dims : dims = DynamicDims(s)  OBVIOUS
<1>4. Len(dims) \in Nat /\ DOMAIN dims = 1 .. Len(dims)  BY <1>2, <1>3, LenProperties
<1>5. \A k \in 1 .. Len(dims) : dims[k] \in 1 .. N  BY <1>2, <1>3, ElementOfSeq
<1>6. ASSUME \A d \in 1 .. N : s[d] # Dynamic PROVE Len(dims) = 0
  <2>1. ASSUME Len(dims) # 0 PROVE FALSE
    <3>1. 1 \in 1 .. Len(dims)  BY <1>4, <2>1
    <3> QED BY <1>2, <1>3, <1>5, <1>6, <3>1
  <2> QED BY <2>1
<1> QED BY <1>1, <1>2, <1>3, <1>4, <1>5, <1>6

-----------------------------------------------------------------------------
(* Mixed radix: an index below a product of counts is its digits.          *)

\* p holds the leading products of the counts c.
LeadingProducts(p, c, N) ==
  /\ c \in [1 .. N -> Nat \ {0}] /\ p \in [0 .. N -> Nat \ {0}]
  /\ p[0] = 1
  /\ \A k \in 1 .. N : p[k] = p[k - 1] * c[k]

Digit(p, c, t, i) == (t \div p[i - 1]) % c[i]

\* A leading product divides the later ones.
LEMMA LeadingProductDivides ==
  ASSUME NEW N \in Nat, NEW p, NEW c, LeadingProducts(p, c, N)
  PROVE  \A m \in 0 .. N : \A i \in 0 .. m : \E x \in Nat : p[m] = p[i] * x
<1> DEFINE U == {m \in 0 .. N : \A i \in 0 .. m : \E x \in Nat : p[m] = p[i] * x}
<1>1. 0 \in U
  <2>1. p[0] = p[0] * 1  BY DEF LeadingProducts
  <2> QED BY <2>1
<1>2. \A m \in 0 .. N - 1 : m \in U => m + 1 \in U
  <2> SUFFICES ASSUME NEW m \in 0 .. N - 1, m \in U, NEW i \in 0 .. m + 1
               PROVE  m + 1 \in 0 .. N /\ \E x \in Nat : p[m + 1] = p[i] * x
    OBVIOUS
  <2>1. m + 1 \in 1 .. N /\ m + 1 \in 0 .. N /\ (m + 1) - 1 = m /\ m \in 0 .. N  OBVIOUS
  <2>2. /\ p[m + 1] = p[m] * c[m + 1] /\ c[m + 1] \in Nat
        /\ p[m + 1] \in Nat /\ p[i] \in Nat /\ p[m] \in Nat
    <3>1. i \in 0 .. N  BY <2>1
    <3>2. \A j \in 0 .. N : p[j] \in Nat  BY DEF LeadingProducts
    <3> QED BY <2>1, <3>1, <3>2 DEF LeadingProducts
  <2>3. CASE i = m + 1
    <3>1. p[m + 1] = p[i] * 1  BY <2>2, <2>3
    <3> QED BY <2>1, <3>1
  <2>4. CASE i # m + 1
    <3>1. i \in 0 .. m  BY <2>4
    <3>2. PICK x \in Nat : p[m] = p[i] * x  BY <3>1
    <3>3. p[m + 1] = p[i] * (x * c[m + 1]) /\ x * c[m + 1] \in Nat  BY <2>2, <3>2, SMT
    <3> QED BY <2>1, <3>3
  <2> QED BY <2>3, <2>4
<1> HIDE DEF U
<1>3. 0 .. N \subseteq U  BY <1>1, <1>2, IntervalInduction
<1> QED BY <1>3 DEF U

\* A digit does not depend on the digits behind it.
LEMMA DigitKept ==
  ASSUME NEW a \in Nat \ {0}, NEW c \in Nat \ {0}, NEW t \in Nat, NEW y \in Nat
  PROVE  ((t + (a * c) * y) \div a) % c = (t \div a) % c
<1>1. PICK q \in Nat, s \in 0 .. a - 1 : q = t \div a /\ t = a * q + s  BY DivMod
<1>2. PICK k \in Nat, d \in 0 .. c - 1 : d = q % c /\ q = c * k + d
  <2>1. /\ q \div c \in Nat /\ q % c \in 0 .. c - 1
        /\ q = c * (q \div c) + (q % c)
    BY DivMod, Zenon
  <2> QED BY <2>1, Zenon
<1>3. c * y \in Nat /\ q + c * y \in Nat  BY SMT
<1>4. t + (a * c) * y = a * (q + c * y) + s
  <2>1. (a * c) * y = a * (c * y)  BY SMT
  <2>2. a * (q + c * y) = a * q + a * (c * y)  BY <1>3, SMT
  <2>3. a * q \in Nat /\ a * (c * y) \in Nat  BY <1>3, SMT
  <2> QED BY <1>1, <2>1, <2>2, <2>3
<1>5. (t + (a * c) * y) \div a = q + c * y  BY <1>3, <1>4, DivOf
<1>6. q + c * y = c * (k + y) + d
  <2>1. c * (k + y) = c * k + c * y /\ c * k \in Nat  BY SMT
  <2> QED BY <1>2, <1>3, <2>1
<1>7. (c * (k + y) + d) % c = d
  <2>1. k + y \in Nat  OBVIOUS
  <2> QED BY <2>1, ModOf
<1> QED BY <1>1, <1>2, <1>5, <1>6, <1>7

\* Any digits are those of an index below the product.
LEMMA DigitsReachable ==
  ASSUME NEW N \in Nat, NEW p, NEW c, LeadingProducts(p, c, N),
         NEW d, \A i \in 1 .. N : d[i] \in 0 .. c[i] - 1
  PROVE  \E t \in 0 .. p[N] - 1 : \A i \in 1 .. N : Digit(p, c, t, i) = d[i]
<1> DEFINE U == {m \in 0 .. N : \E t \in 0 .. p[m] - 1 : \A i \in 1 .. m : Digit(p, c, t, i) = d[i]}
<1>1. 0 \in U
  <2>1. 0 \in 0 .. p[0] - 1  BY DEF LeadingProducts
  <2>2. 0 \in 0 .. N /\ 1 .. 0 = {}  OBVIOUS
  <2> QED BY <2>1, <2>2
<1>2. \A m \in 0 .. N - 1 : m \in U => m + 1 \in U
  <2> SUFFICES ASSUME NEW m \in 0 .. N - 1, NEW t \in 0 .. p[m] - 1,
                      \A i \in 1 .. m : Digit(p, c, t, i) = d[i]
               PROVE  m + 1 \in 0 .. N /\ \E u \in 0 .. p[m + 1] - 1 :
                        \A i \in 1 .. m + 1 : Digit(p, c, u, i) = d[i]
    OBVIOUS
  <2>1. m + 1 \in 1 .. N /\ m + 1 \in 0 .. N /\ (m + 1) - 1 = m /\ m \in 0 .. N  OBVIOUS
  <2> DEFINE a == p[m]
             n == c[m + 1]
             e == d[m + 1]
             u == a * e + t
  <2>2. /\ p[m + 1] = a * n /\ n \in Nat \ {0} /\ a \in Nat \ {0}
        /\ e \in 0 .. n - 1 /\ e \in Nat /\ t \in Nat /\ t \in 0 .. a - 1
    <3>1. p[m + 1] = a * n /\ n \in Nat \ {0} /\ a \in Nat \ {0}  BY <2>1 DEF LeadingProducts
    <3>2. e \in 0 .. n - 1  BY <2>1
    <3> HIDE DEF e, n, a
    <3>3. e \in Nat  BY <3>1, <3>2
    <3>4. t \in 0 .. a - 1  BY DEF a
    <3>5. t \in Nat  BY <3>1, <3>4
    <3> QED BY <3>1, <3>2, <3>3, <3>4, <3>5
  <2>3. u \in 0 .. p[m + 1] - 1
    <3> HIDE DEF a, n, e
    <3>1. PICK x \in Nat : n = e + 1 + x  BY <2>2
    <3>2. a * n = a * e + a + a * x  BY <2>2, <3>1, SMT
    <3>3. a * e \in Nat /\ a * x \in Nat  BY <2>2, SMT
    <3> QED BY <2>2, <3>2, <3>3
  <2>4. Digit(p, c, u, m + 1) = e
    <3> HIDE DEF n, e
    <3>1. u \div a = e  BY <2>2, DivOf
    <3>2. e % n = e  BY <2>2, SmallMod
    <3> QED BY <2>1, <3>1, <3>2 DEF Digit, n
  <2>5. ASSUME NEW i \in 1 .. m PROVE Digit(p, c, u, i) = d[i]
    <3>1. i \in 1 .. N /\ i - 1 \in 0 .. N /\ i \in 0 .. m  BY <2>1
    <3>2. p[i - 1] \in Nat \ {0} /\ c[i] \in Nat \ {0} /\ p[i] = p[i - 1] * c[i]
      BY <3>1 DEF LeadingProducts
    <3>3. PICK x \in Nat : a = p[i] * x  BY <2>1, <3>1, LeadingProductDivides
    <3> DEFINE b == p[i - 1]
               k == c[i]
    <3>4. u = t + (b * k) * (x * e) /\ x * e \in Nat
      <4> HIDE DEF a, e, b, k
      <4>1. b * k \in Nat /\ x * e \in Nat  BY <2>2, <3>2, SMT DEF b, k
      <4>2. a * e = (b * k) * (x * e)
        <5>1. a = (b * k) * x  BY <3>2, <3>3 DEF b, k
        <5> QED BY <2>2, <4>1, <5>1, SMT
      <4>3. a * e \in Nat  BY <2>2, SMT
      <4> QED BY <2>2, <4>1, <4>2, <4>3
    <3>5. ((t + (b * k) * (x * e)) \div b) % k = (t \div b) % k
      <4>1. b \in Nat \ {0} /\ k \in Nat \ {0}  BY <3>2
      <4>2. PICK y \in Nat : y = x * e  BY <3>4
      <4> HIDE DEF b, k, e
      <4>3. ((t + (b * k) * y) \div b) % k = (t \div b) % k  BY <2>2, <4>1, DigitKept
      <4> QED BY <4>2, <4>3
    <3>6. Digit(p, c, u, i) = Digit(p, c, t, i)
      <4> HIDE DEF u, e, a
      <4> QED BY <3>4, <3>5 DEF Digit
    <3> QED BY <3>6
  <2>6. \A i \in 1 .. m + 1 : Digit(p, c, u, i) = d[i]
    <3> HIDE DEF u
    <3> QED BY <2>1, <2>4, <2>5
  <2> QED BY <2>1, <2>3, <2>6
<1> HIDE DEF U
<1>3. 0 .. N \subseteq U  BY <1>1, <1>2, IntervalInduction
<1>4. N \in U  BY <1>3
<1> QED BY <1>4 DEF U
=============================================================================
