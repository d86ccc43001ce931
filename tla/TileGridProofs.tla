---------------------------- MODULE TileGridProofs ----------------------------
(***************************************************************************)
(* The compiler, the metadata and the host agree on the grid, and the      *)
(* launched blocks process every tile once: for every request, every       *)
(* runtime shape and every width of the integers.                          *)
(***************************************************************************)
EXTENDS TileGrid, DataLemmas, TLAPS

-----------------------------------------------------------------------------
(* The tile counts.                                                        *)

\* A tile count is a natural number.
LEMMA CeilDivNat ==
  ASSUME NEW a \in Nat, NEW b \in Nat \ {0}
  PROVE  CeilDiv(a, b) \in Nat
<1>1. a + b - 1 \in Nat  OBVIOUS
<1> QED BY <1>1, DivMod DEF CeilDiv

\* The shapes of a request, dimension by dimension.
LEMMA RequestShapes ==
  ASSUME NEW r \in Requests
  PROVE  /\ DOMAIN r.outShape = 1 .. Len(r.outShape) /\ Len(r.outShape) \in Nat
         /\ DOMAIN r.iterShape = 1 .. Len(r.tile) /\ Len(r.tile) \in Nat
         /\ DOMAIN r.tile = 1 .. Len(r.tile)
         /\ r.iterShape \in Seq(Nat \cup {Dynamic})
         /\ \A i \in 1 .. Len(r.tile) : r.iterShape[i] \in Nat \cup {Dynamic} /\ r.tile[i] \in Nat \ {0}
         /\ Len(DynamicDims(r.outShape)) = Len(DynamicDims(r.iterShape))
         /\ {r.persistent, r.native} \subseteq BOOLEAN
         /\ {r.smCount, r.occupancy} \subseteq Int
<1>1. IsRequest(r)  BY RequestAssumption
<1>2. /\ r.outShape \in Seq(Nat \cup {Dynamic}) /\ r.iterShape \in Seq(Nat \cup {Dynamic})
      /\ r.tile \in Seq(Nat \ {0}) /\ Len(r.iterShape) = Len(r.tile)
  BY <1>1 DEF IsRequest
<1> QED BY <1>1, <1>2 DEF IsRequest

\* A shape is dynamic when it has a dynamic dimension.
LEMMA StaticShape ==
  ASSUME NEW s, NEW N \in Nat, DOMAIN s = 1 .. N
  PROVE  /\ IsDynamic(s) <=> Len(DynamicDims(s)) # 0
         /\ ~IsDynamic(s) => \A i \in 1 .. N : s[i] # Dynamic
<1>1. DynamicDims(s) \in Seq(1 .. N)
      /\ \A i \in 1 .. N : s[i] = Dynamic => DynamicUpTo(s, i) \in 1 .. Len(DynamicDims(s))
  BY DynamicDimsInOrder
<1>2. DynamicDims(s) = <<>> <=> Len(DynamicDims(s)) = 0
  BY <1>1, EmptySeq
<1>3. ASSUME DynamicDims(s) = <<>>, NEW i \in 1 .. N, s[i] = Dynamic PROVE FALSE
  <2>1. Len(DynamicDims(s)) = 0  BY <1>2, <1>3
  <2>2. DynamicUpTo(s, i) \in 1 .. 0  BY <1>1, <1>3, <2>1
  <2> QED BY <2>2
<1> QED BY <1>2, <1>3 DEF IsDynamic

\* The output and the iteration space are dynamic together.
LEMMA DynamicTogether ==
  ASSUME NEW r \in Requests
  PROVE  IsDynamic(r.outShape) <=> IsDynamic(r.iterShape)
<1>1. IsDynamic(r.outShape) <=> Len(DynamicDims(r.outShape)) # 0
  BY RequestShapes, StaticShape
<1>2. IsDynamic(r.iterShape) <=> Len(DynamicDims(r.iterShape)) # 0
  BY RequestShapes, StaticShape
<1> QED BY <1>1, <1>2, RequestShapes

\* The extent of a dimension of the iteration space, as the metadata gives it.
ExtentOf(r, shape, i) ==
  IF r.iterShape[i] = Dynamic THEN shape[GridShapeDimMapping(r)[i]] ELSE r.iterShape[i]

\* The kernel and the metadata size a dynamic dimension by the same dimension of
\* the output: the boundary values consumed in order are those the mapping finds.
LEMMA ExtentsAgree ==
  ASSUME NEW r \in Requests, NEW shape \in RuntimeShapes(r)
  PROVE  /\ KernelCounts(r, shape) = [i \in 1 .. Len(r.tile) |-> CeilDiv(ExtentOf(r, shape, i), r.tile[i])]
         /\ \A i \in 1 .. Len(r.tile) : ExtentOf(r, shape, i) \in Nat
<1> DEFINE out == DynamicDims(r.outShape)
           iter == DynamicDims(r.iterShape)
           N == Len(r.tile)
           values == [k \in DOMAIN out |-> shape[out[k]]]
           position(i) == CHOOSE k \in DOMAIN iter : iter[k] = i
           ordinal(i) == Cardinality({j \in 1 .. i : r.iterShape[j] = Dynamic})
<1>1. /\ DOMAIN r.outShape = 1 .. Len(r.outShape) /\ Len(r.outShape) \in Nat
      /\ DOMAIN r.iterShape = 1 .. N /\ N \in Nat /\ DOMAIN r.tile = 1 .. N
      /\ \A i \in 1 .. N : r.iterShape[i] \in Nat \cup {Dynamic}
      /\ Len(out) = Len(iter)
  BY RequestShapes
<1>2. /\ out \in Seq(1 .. Len(r.outShape))
      /\ \A k \in 1 .. Len(out) : r.outShape[out[k]] = Dynamic
  BY <1>1, DynamicDimsInOrder
<1>3. /\ iter \in Seq(1 .. N)
      /\ \A i \in 1 .. N : r.iterShape[i] = Dynamic =>
           DynamicUpTo(r.iterShape, i) \in 1 .. Len(iter) /\ iter[DynamicUpTo(r.iterShape, i)] = i
  BY <1>1, DynamicDimsInOrder
<1>4. \A k \in 1 .. Len(iter) : DynamicUpTo(r.iterShape, iter[k]) = k
  BY <1>1, DynamicOrdinal
<1>5. \A i \in 1 .. N : r.iterShape[i] = Dynamic =>
         /\ position(i) = ordinal(i)
         /\ ordinal(i) \in 1 .. Len(out)
  <2> SUFFICES ASSUME NEW i \in 1 .. N, r.iterShape[i] = Dynamic
               PROVE  position(i) = ordinal(i) /\ ordinal(i) \in 1 .. Len(out)
    OBVIOUS
  <2>1. ordinal(i) = DynamicUpTo(r.iterShape, i)  BY DEF DynamicUpTo
  <2>2. ordinal(i) \in 1 .. Len(iter) /\ iter[ordinal(i)] = i  BY <1>3, <2>1
  <2>3. DOMAIN iter = 1 .. Len(iter)  BY <1>3
  <2>4. position(i) \in 1 .. Len(iter) /\ iter[position(i)] = i  BY <2>2, <2>3
  <2>5. position(i) = DynamicUpTo(r.iterShape, i)  BY <1>4, <2>4
  <2> QED BY <1>1, <2>1, <2>2, <2>5
<1>6. \A i \in 1 .. N : r.iterShape[i] = Dynamic =>
         GridShapeDimMapping(r)[i] = out[ordinal(i)]
  <2> HIDE DEF out
  <2> QED BY <1>1 DEF GridShapeDimMapping, out
<1>7. \A k \in 1 .. Len(out) : shape[out[k]] \in Nat /\ values[k] = shape[out[k]]
  <2> SUFFICES ASSUME NEW k \in 1 .. Len(out)
               PROVE  shape[out[k]] \in Nat /\ values[k] = shape[out[k]]
    OBVIOUS
  <2>1. DOMAIN out = 1 .. Len(out)  BY <1>2
  <2>2. out[k] \in 1 .. Len(r.outShape) /\ r.outShape[out[k]] = Dynamic  BY <1>2, ElementOfSeq
  <2>3. shape[out[k]] \in Extents  BY <1>1, <2>2 DEF RuntimeShapes
  <2>4. shape[out[k]] \in Nat
    <3> HIDE DEF out, iter, N, values, position, ordinal
    <3>1. 0 .. MaxI32 \subseteq Nat  BY WidthAssumption
    <3> QED BY <2>3, <3>1, WidthAssumption
  <2>5. values[k] = shape[out[k]]
    <3> HIDE DEF out
    <3> QED BY <2>1
  <2> QED BY <2>4, <2>5
<1> DEFINE extent(i) == IF r.iterShape[i] = Dynamic THEN values[position(i)] ELSE r.iterShape[i]
<1>8. \A i \in 1 .. N : extent(i) = ExtentOf(r, shape, i) /\ ExtentOf(r, shape, i) \in Nat
  <2> SUFFICES ASSUME NEW i \in 1 .. N
               PROVE  extent(i) = ExtentOf(r, shape, i) /\ ExtentOf(r, shape, i) \in Nat
    OBVIOUS
  <2> HIDE DEF values, position, ordinal, out, iter, N
  <2>1. CASE r.iterShape[i] = Dynamic
    BY <2>1, <1>5, <1>6, <1>7 DEF ExtentOf
  <2>2. CASE r.iterShape[i] # Dynamic
    BY <2>2, <1>1 DEF ExtentOf
  <2> QED BY <2>1, <2>2
<1>9. KernelCounts(r, shape) = [i \in DOMAIN r.tile |-> CeilDiv(extent(i), r.tile[i])]
  BY Zenon DEF KernelCounts
<1>10. [i \in DOMAIN r.tile |-> CeilDiv(extent(i), r.tile[i])]
         = [i \in 1 .. N |-> CeilDiv(ExtentOf(r, shape, i), r.tile[i])]
  <2> HIDE DEF extent, N
  <2> QED BY <1>1, <1>8
<1> QED BY <1>8, <1>9, <1>10

\* A kernel's tile counts are naturals, whatever the runtime shape.
LEMMA KernelCountsType ==
  ASSUME NEW r \in Requests, NEW shape \in RuntimeShapes(r)
  PROVE  /\ KernelCounts(r, shape) \in Seq(Nat)
         /\ Len(KernelCounts(r, shape)) = Len(r.tile)
         /\ DOMAIN KernelCounts(r, shape) = 1 .. Len(r.tile)
<1> DEFINE N == Len(r.tile)
           c == KernelCounts(r, shape)
<1>1. N \in Nat /\ \A i \in 1 .. N : r.tile[i] \in Nat \ {0}  BY RequestShapes
<1>2. c = [i \in 1 .. N |-> CeilDiv(ExtentOf(r, shape, i), r.tile[i])]
      /\ \A i \in 1 .. N : ExtentOf(r, shape, i) \in Nat
  BY ExtentsAgree
<1>3. \A i \in 1 .. N : CeilDiv(ExtentOf(r, shape, i), r.tile[i]) \in Nat
  BY <1>1, <1>2, CeilDivNat
<1>4. c \in [1 .. N -> Nat]
  <2> HIDE DEF c, N
  <2> QED BY <1>2, <1>3
<1>5. c \in Seq(Nat)  BY <1>1, <1>4, IsASeq
<1> QED BY <1>1, <1>4, <1>5, LenProperties

\* A static space has the same counts at every runtime shape.
LEMMA StaticKernelCounts ==
  ASSUME NEW r \in Requests, NEW shape \in RuntimeShapes(r), ~IsDynamic(r.iterShape)
  PROVE  KernelCounts(r, shape) = StaticCounts(r)
<1> DEFINE N == Len(r.tile)
<1>1. DOMAIN r.iterShape = 1 .. N /\ N \in Nat /\ DOMAIN r.tile = 1 .. N  BY RequestShapes
<1>2. \A i \in 1 .. N : r.iterShape[i] # Dynamic  BY <1>1, StaticShape
<1>3. \A i \in 1 .. N : ExtentOf(r, shape, i) = r.iterShape[i]  BY <1>2 DEF ExtentOf
<1>4. KernelCounts(r, shape) = [i \in 1 .. N |-> CeilDiv(ExtentOf(r, shape, i), r.tile[i])]
  BY ExtentsAgree
<1> HIDE DEF N
<1> QED BY <1>1, <1>3, <1>4 DEF StaticCounts

\* The host computes the kernel's tile counts from the metadata.
LEMMA MetadataCounts ==
  ASSUME NEW r \in Requests, NEW shape \in RuntimeShapes(r)
  PROVE  ComputeTileBasedGrid(r, ConfigureGridMetadata(r), shape)
           = Min({ClampPersistent(r, SaturatedProduct(KernelCounts(r, shape))), MaxI32})
<1> DEFINE meta == ConfigureGridMetadata(r)
           size(i) == IF meta.gridShape[i] = Dynamic
                      THEN shape[meta.gridShapeDimMapping[i]] ELSE meta.gridShape[i]
           counts == [i \in DOMAIN r.tile |-> CeilDiv(size(i), r.tile[i])]
<1>1. DOMAIN r.tile = 1 .. Len(r.tile)  BY RequestShapes
<1>2. meta.gridShape = r.iterShape /\ meta.gridShapeDimMapping = GridShapeDimMapping(r)
  BY DEF ConfigureGridMetadata
<1>3. \A i \in 1 .. Len(r.tile) : size(i) = ExtentOf(r, shape, i)
  <2> HIDE DEF meta
  <2> QED BY <1>2 DEF ExtentOf
<1>4. counts = KernelCounts(r, shape)
  <2> HIDE DEF size
  <2> QED BY <1>1, <1>3, ExtentsAgree
<1>5. ComputeTileBasedGrid(r, meta, shape) = Min({ClampPersistent(r, SaturatedProduct(counts)), MaxI32})
  BY Zenon DEF ComputeTileBasedGrid
<1> HIDE DEF counts, meta
<1> QED BY <1>4, <1>5 DEF meta

\* The saturated product is the product while that is positive and fits.
LEMMA SaturatedProductValue ==
  ASSUME NEW counts \in Seq(Nat)
  PROVE  /\ SaturatedProduct(counts) \in Nat
         /\ Product(counts) \in 1 .. MaxI32 => SaturatedProduct(counts) = Product(counts)
<1> DEFINE N == Len(counts)
           T == [value : Nat, done : BOOLEAN]
           Saturate(acc, c) ==
             CASE acc.done -> acc
               [] ~acc.done /\ c = 0 -> [value |-> 0, done |-> TRUE]
               [] ~acc.done /\ c > 0 /\ c > MaxI32 \div acc.value -> [value |-> MaxI32, done |-> TRUE]
               [] OTHER -> [value |-> acc.value * c, done |-> FALSE]
           base == [value |-> 1, done |-> FALSE]
           step == [x \in T \X (1 .. N) |-> Saturate(x[1], counts[x[2]])]
           Solution(f) == f = [t \in SUBSET (1 .. N) |->
                                 IF t = {} THEN base ELSE Saturate(f[t \ {Max(t)}], counts[Max(t)])]
           iter == CHOOSE f : Solution(f)
<1>1. N \in Nat /\ DOMAIN counts = 1 .. N /\ \A k \in 1 .. N : counts[k] \in Nat  OBVIOUS
<1>2. \A acc \in T, c \in Nat : Saturate(acc, c) \in T
  <2> SUFFICES ASSUME NEW acc \in T, NEW c \in Nat PROVE Saturate(acc, c) \in T
    OBVIOUS
  <2>1. acc.value \in Nat /\ acc.done \in BOOLEAN  OBVIOUS
  <2>2. acc.value * c \in Nat  BY <2>1, SMT
  <2>3. MaxI32 \in Nat  BY WidthAssumption
  <2>4. CASE acc.done  BY <2>4
  <2>5. CASE ~acc.done /\ c = 0
    <3>1. Saturate(acc, c) = [value |-> 0, done |-> TRUE]  BY <2>5
    <3> QED BY <3>1
  <2>6. CASE ~acc.done /\ c > 0 /\ c > MaxI32 \div acc.value
    <3>1. Saturate(acc, c) = [value |-> MaxI32, done |-> TRUE]  BY <2>6
    <3> QED BY <2>3, <3>1
  <2>7. CASE ~acc.done /\ c # 0 /\ ~(c > 0 /\ c > MaxI32 \div acc.value)
    <3>1. Saturate(acc, c) = [value |-> acc.value * c, done |-> FALSE]  BY <2>7
    <3> QED BY <2>2, <3>1
  <2> QED BY <2>4, <2>5, <2>6, <2>7
<1>3. step \in [T \X (1 .. N) -> T]
  <2> HIDE DEF Saturate, T, N
  <2> QED BY <1>1, <1>2
<1>4. base \in T  OBVIOUS
<1>5. PICK f \in [SUBSET (1 .. N) -> T] : FoldsSets(f, N, base, step)
  <2> HIDE DEF step, N, T, base, Solution
  <2> QED BY <1>1, <1>3, <1>4, SubsetRecursion, Zenon
<1>6. \A t \in SUBSET (1 .. N) : t # {} =>
         step[<<f[t \ {Max(t)}], Max(t)>>] = Saturate(f[t \ {Max(t)}], counts[Max(t)])
  <2> SUFFICES ASSUME NEW t \in SUBSET (1 .. N), t # {}
               PROVE  step[<<f[t \ {Max(t)}], Max(t)>>] = Saturate(f[t \ {Max(t)}], counts[Max(t)])
    OBVIOUS
  <2>1. Max(t) \in 1 .. N  BY <1>1, MaxOfInterval
  <2>2. f[t \ {Max(t)}] \in T  OBVIOUS
  <2> HIDE DEF Saturate, T, N
  <2> QED BY <2>1, <2>2
<1>7. Solution(f)
  <2> HIDE DEF step, Saturate, base
  <2> QED BY <1>5, <1>6 DEF FoldsSets
<1>8. Solution(iter)
  <2> HIDE DEF Solution
  <2> QED BY <1>7
<1>9. iter[{}] = base
  <2> HIDE DEF iter, Saturate, base
  <2> QED BY <1>8
<1>10. \A k \in 1 .. N : iter[1 .. k] = Saturate(iter[1 .. k - 1], counts[k])
  <2> SUFFICES ASSUME NEW k \in 1 .. N PROVE iter[1 .. k] = Saturate(iter[1 .. k - 1], counts[k])
    OBVIOUS
  <2>1. 1 .. k \in SUBSET (1 .. N) /\ 1 .. k # {}
    <3>1. N \in Nat  BY <1>1
    <3> HIDE DEF N
    <3> QED BY <3>1, LeadingInterval
  <2>2. Max(1 .. k) = k /\ (1 .. k) \ {k} = 1 .. k - 1  BY <1>1, MaxOfInitial
  <2>3. iter[1 .. k] = Saturate(iter[(1 .. k) \ {Max(1 .. k)}], counts[Max(1 .. k)])
    <3> HIDE DEF iter, Saturate, base
    <3> QED BY <1>8, <2>1
  <2> HIDE DEF iter, Saturate
  <2> QED BY <2>2, <2>3
<1>11. SaturatedProduct(counts) = iter[1 .. N].value
  BY <1>1, Zenon DEF SaturatedProduct, FoldLeft, MapThenFoldSet
<1> HIDE DEF iter
<1>12. FoldsIntervals(iter, N, T, base, step)
  <2> HIDE DEF Saturate, T, base
  <2> QED BY <1>9, <1>10 DEF FoldsIntervals
<1> DEFINE h == OnPrefixes(iter, N)
<1>13. h \in [0 .. N -> T] /\ FoldsPrefixes(h, N, base, step)
  <2> HIDE DEF step, N, T, base, Solution
  <2> QED BY <1>1, <1>3, <1>4, <1>12, PrefixesOfFold, Zenon
<1>14. h[N] = iter[1 .. N]  BY <1>1 DEF OnPrefixes
<1> HIDE DEF h
<1>15. h[0] = base /\ \A k \in 1 .. N : h[k] = Saturate(h[k - 1], counts[k])
  <2>1. h[0] = base  BY <1>13 DEF FoldsPrefixes
  <2> SUFFICES ASSUME NEW k \in 1 .. N PROVE h[k] = Saturate(h[k - 1], counts[k])
    BY <2>1
  <2>0. k - 1 \in 0 .. N  BY <1>1
  <2>2. h[k - 1] \in T
    <3> HIDE DEF T, N
    <3> QED BY <1>13, <2>0
  <2> HIDE DEF Saturate, T, N
  <2> QED BY <1>13, <2>2 DEF FoldsPrefixes
<1>16. SaturatedProduct(counts) \in Nat
  <2>1. N \in 0 .. N  BY <1>1
  <2>2. h[N] \in T
    <3> HIDE DEF T, N
    <3> QED BY <1>13, <2>1
  <2> QED BY <1>11, <1>14, <2>2
<1>17. ASSUME Product(counts) \in 1 .. MaxI32 PROVE SaturatedProduct(counts) = Product(counts)
  <2>1. PICK p \in [0 .. N -> Nat] :
          /\ p[0] = 1
          /\ \A k \in 1 .. N : p[k] = p[k - 1] * counts[k]
          /\ p[N] = Product(counts)
          /\ (\E k \in 1 .. N : counts[k] = 0) => Product(counts) = 0
          /\ (\A k \in 1 .. N : counts[k] # 0) => \A k \in 0 .. N : p[k] \in 1 .. Product(counts)
    BY ProductOfNats
  <2>2. MaxI32 \in Nat  BY WidthAssumption
  <2>3. \A k \in 0 .. N : p[k] \in 1 .. MaxI32
    <3>1. \A k \in 0 .. N : p[k] \in 1 .. Product(counts)  BY <1>17, <2>1, <2>2
    <3> QED BY <1>17, <2>2, <3>1
  <2>4. \A k \in 1 .. N : counts[k] \in Nat \ {0}  BY <1>1, <1>17, <2>1, <2>2
  <2> DEFINE U == {k \in 0 .. N : h[k] = [value |-> p[k], done |-> FALSE]}
  <2>5. 0 \in U
    <3>1. 0 \in 0 .. N  BY <1>1
    <3>2. h[0] = [value |-> p[0], done |-> FALSE]  BY <1>15, <2>1
    <3> QED BY <3>1, <3>2
  <2>6. \A k \in 0 .. N - 1 : k \in U => k + 1 \in U
    <3> SUFFICES ASSUME NEW k \in 0 .. N - 1, h[k] = [value |-> p[k], done |-> FALSE]
                 PROVE  k + 1 \in 0 .. N /\ h[k + 1] = [value |-> p[k + 1], done |-> FALSE]
      OBVIOUS
    <3>1. k + 1 \in 1 .. N /\ k + 1 \in 0 .. N /\ k \in 0 .. N /\ (k + 1) - 1 = k  BY <1>1
    <3>2. h[k + 1] = Saturate(h[k], counts[k + 1])  BY <1>15, <3>1
    <3>3. p[k + 1] = p[k] * counts[k + 1]  BY <2>1, <3>1
    <3>4. p[k] \in Nat \ {0} /\ counts[k + 1] \in Nat \ {0} /\ p[k + 1] <= MaxI32
      BY <2>2, <2>3, <2>4, <3>1
    <3>5. ~(counts[k + 1] > MaxI32 \div p[k])
      <4>1. counts[k + 1] <= MaxI32 \div p[k]  BY <2>2, <3>3, <3>4, DivAtLeast
      <4>2. MaxI32 \div p[k] \in Nat  BY <2>2, <3>4, DivMod
      <4>3. counts[k + 1] \in Nat  BY <3>4
      <4> HIDE DEF N, T, Saturate, U, h
      <4> QED BY <4>1, <4>2, <4>3
    <3>6. h[k + 1] = [value |-> p[k] * counts[k + 1], done |-> FALSE]
      BY <3>2, <3>4, <3>5
    <3> QED BY <3>1, <3>3, <3>6
  <2> HIDE DEF U
  <2>7. 0 .. N \subseteq U
    <3> HIDE DEF N
    <3> QED BY <1>1, <2>5, <2>6, IntervalInduction
  <2>8. N \in U  BY <1>1, <2>7
  <2>9. h[N].value = p[N]  BY <2>8 DEF U
  <2> QED BY <1>11, <1>14, <2>1, <2>9
<1> QED BY <1>16, <1>17

-----------------------------------------------------------------------------
(* The grids.                                                              *)

\* Computed statically or at the launch, the interpreter's grid is the clamped
\* number of tiles.
LEMMA InterpreterGridValue ==
  ASSUME NEW r \in Requests, NEW shape \in RuntimeShapes(r)
  PROVE  InterpreterGrid(r, ConfigureGridMetadata(r), shape)
           = Min({ClampPersistent(r, SaturatedProduct(KernelCounts(r, shape))), MaxI32})
<1> DEFINE meta == ConfigureGridMetadata(r)
<1>1. CASE IsDynamic(r.outShape)
  <2>1. meta.runtimeGrid  BY <1>1 DEF ConfigureGridMetadata
  <2>2. InterpreterGrid(r, meta, shape) = ComputeTileBasedGrid(r, meta, shape)
    BY <2>1 DEF InterpreterGrid
  <2> QED BY <2>2, MetadataCounts
<1>2. CASE ~IsDynamic(r.outShape)
  <2>1. ~meta.runtimeGrid /\ meta.staticGrid = ComputeStaticGridSize(r)
    BY <1>2 DEF ConfigureGridMetadata
  <2>2. KernelCounts(r, shape) = StaticCounts(r)
    BY <1>2, DynamicTogether, StaticKernelCounts
  <2> QED BY <2>1, <2>2 DEF InterpreterGrid, ComputeStaticGridSize
<1> QED BY <1>1, <1>2

\* The three shapes of a compiled kernel: direct and not persistent, persistent
\* within the limit, and looping.
LEMMA KernelShape ==
  ASSUME NEW r \in Requests, NEW shape \in RuntimeShapes(r),
         r.persistent => ~PersistenceRejected(r)
  PROVE  LET k == FormStaticPersistence(r)
             tiles == Product(KernelCounts(r, shape))
         IN /\ tiles \in Nat
            /\ k.loop \in BOOLEAN /\ k.limit = r.smCount * r.occupancy
            /\ r.persistent => /\ r.smCount > 0 /\ r.occupancy > 0
                               /\ k.limit \in 1 .. MaxI32
            /\ ~r.persistent => ~k.loop
            /\ r.persistent /\ ~k.loop => tiles <= k.limit
            /\ k.loop /\ k.static => tiles > k.limit
<1> DEFINE k == FormStaticPersistence(r)
           tiles == Product(KernelCounts(r, shape))
<1>1. r.persistent \in BOOLEAN /\ r.smCount \in Int /\ r.occupancy \in Int  BY RequestShapes
<1>2. k.limit = r.smCount * r.occupancy /\ k.static = ~IsDynamic(r.iterShape)
      /\ k.loop = (/\ r.persistent
                   /\ \/ IsDynamic(r.iterShape)
                      \/ Product(StaticCounts(r)) > r.smCount * r.occupancy)
  BY DEF FormStaticPersistence
<1>3. tiles \in Nat
  <2>1. KernelCounts(r, shape) \in Seq(Nat)  BY KernelCountsType
  <2>2. PICK p \in [0 .. Len(KernelCounts(r, shape)) -> Nat] :
          p[Len(KernelCounts(r, shape))] = tiles
    BY <2>1, ProductOfNats
  <2>3. Len(KernelCounts(r, shape)) \in 0 .. Len(KernelCounts(r, shape))  BY <2>1
  <2> QED BY <2>2, <2>3
<1>4. ASSUME r.persistent
      PROVE  r.smCount > 0 /\ r.occupancy > 0 /\ r.smCount * r.occupancy \in 1 .. MaxI32
  <2>1. r.smCount >= 1 /\ r.occupancy >= 1 /\ r.smCount * r.occupancy <= MaxI32
    <3>1. ~PersistenceRejected(r)  BY <1>4
    <3>2. r.smCount * r.occupancy \in Int  BY <1>1, SMT
    <3> QED BY <1>1, <3>1, <3>2, WidthAssumption DEF PersistenceRejected
  <2>2. \A x, y \in Nat \ {0} : x * y \in Nat \ {0}  BY SMT
  <2>3. r.smCount * r.occupancy \in Nat \ {0}  BY <1>1, <2>1, <2>2
  <2> QED BY <1>1, <2>1, <2>3, WidthAssumption
<1>5. ~IsDynamic(r.iterShape) => tiles = Product(StaticCounts(r))  BY StaticKernelCounts
<1> HIDE DEF k, tiles
<1>6. r.persistent /\ ~k.loop => tiles <= k.limit
  <2> SUFFICES ASSUME r.persistent, ~k.loop PROVE tiles <= k.limit
    OBVIOUS
  <2>1. tiles = Product(StaticCounts(r)) /\ ~(Product(StaticCounts(r)) > k.limit)
    BY <1>2, <1>5
  <2>2. k.limit \in Int  BY <1>2, <1>4
  <2> QED BY <1>3, <2>1, <2>2
<1>7. k.loop /\ k.static => tiles > k.limit  BY <1>2, <1>5
<1> QED BY <1>1, <1>2, <1>3, <1>4, <1>6, <1>7 DEF k, tiles

\* The grids of a direct kernel, and of the two host targets for a space with
\* tiles; a persistent kernel's stay within the limit.
LEMMA Grids ==
  ASSUME NEW r \in Requests, NEW shape \in RuntimeShapes(r),
         r.persistent => ~PersistenceRejected(r)
  PROVE  LET k == FormStaticPersistence(r)
             tiles == Product(KernelCounts(r, shape))
             host == InterpreterGrid(r, ConfigureGridMetadata(r), shape)
         IN /\ ~k.loop => NativeGrid(k, tiles) = tiles
            /\ tiles \in 1 .. MaxI32 => host = NativeGrid(k, tiles)
            /\ r.persistent => NativeGrid(k, tiles) <= k.limit /\ host <= k.limit
<1> DEFINE k == FormStaticPersistence(r)
           tiles == Product(KernelCounts(r, shape))
           host == InterpreterGrid(r, ConfigureGridMetadata(r), shape)
           sat == SaturatedProduct(KernelCounts(r, shape))
<1>1. /\ tiles \in Nat
      /\ k.loop \in BOOLEAN /\ k.limit = r.smCount * r.occupancy
      /\ r.persistent => r.smCount > 0 /\ r.occupancy > 0 /\ k.limit \in 1 .. MaxI32
      /\ ~r.persistent => ~k.loop
      /\ r.persistent /\ ~k.loop => tiles <= k.limit
      /\ k.loop /\ k.static => tiles > k.limit
  BY KernelShape
<1>2. sat \in Nat /\ (tiles \in 1 .. MaxI32 => sat = tiles)
  BY KernelCountsType, SaturatedProductValue
<1>3. host = Min({ClampPersistent(r, sat), MaxI32})  BY InterpreterGridValue
<1>4. r.persistent \in BOOLEAN /\ MaxI32 \in Nat \ {0}  BY RequestShapes, WidthAssumption
<1> HIDE DEF k, tiles, host, sat
<1>5. CASE ~r.persistent
  <2>1. ClampPersistent(r, sat) = sat  BY <1>5 DEF ClampPersistent
  <2>2. host = IF sat <= MaxI32 THEN sat ELSE MaxI32  BY <1>2, <1>3, <1>4, <2>1, MinOfTwo
  <2>3. NativeGrid(k, tiles) = tiles  BY <1>1, <1>5 DEF NativeGrid
  <2> QED BY <1>1, <1>2, <1>4, <1>5, <2>2, <2>3 DEF k, tiles, host
<1>6. CASE r.persistent
  <2>1. k.limit \in 1 .. MaxI32 /\ k.limit \in Nat  BY <1>1, <1>6
  <2>2. ClampPersistent(r, sat) = Min({sat, k.limit})  BY <1>1, <1>6 DEF ClampPersistent
  <2>3. Min({sat, k.limit}) = IF sat <= k.limit THEN sat ELSE k.limit  BY <1>2, <2>1, MinOfTwo
  <2>4. Min({sat, k.limit}) \in Nat /\ Min({sat, k.limit}) <= k.limit  BY <1>2, <2>1, <2>3
  <2>5. host = IF sat <= k.limit THEN sat ELSE k.limit
    <3>1. host = IF Min({sat, k.limit}) <= MaxI32 THEN Min({sat, k.limit}) ELSE MaxI32
      BY <1>3, <1>4, <2>2, <2>4, MinOfTwo
    <3> QED BY <1>4, <2>1, <2>3, <2>4, <3>1
  <2>6. CASE ~k.loop
    <3>1. NativeGrid(k, tiles) = tiles  BY <2>6 DEF NativeGrid
    <3>2. tiles <= k.limit  BY <1>1, <1>6, <2>6
    <3> QED BY <1>1, <1>2, <2>1, <2>5, <3>1, <3>2 DEF k, tiles, host
  <2>7. CASE k.loop /\ k.static
    <3>1. NativeGrid(k, tiles) = Max({1, k.limit})  BY <2>7 DEF NativeGrid
    <3>2. NativeGrid(k, tiles) = k.limit  BY <2>1, <3>1, MaxOfTwo
    <3>3. tiles > k.limit  BY <1>1, <2>7
    <3> QED BY <1>1, <1>2, <2>1, <2>5, <2>7, <3>2, <3>3 DEF k, tiles, host
  <2>8. CASE k.loop /\ ~k.static
    <3>1. NativeGrid(k, tiles) = Max({Min({tiles, k.limit}), 1})  BY <2>8 DEF NativeGrid
    <3>2. Min({tiles, k.limit}) = IF tiles <= k.limit THEN tiles ELSE k.limit
      BY <1>1, <2>1, MinOfTwo
    <3>3. Min({tiles, k.limit}) \in Nat  BY <1>1, <2>1, <3>2
    <3>4. NativeGrid(k, tiles) = IF Min({tiles, k.limit}) >= 1 THEN Min({tiles, k.limit}) ELSE 1
      <4> DEFINE m == Min({tiles, k.limit})
      <4>1. m \in Int /\ 1 \in Int /\ NativeGrid(k, tiles) = Max({m, 1})  BY <3>1, <3>3
      <4> HIDE DEF m
      <4>2. NativeGrid(k, tiles) = IF m >= 1 THEN m ELSE 1  BY <4>1, MaxOfTwo
      <4> QED BY <4>2 DEF m
    <3> QED BY <1>1, <1>2, <2>1, <2>5, <2>8, <3>2, <3>4 DEF k, tiles, host
  <2> QED BY <1>1, <2>6, <2>7, <2>8
<1> QED BY <1>4, <1>5, <1>6

-----------------------------------------------------------------------------
(* The invariant.                                                          *)

\* Nothing is compiled or launched at first.
LEMMA GridInit == Init => GridInv
  BY DEF Init, GridInv, CompiledInv, LaunchedInv, ProgressInv

\* The blocks at the start of a launch.
LEMMA LaunchStartsProgress ==
  ASSUME GridInv, Launch
  PROVE  ProgressInv'
<1>1. PICK shape \in RuntimeShapes(request) :
        /\ LaunchAccepts(grid')
        /\ grid' = HostGrid(shape)
        /\ total' = Product(KernelCounts(request, shape))
        /\ cursor' = [b \in 0 .. HostGrid(shape) - 1 |-> b]
        /\ written' = {}
  BY DEF Launch
<1>2. grid' \in Nat \ {0}  BY <1>1, WidthAssumption DEF LaunchAccepts
<1>3. total' \in Nat
  <2>1. request \in Requests /\ phase = "compiled"  BY DEF GridInv, Launch
  <2>2. request.persistent => ~PersistenceRejected(request)  BY <2>1 DEF GridInv, CompiledInv
  <2> QED BY <1>1, <2>1, <2>2, KernelShape
<1>4. Device!Blocks' = 0 .. grid' - 1  BY DEF Device!Blocks
<1>5. cursor' = [b \in Device!Blocks' |-> b]  BY <1>1, <1>4
<1>6. \A b \in Device!Blocks' : b \in Nat /\ cursor'[b] = b /\ b % grid' = b
  <2> SUFFICES ASSUME NEW b \in 0 .. grid' - 1 PROVE b \in Nat /\ cursor'[b] = b /\ b % grid' = b
    BY <1>4
  <2>1. b % grid' = b  BY <1>2, SmallMod
  <2>2. b \in Nat  BY <1>2
  <2>3. cursor'[b] = b  BY <1>4, <1>5
  <2> QED BY <2>1, <2>2, <2>3
<1>7. cursor' \in [Device!Blocks' -> Nat]  BY <1>5, <1>6
<1>8. Device!CursorInv'  BY <1>6 DEF Device!CursorInv
<1>9. Device!WrittenInv'
  <2> SUFFICES ASSUME NEW t \in 0 .. total' - 1 PROVE ~(t < cursor'[t % grid'])
    BY <1>1 DEF Device!WrittenInv
  <2>1. t \in Nat  BY <1>3
  <2>2. t % grid' \in Device!Blocks' /\ t % grid' <= t
    BY <1>2, <1>4, <2>1, DivMod, ModAtMost
  <2>3. cursor'[t % grid'] = t % grid'  BY <1>6, <2>2
  <2>4. t % grid' \in Nat  BY <1>6, <2>2
  <2> QED BY <2>1, <2>2, <2>3, <2>4
<1> QED BY <1>1, <1>7, <1>8, <1>9 DEF ProgressInv

\* A block's step keeps the blocks apart.
LEMMA TileKeepsProgress ==
  ASSUME GridInv, NEW b \in Device!Blocks, ProcessTile(b)
  PROVE  ProgressInv'
<1>1. /\ phase = "running"
      /\ total' = total /\ bound' = bound /\ loop' = loop /\ grid' = grid
      /\ Device!Blocks' = Device!Blocks
      /\ cursor' = [cursor EXCEPT ![b] = @ + grid]
      /\ written' = written \cup {cursor[b]}
      /\ Device!Running(b)
  BY DEF ProcessTile, Device!ProcessTile, Device!Blocks
<1>2. /\ cursor \in [Device!Blocks -> Nat] /\ written \subseteq Nat
      /\ Device!CursorInv
      /\ \A t \in written : t < cursor[t % grid]
      /\ Device!ValidLaunch => Device!WrittenInv
  BY <1>1 DEF GridInv, ProgressInv
<1>3. PICK shape \in RuntimeShapes(request) :
        /\ total = Product(KernelCounts(request, shape)) /\ grid \in 1 .. MaxI32
  BY <1>1 DEF GridInv, LaunchedInv, LaunchAccepts
<1>4. grid \in Nat \ {0} /\ total \in Nat /\ cursor[b] \in Nat
  <2>1. request.persistent => ~PersistenceRejected(request)  BY <1>1 DEF GridInv, CompiledInv
  <2>2. total \in Nat  BY <1>3, <2>1, KernelShape DEF GridInv
  <2> QED BY <1>2, <1>3, <2>2, WidthAssumption
<1>5. cursor[b] % grid = b /\ (~loop => cursor[b] = b)
  BY <1>1, <1>2 DEF Device!CursorInv, Device!Running
<1>6. cursor'[b] = cursor[b] + grid /\ \A c \in Device!Blocks : c # b => cursor'[c] = cursor[c]
  BY <1>1, <1>2
<1>7. cursor' \in [Device!Blocks' -> Nat] /\ written' \subseteq Nat
  <2>1. cursor[b] + grid \in Nat  BY <1>4
  <2> QED BY <1>1, <1>2, <1>4, <2>1
<1>8. Device!CursorInv'
  <2> SUFFICES ASSUME NEW c \in Device!Blocks
               PROVE cursor'[c] % grid = c /\ (~loop => cursor'[c] \in {c, c + grid})
    BY <1>1 DEF Device!CursorInv
  <2>1. CASE c # b  BY <1>2, <1>6, <2>1 DEF Device!CursorInv
  <2>2. CASE c = b
    <3>1. (cursor[b] + grid) % grid = b  BY <1>4, <1>5, ModStep
    <3> QED BY <1>5, <1>6, <2>2, <3>1
  <2> QED BY <2>1, <2>2
<1>9. ASSUME NEW t \in Nat
      PROVE  /\ t % grid \in Device!Blocks
             /\ t < cursor'[t % grid] <=> t < cursor[t % grid] \/ t = cursor[b]
  <2>1. t % grid \in Device!Blocks  BY <1>4, DivMod DEF Device!Blocks
  <2>2. CASE t % grid # b
    <3>1. t # cursor[b]  BY <1>5, <2>2
    <3> QED BY <1>6, <2>1, <2>2, <3>1
  <2>3. CASE t % grid = b
    <3>1. cursor'[t % grid] = cursor[b] + grid /\ cursor[t % grid] = cursor[b]  BY <1>6, <2>3
    <3>2. t < cursor[b] + grid => t <= cursor[b]
      <4> SUFFICES ASSUME t < cursor[b] + grid, cursor[b] <= t PROVE t = cursor[b]
        BY <1>4
      <4> QED BY <1>4, <1>5, <2>3, ModWindow
    <3> QED BY <1>4, <2>1, <3>1, <3>2
  <2> QED BY <2>2, <2>3
<1>10. \A t \in written' : t < cursor'[t % grid]
  BY <1>1, <1>2, <1>4, <1>9
<1>11. ASSUME Device!ValidLaunch PROVE Device!WrittenInv'
  <2>1. written = {t \in 0 .. total - 1 : t < cursor[t % grid]}
    BY <1>2, <1>11 DEF Device!WrittenInv
  <2>2. cursor[b] < total
    <3>1. CASE loop
      BY <1>1, <1>11, <3>1 DEF Device!ValidLaunch, Device!Running
    <3>2. CASE ~loop
      <4>1. grid = total /\ cursor[b] = b  BY <1>5, <1>11, <3>2 DEF Device!ValidLaunch
      <4> QED BY <1>4, <4>1 DEF Device!Blocks
    <3> QED BY <3>1, <3>2
  <2>3. cursor[b] \in 0 .. total - 1  BY <1>4, <2>2
  <2>4. \A t \in 0 .. total - 1 : t \in written' <=> t < cursor'[t % grid]
    <3> SUFFICES ASSUME NEW t \in 0 .. total - 1
                 PROVE  t \in written' <=> t < cursor'[t % grid]
      OBVIOUS
    <3>1. t \in Nat  BY <1>4
    <3> QED BY <1>1, <1>9, <2>1, <3>1
  <2>5. written' \subseteq 0 .. total - 1  BY <1>1, <2>1, <2>3
  <2>6. written' = {t \in 0 .. total - 1 : t < cursor'[t % grid]}  BY <2>4, <2>5
  <2> QED BY <1>1, <2>6 DEF Device!WrittenInv
<1>12. Device!ValidLaunch' <=> Device!ValidLaunch  BY <1>1 DEF Device!ValidLaunch
<1> QED BY <1>1, <1>7, <1>8, <1>10, <1>11, <1>12 DEF ProgressInv

\* Compilation, launch, a processed tile and completion keep the invariant.
LEMMA GridStep == GridInv /\ [Next]_vars => GridInv'
<1> SUFFICES ASSUME GridInv, [Next]_vars PROVE GridInv'
  OBVIOUS
<1>1. CASE Compile
  <2>1. request' = request /\ phase' \in {"rejected", "compiled"}  BY <1>1 DEF Compile
  <2>2. CompiledInv'
    <3> SUFFICES ASSUME phase' = "compiled"
                 PROVE  /\ kernel' = FormStaticPersistence(request)
                        /\ metadata' = ConfigureGridMetadata(request)
                        /\ request.persistent => ~PersistenceRejected(request)
      BY <2>1 DEF CompiledInv
    <3> QED BY <1>1 DEF Compile
  <2> QED BY <2>1, <2>2 DEF GridInv, LaunchedInv, ProgressInv
<1>2. CASE Launch
  <2>1. UNCHANGED <<request, kernel, metadata>> /\ phase = "compiled" /\ phase' = "running"
    BY <1>2 DEF Launch
  <2>2. CompiledInv'  BY <2>1 DEF GridInv, CompiledInv
  <2>3. LaunchedInv'
    <3>1. PICK shape \in RuntimeShapes(request) :
            /\ LaunchAccepts(HostGrid(shape))
            /\ total' = Product(KernelCounts(request, shape))
            /\ bound' = ToI32(total')
            /\ loop' = kernel.loop
            /\ grid' = HostGrid(shape)
      BY <1>2 DEF Launch
    <3>2. HostGrid(shape)' = HostGrid(shape)  BY <2>1 DEF HostGrid
    <3> QED BY <2>1, <3>1, <3>2 DEF LaunchedInv
  <2>4. ProgressInv'  BY <1>2, LaunchStartsProgress
  <2> QED BY <2>1, <2>2, <2>3, <2>4 DEF GridInv
<1>3. ASSUME NEW b \in Device!Blocks, ProcessTile(b) PROVE GridInv'
  <2>1. UNCHANGED <<request, phase, kernel, metadata, total, bound, loop, grid>>
    BY <1>3 DEF ProcessTile, Device!ProcessTile
  <2>2. CompiledInv'  BY <2>1 DEF GridInv, CompiledInv
  <2>3. LaunchedInv'  BY <2>1 DEF GridInv, LaunchedInv, HostGrid
  <2>4. ProgressInv'  BY <1>3, TileKeepsProgress
  <2> QED BY <2>1, <2>2, <2>3, <2>4 DEF GridInv
<1>4. CASE Complete
  BY <1>4 DEF Complete, GridInv, CompiledInv, LaunchedInv, ProgressInv
<1>5. CASE UNCHANGED vars
  BY <1>5 DEF vars, launchVars, GridInv, CompiledInv, LaunchedInv, ProgressInv, HostGrid,
       Device!Blocks, Device!CursorInv, Device!ValidLaunch, Device!WrittenInv
<1> QED BY <1>1, <1>2, <1>3, <1>4, <1>5 DEF Next

\* The kernel, its metadata and its launches are those of the request, and no
\* block processes a tile of another one.
THEOREM GridInvariant == Spec => []GridInv
<1> QED BY GridInit, GridStep, PTL DEF Spec

-----------------------------------------------------------------------------
(* The properties.                                                         *)

\* A number of tiles that an i32 holds is kept.
LEMMA ToI32Keeps ==
  ASSUME NEW n \in 0 .. MaxI32
  PROVE  ToI32(n) = n
<1>1. MaxI32 \in Nat  BY WidthAssumption
<1>2. 2 * (MaxI32 + 1) \in Nat \ {0} /\ n \in 0 .. 2 * (MaxI32 + 1) - 1  BY <1>1
<1>3. n % (2 * (MaxI32 + 1)) = n  BY <1>2, SmallMod
<1> QED BY <1>1, <1>3 DEF ToI32

\* What is known of a launch.
LEMMA LaunchFacts ==
  ASSUME GridInv, phase = "running"
  PROVE  /\ total \in Nat /\ grid \in Nat \ {0} /\ loop \in BOOLEAN
         /\ cursor \in [Device!Blocks -> Nat] /\ written \subseteq Nat
         /\ Device!CursorInv
         /\ \A t \in written : t < cursor[t % grid]
         /\ Device!ValidLaunch => Device!WrittenInv
         /\ total <= MaxI32 => bound = total
         /\ total <= MaxI32 /\ (total > 0 \/ request.native) /\ ~loop => grid = total
         /\ request.persistent => grid <= request.smCount * request.occupancy
<1>1. /\ request \in Requests
      /\ kernel = FormStaticPersistence(request) /\ metadata = ConfigureGridMetadata(request)
      /\ request.persistent => ~PersistenceRejected(request)
  BY DEF GridInv, CompiledInv
<1>2. PICK shape \in RuntimeShapes(request) :
        /\ total = Product(KernelCounts(request, shape))
        /\ bound = ToI32(total)
        /\ loop = kernel.loop
        /\ grid = HostGrid(shape) /\ LaunchAccepts(grid)
  BY DEF GridInv, LaunchedInv
<1>3. /\ total \in Nat /\ loop \in BOOLEAN
      /\ kernel.limit = request.smCount * request.occupancy
  BY <1>1, <1>2, KernelShape
<1>4. grid \in Nat \ {0}  BY <1>2, WidthAssumption DEF LaunchAccepts
<1>5. total <= MaxI32 => bound = total  BY <1>2, <1>3, ToI32Keeps, WidthAssumption
<1> DEFINE host == InterpreterGrid(request, metadata, shape)
           native == NativeGrid(kernel, total)
<1>6. /\ ~kernel.loop => native = total
      /\ total \in 1 .. MaxI32 => host = native
      /\ request.persistent => native <= kernel.limit /\ host <= kernel.limit
  BY <1>1, <1>2, Grids
<1>7. grid = IF request.native THEN native ELSE host  BY <1>2 DEF HostGrid
<1> HIDE DEF host, native
<1>8. total <= MaxI32 /\ (total > 0 \/ request.native) /\ ~loop => grid = total
  <2> SUFFICES ASSUME total <= MaxI32, total > 0 \/ request.native, ~loop PROVE grid = total
    OBVIOUS
  <2>1. native = total  BY <1>2, <1>6
  <2>2. CASE request.native  BY <1>7, <2>1, <2>2
  <2>3. CASE ~request.native
    <3>1. total \in 1 .. MaxI32  BY <1>3, <2>3, WidthAssumption
    <3> QED BY <1>6, <1>7, <2>1, <2>3, <3>1
  <2> QED BY <2>2, <2>3
<1>9. request.persistent => grid <= request.smCount * request.occupancy
  BY <1>3, <1>6, <1>7
<1>10. /\ cursor \in [Device!Blocks -> Nat] /\ written \subseteq Nat
       /\ Device!CursorInv
       /\ \A t \in written : t < cursor[t % grid]
       /\ Device!ValidLaunch => Device!WrittenInv
  BY DEF GridInv, ProgressInv
<1> QED BY <1>3, <1>4, <1>5, <1>8, <1>9, <1>10

\* Whatever the request and the runtime extents, both host targets launch a
\* kernel with the grid its code needs; the exception is an empty space whose
\* leading extents saturate.
THEOREM LaunchesAreValid == Spec => []LaunchIsValid
<1>1. GridInv => LaunchIsValid
  <2> SUFFICES ASSUME GridInv, phase = "running", total <= MaxI32
               PROVE  Device!ValidLaunch \/ (total = 0 /\ ~loop /\ ~request.native)
    BY DEF LaunchIsValid
  <2> QED BY LaunchFacts DEF Device!ValidLaunch
<1> QED BY <1>1, GridInvariant, PTL

\* The grid of a persistent kernel is within smCount * occupancy.
THEOREM PersistentGridsFit == Spec => []PersistentGridFits
<1>1. GridInv => PersistentGridFits  BY LaunchFacts DEF PersistentGridFits
<1> QED BY <1>1, GridInvariant, PTL

\* The interpreter's and the native wrapper's grid computations agree on every
\* runtime shape with tiles.
THEOREM HostPathsAlwaysAgree == Spec => []HostPathsAgree
<1>1. GridInv => HostPathsAgree
  <2> SUFFICES ASSUME GridInv, phase = "compiled", NEW shape \in RuntimeShapes(request),
                      Product(KernelCounts(request, shape)) \in 1 .. MaxI32
               PROVE  NativeGrid(kernel, Product(KernelCounts(request, shape)))
                        = InterpreterGrid(request, metadata, shape)
    BY Zenon DEF HostPathsAgree
  <2>1. /\ request \in Requests
        /\ kernel = FormStaticPersistence(request) /\ metadata = ConfigureGridMetadata(request)
        /\ request.persistent => ~PersistenceRejected(request)
    BY DEF GridInv, CompiledInv
  <2> QED BY <2>1, Grids
<1> QED BY <1>1, GridInvariant, PTL

\* A finished launch has processed the tiles of the space and nothing else.
THEOREM LaunchesProcessAllTiles == Spec => []AllTilesProcessed
<1>1. GridInv => AllTilesProcessed
  <2> SUFFICES ASSUME GridInv, phase = "running", total <= MaxI32,
                      total > 0 \/ loop \/ request.native, Device!Finished
               PROVE  written = 0 .. total - 1
    BY DEF AllTilesProcessed, Device!AllTilesProcessed
  <2>1. /\ total \in Nat /\ grid \in Nat \ {0} /\ loop \in BOOLEAN
        /\ cursor \in [Device!Blocks -> Nat]
        /\ Device!CursorInv /\ bound = total
        /\ ~loop => grid = total
        /\ Device!ValidLaunch => Device!WrittenInv
    BY LaunchFacts
  <2>2. written = {t \in 0 .. total - 1 : t < cursor[t % grid]}
    BY <2>1 DEF Device!ValidLaunch, Device!WrittenInv
  <2>3. ASSUME NEW t \in 0 .. total - 1 PROVE t < cursor[t % grid]
    <3> DEFINE b == t % grid
    <3>1. t \in Nat /\ t < total  BY <2>1
    <3>2. b \in Device!Blocks  BY <2>1, <3>1, DivMod DEF Device!Blocks
    <3>3. ~Device!Running(b)  BY <3>2 DEF Device!Finished
    <3>4. cursor[b] \in Nat /\ (~loop => cursor[b] \in {b, b + grid})
      BY <2>1, <3>2 DEF Device!CursorInv
    <3> SUFFICES t < cursor[b]
      OBVIOUS
    <3> HIDE DEF b
    <3>5. CASE loop
      BY <2>1, <3>1, <3>3, <3>4, <3>5 DEF Device!Running
    <3>6. CASE ~loop
      <4>1. cursor[b] = b + grid /\ grid = total  BY <2>1, <3>3, <3>4, <3>6 DEF Device!Running
      <4>2. b \in Nat  BY <2>1, <3>2 DEF Device!Blocks
      <4> QED BY <2>1, <3>1, <4>1, <4>2
    <3> QED BY <2>1, <3>5, <3>6
  <2> QED BY <2>2, <2>3
<1> QED BY <1>1, GridInvariant, PTL

\* No block processes a tile that it or another block has processed, in valid
\* launches and in those beyond the 32-bit range.
THEOREM LaunchesProcessTilesOnce == Spec => EachTileOnce
<1>1. GridInv /\ [Next]_vars
        => [phase = "running" /\ phase' = "running" =>
              \A b \in Device!Blocks : cursor'[b] # cursor[b] => cursor[b] \notin written]_vars
  <2> SUFFICES ASSUME GridInv, phase = "running",
                      NEW b \in Device!Blocks, cursor'[b] # cursor[b], cursor[b] \in written
               PROVE  FALSE
    OBVIOUS
  <2>1. cursor \in [Device!Blocks -> Nat] /\ cursor[b] % grid = b
        /\ cursor[b] < cursor[cursor[b] % grid]
    BY LaunchFacts DEF Device!CursorInv
  <2> QED BY <2>1
<1> QED BY <1>1, GridInvariant, PTL DEF Spec, EachTileOnce

-----------------------------------------------------------------------------
(* The indices of the tiles.                                               *)

Digits(p, counts, N, t) == [i \in 1 .. N |-> Digit(p, counts, t, i)]

\* Below the number of tiles, the delinearized index is the digits of the index
\* in the mixed radix of the counts: the shortcuts for dimensions of one tile
\* and for the last dimension do not change a digit.
LEMMA DelinearizeIsDigits ==
  ASSUME NEW r, NEW counts, NEW N \in Nat, NEW p, LeadingProducts(p, counts, N),
         NEW t \in 0 .. p[N] - 1
  PROVE  Delinearize(r, counts, t) = Digits(p, counts, N, t)
<1> DEFINE single(i) == r.iterShape[i] # Dynamic /\ counts[i] = 1
           tiled == {i \in DOMAIN counts : ~single(i)}
           factors(i) == [j \in 1 .. i - 1 |-> IF single(j) THEN 1 ELSE counts[j]]
           rest(i) == t \div Product(factors(i))
<1>1. /\ DOMAIN counts = 1 .. N
      /\ \A i \in 1 .. N : counts[i] \in Nat \ {0}
      /\ \A i \in 0 .. N : p[i] \in Nat \ {0}
      /\ p[0] = 1
      /\ \A i \in 1 .. N : p[i] = p[i - 1] * counts[i]
  BY DEF LeadingProducts
<1>2. t \in Nat /\ t < p[N]  BY <1>1
<1>3. ASSUME NEW i \in 1 .. N PROVE rest(i) = t \div p[i - 1]
  <2> DEFINE u == factors(i)
             M == i - 1
  <2>1. M \in Nat /\ M <= N /\ M \in 0 .. N  OBVIOUS
  <2>2. \A j \in 1 .. M : u[j] = counts[j] /\ u[j] \in Int
    <3> SUFFICES ASSUME NEW j \in 1 .. M PROVE u[j] = counts[j] /\ u[j] \in Int
      OBVIOUS
    <3>1. j \in 1 .. N  BY <2>1
    <3>2. u[j] = counts[j]  OBVIOUS
    <3> QED BY <1>1, <3>1, <3>2
  <2>3. u \in Seq(Int) /\ Len(u) = M
    <3>1. u \in [1 .. M -> Int]
      <4>1. DOMAIN u = 1 .. M /\ u = [j \in 1 .. M |-> u[j]]  OBVIOUS
      <4> HIDE DEF u
      <4> QED BY <2>2, <4>1
    <3> HIDE DEF u, M
    <3> QED BY <2>1, <3>1, IsASeq, LenProperties
  <2>4. PICK q \in [0 .. M -> Int] :
          /\ q[0] = 1
          /\ \A k \in 1 .. M : q[k] = q[k - 1] * u[k]
          /\ q[M] = Product(u)
    <3> HIDE DEF u, M
    <3> QED BY <2>3, ProductPrefixes
  <2> HIDE DEF u, M
  <2> DEFINE U == {k \in 0 .. M : q[k] = p[k]}
  <2>5. 0 \in U  BY <1>1, <2>1, <2>4
  <2>6. \A k \in 0 .. M - 1 : k \in U => k + 1 \in U
    <3> SUFFICES ASSUME NEW k \in 0 .. M - 1, q[k] = p[k]
                 PROVE  k + 1 \in 0 .. M /\ q[k + 1] = p[k + 1]
      OBVIOUS
    <3>1. k + 1 \in 1 .. M /\ k + 1 \in 1 .. N /\ k + 1 \in 0 .. M /\ (k + 1) - 1 = k  BY <2>1
    <3> QED BY <1>1, <2>2, <2>4, <3>1
  <2> HIDE DEF U
  <2>7. 0 .. M \subseteq U  BY <2>1, <2>5, <2>6, IntervalInduction
  <2>8. M \in U  BY <2>1, <2>7
  <2>9. Product(u) = p[M]  BY <2>4, <2>8 DEF U
  <2> QED BY <2>9 DEF u, M
<1> HIDE DEF factors
<1>4. ASSUME NEW i \in 1 .. N, i \notin tiled PROVE Digit(p, counts, t, i) = 0
  <2>1. counts[i] = 1  BY <1>1, <1>4
  <2>2. i - 1 \in 0 .. N  OBVIOUS
  <2>3. p[i - 1] \in Nat \ {0}  BY <1>1, <2>2
  <2>4. t \div p[i - 1] \in Nat  BY <1>2, <2>3, DivMod
  <2>5. (t \div p[i - 1]) % 1 \in 0 .. 1 - 1  BY <2>4, DivMod
  <2>6. (t \div p[i - 1]) % 1 = 0  BY <2>5
  <2> QED BY <2>1, <2>6 DEF Digit
<1>5. ASSUME NEW i \in 1 .. N, i = Max(tiled), tiled # {}
      PROVE  Digit(p, counts, t, i) = t \div p[i - 1]
  <2>1. tiled \in SUBSET (1 .. N)  BY <1>1
  <2>2. \A j \in tiled : j <= i
    <3> HIDE DEF tiled
    <3> QED BY <1>5, <2>1, MaxOfInterval
  <2>3. \A j \in 1 .. N : j > i => counts[j] = 1
    <3> SUFFICES ASSUME NEW j \in 1 .. N, j > i, counts[j] # 1 PROVE FALSE
      OBVIOUS
    <3>1. j \in tiled  BY <1>1
    <3> QED BY <2>2, <3>1
  <2> DEFINE U == {k \in 0 .. N - i : p[i + k] = p[i]}
  <2>4. N - i \in Nat  OBVIOUS
  <2>5. 0 \in U  BY <2>4
  <2>6. \A k \in 0 .. (N - i) - 1 : k \in U => k + 1 \in U
    <3> SUFFICES ASSUME NEW k \in 0 .. (N - i) - 1, p[i + k] = p[i]
                 PROVE  k + 1 \in 0 .. N - i /\ p[i + (k + 1)] = p[i]
      OBVIOUS
    <3> DEFINE j == i + (k + 1)
    <3>1. j \in 1 .. N /\ j > i /\ j - 1 = i + k /\ k + 1 \in 0 .. N - i /\ i \in 0 .. N  OBVIOUS
    <3>2. p[j] = p[j - 1] * counts[j] /\ counts[j] = 1 /\ p[i] \in Nat
      <4> HIDE DEF j
      <4> QED BY <1>1, <2>3, <3>1
    <3>3. p[j] = p[i]
      <4> HIDE DEF j
      <4> QED BY <3>1, <3>2
    <3> QED BY <3>1, <3>3
  <2> HIDE DEF U
  <2>7. 0 .. N - i \subseteq U  BY <2>4, <2>5, <2>6, IntervalInduction
  <2>8. N - i \in U /\ i + (N - i) = N  BY <2>4, <2>7
  <2>9. p[N] = p[i]  BY <2>8 DEF U
  <2> DEFINE a == p[i - 1]
             n == counts[i]
             q == t \div a
  <2>10. a \in Nat \ {0} /\ n \in Nat \ {0} /\ p[i] = a * n
    <3>1. i - 1 \in 0 .. N  OBVIOUS
    <3> QED BY <1>1, <3>1
  <2>11. q \in Nat /\ q < n
    <3> HIDE DEF a, n
    <3>1. t < a * n  BY <1>2, <2>9, <2>10
    <3> QED BY <1>2, <2>10, <3>1, DivMod, DivLess
  <2>12. q % n = q
    <3> HIDE DEF q, n
    <3>1. q \in 0 .. n - 1  BY <2>10, <2>11
    <3> QED BY <2>10, <3>1, SmallMod
  <2> QED BY <2>12 DEF Digit
<1>6. Delinearize(r, counts, t) =
        [i \in DOMAIN counts |->
           CASE i \notin tiled -> 0
             [] i \in tiled /\ i = Max(tiled) -> rest(i)
             [] OTHER -> rest(i) % counts[i]]
  BY Zenon DEF Delinearize, factors
<1>7. \A i \in 1 .. N :
        (CASE i \notin tiled -> 0
           [] i \in tiled /\ i = Max(tiled) -> rest(i)
           [] OTHER -> rest(i) % counts[i]) = Digit(p, counts, t, i)
  <2> SUFFICES ASSUME NEW i \in 1 .. N
               PROVE  (CASE i \notin tiled -> 0
                         [] i \in tiled /\ i = Max(tiled) -> rest(i)
                         [] OTHER -> rest(i) % counts[i]) = Digit(p, counts, t, i)
    OBVIOUS
  <2> HIDE DEF tiled, rest
  <2>1. CASE i \notin tiled  BY <1>4, <2>1
  <2>2. CASE i \in tiled /\ i = Max(tiled)  BY <1>3, <1>5, <2>2
  <2>3. CASE i \in tiled /\ i # Max(tiled)  BY <1>3, <2>3 DEF Digit
  <2> QED BY <2>1, <2>2, <2>3
<1> HIDE DEF tiled, rest
<1> QED BY <1>1, <1>6, <1>7 DEF Digits

\* The leading products of the counts of a space with tiles.
LEMMA CountsHaveProducts ==
  ASSUME NEW counts \in Seq(Nat), Product(counts) # 0
  PROVE  \E p : /\ LeadingProducts(p, counts, Len(counts))
                /\ p[Len(counts)] = Product(counts)
                /\ Product(counts) \in Nat
<1> DEFINE N == Len(counts)
<1>1. PICK p \in [0 .. N -> Nat] :
        /\ p[0] = 1
        /\ \A k \in 1 .. N : p[k] = p[k - 1] * counts[k]
        /\ p[N] = Product(counts)
        /\ (\E k \in 1 .. N : counts[k] = 0) => Product(counts) = 0
        /\ (\A k \in 1 .. N : counts[k] # 0) => \A k \in 0 .. N : p[k] \in 1 .. Product(counts)
  BY ProductOfNats
<1>2. N \in Nat /\ counts \in [1 .. N -> Nat]  BY LenProperties
<1>3. Product(counts) \in Nat
  <2>1. N \in 0 .. N  BY <1>2
  <2> QED BY <1>1, <2>1
<1>4. \A k \in 1 .. N : counts[k] # 0  BY <1>1
<1>5. counts \in [1 .. N -> Nat \ {0}]  BY <1>2, <1>4
<1>6. \A k \in 0 .. N : p[k] \in Nat \ {0}
  <2> HIDE DEF N
  <2> QED BY <1>1, <1>3, <1>4
<1>7. p \in [0 .. N -> Nat \ {0}]
  <2> HIDE DEF N
  <2> QED BY <1>1, <1>6
<1> QED BY <1>1, <1>3, <1>5, <1>7 DEF LeadingProducts

\* Every tile of a space with tiles has an index, and every index a tile.
LEMMA DigitsCoverTiles ==
  ASSUME NEW r, NEW counts, NEW N \in Nat, NEW p, LeadingProducts(p, counts, N),
         p[N] <= MaxI32
  PROVE  {Delinearize(r, counts, t) : t \in 0 .. p[N] - 1} = Tiles(counts)
<1>1. \A t \in 0 .. p[N] - 1 :
        Delinearize(r, counts, t) = Digits(p, counts, N, t)
  BY DelinearizeIsDigits
<1>2. /\ DOMAIN counts = 1 .. N /\ MaxI32 \in Nat /\ p[N] \in Nat
      /\ \A i \in 1 .. N : counts[i] \in Nat \ {0} /\ p[i - 1] \in Nat \ {0}
  <2>1. \A i \in 1 .. N : i - 1 \in 0 .. N  OBVIOUS
  <2>2. N \in 0 .. N  OBVIOUS
  <2> QED BY <2>1, <2>2, WidthAssumption DEF LeadingProducts
<1>3. ASSUME NEW t \in 0 .. p[N] - 1
      PROVE  Delinearize(r, counts, t) \in Tiles(counts)
  <2>1. \A i \in 1 .. N : Digit(p, counts, t, i) \in 0 .. MaxI32 /\ Digit(p, counts, t, i) < counts[i]
    <3> SUFFICES ASSUME NEW i \in 1 .. N
                 PROVE  Digit(p, counts, t, i) \in 0 .. MaxI32 /\ Digit(p, counts, t, i) < counts[i]
      OBVIOUS
    <3> DEFINE a == p[i - 1]
               n == counts[i]
               q == t \div a
    <3>1. t \in Nat /\ t <= MaxI32 /\ a \in Nat \ {0} /\ n \in Nat \ {0} /\ n \in Nat  BY <1>2
    <3>2. q \in Nat /\ q <= t
      <4> HIDE DEF a
      <4> QED BY <3>1, DivMod, DivAtMost
    <3>3. q % n \in 0 .. n - 1 /\ q % n <= q
      <4> HIDE DEF q, n
      <4> QED BY <3>1, <3>2, DivMod, ModAtMost
    <3>4. q % n \in 0 .. MaxI32 /\ q % n < n
      <4> HIDE DEF q, n
      <4> QED BY <1>2, <3>1, <3>2, <3>3
    <3> QED BY <3>4 DEF Digit
  <2>2. [i \in 1 .. N |-> Digit(p, counts, t, i)] \in [1 .. N -> 0 .. MaxI32]  BY <2>1
  <2> QED BY <1>1, <1>2, <2>1, <2>2 DEF Tiles, Digits
<1>4. ASSUME NEW c \in Tiles(counts)
      PROVE  \E t \in 0 .. p[N] - 1 : c = Delinearize(r, counts, t)
  <2>1. c \in [1 .. N -> 0 .. MaxI32] /\ \A i \in 1 .. N : c[i] < counts[i]
    BY <1>2 DEF Tiles
  <2>2. \A i \in 1 .. N : c[i] \in 0 .. counts[i] - 1  BY <1>2, <2>1
  <2>3. PICK t \in 0 .. p[N] - 1 : \A i \in 1 .. N : Digit(p, counts, t, i) = c[i]
    BY <2>2, DigitsReachable
  <2>4. c = [i \in 1 .. N |-> Digit(p, counts, t, i)]  BY <2>1, <2>3
  <2> QED BY <1>1, <2>3, <2>4 DEF Digits
<1> QED BY <1>3, <1>4

\* The indices below the product of the counts run through all tiles.
LEMMA IndicesCoverTiles ==
  ASSUME NEW r, NEW counts \in Seq(Nat), Product(counts) \in 0 .. MaxI32
  PROVE  {Delinearize(r, counts, t) : t \in 0 .. Product(counts) - 1} = Tiles(counts)
<1> DEFINE N == Len(counts)
<1>1. N \in Nat /\ DOMAIN counts = 1 .. N /\ \A i \in 1 .. N : counts[i] \in Nat
      /\ MaxI32 \in Nat
  BY WidthAssumption
<1>2. CASE Product(counts) = 0
  <2>1. PICK k \in 1 .. N : counts[k] = 0
    <3>1. PICK p \in [0 .. N -> Nat] :
            (\A k \in 1 .. N : counts[k] # 0) => \A k \in 0 .. N : p[k] \in 1 .. Product(counts)
      BY ProductOfNats
    <3>2. 0 \in 0 .. N /\ \A x : x \notin 1 .. 0  BY <1>1
    <3> QED BY <1>2, <3>1, <3>2
  <2>2. Tiles(counts) = {}
    <3> SUFFICES ASSUME NEW c \in Tiles(counts) PROVE FALSE
      OBVIOUS
    <3>1. c[k] \in 0 .. MaxI32 /\ c[k] < counts[k]  BY <1>1, <2>1 DEF Tiles
    <3> QED BY <1>1, <2>1, <3>1
  <2>3. 0 .. Product(counts) - 1 = {}  BY <1>2
  <2> QED BY <2>2, <2>3
<1>3. CASE Product(counts) # 0
  <2>1. PICK p : /\ LeadingProducts(p, counts, N)
                 /\ p[N] = Product(counts)
                 /\ Product(counts) \in Nat
    BY <1>3, CountsHaveProducts
  <2>2. N \in Nat /\ p[N] <= MaxI32  BY <1>1, <2>1
  <2>3. {Delinearize(r, counts, t) : t \in 0 .. p[N] - 1} = Tiles(counts)
    <3> HIDE DEF N
    <3> QED BY <2>1, <2>2, DigitsCoverTiles
  <2> QED BY <2>1, <2>3
<1> QED BY <1>2, <1>3

\* The block indices of a kernel stand for its tiles, for every runtime shape.
THEOREM IndicesAlwaysAreTiles == Spec => []IndicesAreTiles
<1>1. GridInv => IndicesAreTiles
  <2> SUFFICES ASSUME GridInv, phase = "compiled", NEW shape \in RuntimeShapes(request),
                      Product(KernelCounts(request, shape)) <= MaxI32
               PROVE  {Delinearize(request, KernelCounts(request, shape), t) :
                         t \in 0 .. Product(KernelCounts(request, shape)) - 1}
                        = Tiles(KernelCounts(request, shape))
    BY Zenon DEF IndicesAreTiles
  <2>1. request \in Requests /\ (request.persistent => ~PersistenceRejected(request))
    BY DEF GridInv, CompiledInv
  <2>2. KernelCounts(request, shape) \in Seq(Nat)  BY <2>1, KernelCountsType
  <2>3. Product(KernelCounts(request, shape)) \in Nat  BY <2>1, KernelShape
  <2>4. Product(KernelCounts(request, shape)) \in 0 .. MaxI32  BY <2>3, WidthAssumption
  <2> QED BY <2>2, <2>4, IndicesCoverTiles
<1> QED BY <1>1, GridInvariant, PTL
=============================================================================
