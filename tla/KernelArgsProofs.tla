--------------------------- MODULE KernelArgsProofs ---------------------------
(***************************************************************************)
(* For every signature and every list of arguments: ArgumentPacker stays   *)
(* within its slots, packNativeHostArgs writes what the generated entry    *)
(* reads, and the kernel addresses what a launch accepts as the caller's   *)
(* views say, up to the strides that it multiplies beyond 32 bits.         *)
(***************************************************************************)
EXTENDS KernelArgs, DataLemmas, TLAPS

\* What a slot may hold.
Values == Int \cup {Undefined} \cup {<<tag, i>> : tag \in {"bits", "address"}, i \in Nat}

\* Integers, the undefined value and the tokens of arguments are values.
LEMMA ValuesHold ==
  /\ Int \subseteq Values /\ Undefined \in Values
  /\ \A i \in Nat : <<"bits", i>> \in Values /\ <<"address", i>> \in Values
BY DEF Values

IsSignature(sig) == Len(sig) \in Nat /\ DOMAIN sig = 1 .. Len(sig) /\ \A i \in DOMAIN sig : IsDesc(sig[i])
AreOperands(ops) == Len(ops) \in Nat /\ DOMAIN ops = 1 .. Len(ops) /\ \A i \in DOMAIN ops : IsOperand(ops[i])

-----------------------------------------------------------------------------
(* The formals of one argument.                                            *)

\* The dynamic strides a descriptor has formals for.
FormalStrides(desc) == IF desc.explicit THEN DynamicDims(desc.strides) ELSE <<>>

\* A descriptor has a formal for its pointer, for each dynamic size and for each
\* dynamic stride, and these stand for dimensions of it.
LEMMA FormalsOfDesc ==
  ASSUME NEW desc, IsDesc(desc)
  PROVE  /\ Rank(desc) \in Nat /\ DOMAIN desc.shape = 1 .. Rank(desc)
         /\ \A d \in 1 .. Rank(desc) : desc.shape[d] \in Nat \cup {Dynamic}
         /\ Len(DynamicDims(desc.shape)) \in Nat
         /\ DOMAIN DynamicDims(desc.shape) = 1 .. Len(DynamicDims(desc.shape))
         /\ \A k \in 1 .. Len(DynamicDims(desc.shape)) : DynamicDims(desc.shape)[k] \in 1 .. Rank(desc)
         /\ Len(FormalStrides(desc)) \in Nat
         /\ DOMAIN FormalStrides(desc) = 1 .. Len(FormalStrides(desc))
         /\ \A k \in 1 .. Len(FormalStrides(desc)) : FormalStrides(desc)[k] \in 1 .. Rank(desc)
         /\ TotalArgs(desc) = 1 + Len(DynamicDims(desc.shape)) + Len(FormalStrides(desc))
         /\ TotalArgs(desc) \in Nat \ {0}
         /\ IsScalar(desc) => TotalArgs(desc) = 1 /\ Rank(desc) = 0
<1> DEFINE E == Nat \cup {Dynamic}
<1>1. desc.shape \in Seq(E) /\ desc.strides \in Seq(E) /\ desc.explicit \in BOOLEAN
      /\ (desc.explicit => Len(desc.strides) = Len(desc.shape))
      /\ (IsScalar(desc) => desc.shape = <<>> /\ ~desc.explicit)
  BY DEF IsDesc, IsScalar
<1> HIDE DEF E
<1>2. Len(desc.shape) \in Nat /\ DOMAIN desc.shape = 1 .. Len(desc.shape)
      /\ \A d \in 1 .. Len(desc.shape) : desc.shape[d] \in E
  BY <1>1, LenProperties
<1>3. /\ Len(DynamicDims(desc.shape)) \in Nat
      /\ DOMAIN DynamicDims(desc.shape) = 1 .. Len(DynamicDims(desc.shape))
      /\ \A k \in 1 .. Len(DynamicDims(desc.shape)) : DynamicDims(desc.shape)[k] \in 1 .. Len(desc.shape)
      /\ ((\A d \in 1 .. Len(desc.shape) : desc.shape[d] # Dynamic) => Len(DynamicDims(desc.shape)) = 0)
  BY <1>1, DynamicDimsOf
<1>4. /\ Len(DynamicDims(desc.strides)) \in Nat
      /\ DOMAIN DynamicDims(desc.strides) = 1 .. Len(DynamicDims(desc.strides))
      /\ \A k \in 1 .. Len(DynamicDims(desc.strides)) : DynamicDims(desc.strides)[k] \in 1 .. Len(desc.strides)
  BY <1>1, DynamicDimsOf
<1>5. Len(<<>>) = 0 /\ DOMAIN <<>> = 1 .. 0
  <2>1. <<>> \in Seq({})  BY EmptySeq
  <2> QED BY <2>1, EmptySeq, LenProperties
<1>6. /\ Len(FormalStrides(desc)) \in Nat
      /\ DOMAIN FormalStrides(desc) = 1 .. Len(FormalStrides(desc))
      /\ \A k \in 1 .. Len(FormalStrides(desc)) : FormalStrides(desc)[k] \in 1 .. Rank(desc)
  <2>1. CASE desc.explicit  BY <1>1, <1>4, <2>1 DEF FormalStrides, Rank
  <2>2. CASE ~desc.explicit  BY <1>5, <2>2 DEF FormalStrides
  <2> QED BY <2>1, <2>2
<1>7. TotalArgs(desc) = 1 + Len(DynamicDims(desc.shape)) + Len(FormalStrides(desc))
  BY <1>1, <1>5 DEF TotalArgs, FormalStrides
<1>8. TotalArgs(desc) \in Nat \ {0}  BY <1>3, <1>6, <1>7
<1>9. IsScalar(desc) => TotalArgs(desc) = 1 /\ Rank(desc) = 0
  <2> SUFFICES ASSUME IsScalar(desc) PROVE TotalArgs(desc) = 1 /\ Rank(desc) = 0
    OBVIOUS
  <2>1. Len(desc.shape) = 0  BY <1>1, <1>5
  <2>2. Len(DynamicDims(desc.shape)) = 0  BY <1>3, <2>1
  <2>3. Len(FormalStrides(desc)) = 0  BY <1>1, <1>5 DEF FormalStrides
  <2> QED BY <1>7, <2>1, <2>2, <2>3 DEF Rank
<1> QED BY <1>2, <1>3, <1>6, <1>7, <1>8, <1>9 DEF Rank, E

\* The slots ArgumentPacker writes of one operand: at most its formals, and all of
\* them of an operand that has the sizes and strides the signature needs.
PackedPart(desc, i, a, q) ==
  /\ q \in Seq(Values)
  /\ Len(q) \in 1 .. TotalArgs(desc)
  /\ q[1] = <<IF IsScalar(desc) THEN "bits" ELSE "address", i>>
  /\ \/ IsScalar(desc)
     \/ /\ HasShape(a) \/ Len(DynamicDims(desc.shape)) = 0
        /\ a.kind = "tensor" \/ Len(FormalStrides(desc)) = 0
     => /\ Len(q) = TotalArgs(desc)
        /\ \A k \in 1 .. Len(DynamicDims(desc.shape)) :
             q[1 + k] = ShapeAt(a, DynamicDims(desc.shape)[k])
        /\ \A k \in 1 .. Len(FormalStrides(desc)) :
             q[1 + Len(DynamicDims(desc.shape)) + k] = StrideAt(a, FormalStrides(desc)[k])

\* What ArgumentPacker writes for one operand, matching its descriptor or not.
LEMMA SlotsOfOperand ==
  ASSUME NEW desc, IsDesc(desc), NEW i \in Nat, NEW a, IsOperand(a)
  PROVE  PackedPart(desc, i, a, OperandSlots(desc, i, a))
<1> DEFINE sizes == IF HasShape(a) THEN DynamicDims(desc.shape) ELSE <<>>
           strides == IF desc.explicit /\ a.kind = "tensor" THEN DynamicDims(desc.strides) ELSE <<>>
           s == [k \in DOMAIN sizes |-> ShapeAt(a, sizes[k])]
           t == [k \in DOMAIN strides |-> StrideAt(a, strides[k])]
           all == OperandSlots(desc, i, a)
           shapeDims == DynamicDims(desc.shape)
           strideDims == FormalStrides(desc)
<1>1. /\ Len(shapeDims) \in Nat /\ DOMAIN shapeDims = 1 .. Len(shapeDims)
      /\ Len(strideDims) \in Nat /\ DOMAIN strideDims = 1 .. Len(strideDims)
      /\ TotalArgs(desc) = 1 + Len(shapeDims) + Len(strideDims)
      /\ IsScalar(desc) => TotalArgs(desc) = 1
  BY FormalsOfDesc
<1>2. /\ \A d : ShapeAt(a, d) \in Values
      /\ \A d : StrideAt(a, d) \in Values
  <2>1. \A d \in DOMAIN a.shape : a.shape[d] \in Int
    BY LenProperties, ElementOfSeq DEF IsOperand
  <2>2. \A d \in DOMAIN a.strides : a.strides[d] \in Int
    BY LenProperties, ElementOfSeq DEF IsOperand
  <2> QED BY <2>1, <2>2, ValuesHold DEF ShapeAt, StrideAt
<1>3. CASE IsScalar(desc)
  <2>1. all = << <<"bits", i>> >>  BY <1>3 DEF OperandSlots
  <2>2. <<"bits", i>> \in Values  BY ValuesHold
  <2>3. all \in Seq(Values) /\ Len(all) = 1 /\ all[1] = <<"bits", i>>  BY <2>1, <2>2
  <2>4. Len(shapeDims) = 0 /\ Len(strideDims) = 0  BY <1>1, <1>3
  <2> HIDE DEF all, shapeDims, strideDims
  <2>5. 1 .. Len(shapeDims) = {} /\ 1 .. Len(strideDims) = {}  BY <2>4
  <2>6. Len(all) \in 1 .. TotalArgs(desc) /\ Len(all) = TotalArgs(desc)  BY <1>1, <1>3, <2>3
  <2> QED BY <1>3, <2>3, <2>5, <2>6 DEF PackedPart, all, shapeDims, strideDims
<1>4. CASE ~IsScalar(desc)
  <2>1. all = << <<"address", i>> >> \o s \o t  BY <1>4 DEF OperandSlots
  <2>2. <<"address", i>> \in Values  BY ValuesHold
  <2>3. Len(<<>>) = 0 /\ DOMAIN <<>> = 1 .. 0
    <3>1. <<>> \in Seq({})  BY EmptySeq
    <3> QED BY <3>1, EmptySeq, LenProperties
  <2>4. /\ Len(sizes) \in Nat /\ DOMAIN sizes = 1 .. Len(sizes) /\ Len(sizes) <= Len(shapeDims)
        /\ (HasShape(a) \/ Len(shapeDims) = 0 => Len(sizes) = Len(shapeDims))
        /\ (HasShape(a) => sizes = shapeDims)
    BY <1>1, <2>3
  <2>5. /\ Len(strides) \in Nat /\ DOMAIN strides = 1 .. Len(strides) /\ Len(strides) <= Len(strideDims)
        /\ (a.kind = "tensor" \/ Len(strideDims) = 0 => Len(strides) = Len(strideDims))
        /\ (a.kind = "tensor" => strides = strideDims)
    BY <1>1, <2>3 DEF FormalStrides
  <2>6. s \in Seq(Values) /\ Len(s) = Len(sizes)
        /\ \A k \in 1 .. Len(sizes) : s[k] = ShapeAt(a, sizes[k])
    <3>1. s \in [1 .. Len(sizes) -> Values]
      <4> HIDE DEF sizes
      <4> QED BY <1>2, <2>4
    <3>2. \A k \in 1 .. Len(sizes) : s[k] = ShapeAt(a, sizes[k])
      <4> HIDE DEF sizes
      <4> QED BY <2>4
    <3> HIDE DEF s, sizes
    <3> QED BY <2>4, <3>1, <3>2, FunctionIsSeq
  <2>7. t \in Seq(Values) /\ Len(t) = Len(strides)
        /\ \A k \in 1 .. Len(strides) : t[k] = StrideAt(a, strides[k])
    <3>1. t \in [1 .. Len(strides) -> Values]
      <4> HIDE DEF strides
      <4> QED BY <1>2, <2>5
    <3>2. \A k \in 1 .. Len(strides) : t[k] = StrideAt(a, strides[k])
      <4> HIDE DEF strides
      <4> QED BY <2>5
    <3> HIDE DEF t, strides
    <3> QED BY <2>5, <3>1, <3>2, FunctionIsSeq
  <2> HIDE DEF s, t, sizes, strides, all
  <2>8. /\ all \in Seq(Values) /\ Len(all) = 1 + Len(s) + Len(t) /\ all[1] = <<"address", i>>
        /\ \A k \in 1 .. Len(s) : all[1 + k] = s[k]
        /\ \A k \in 1 .. Len(t) : all[1 + Len(s) + k] = t[k]
    <3>1. PICK b : b = <<"address", i>>  OBVIOUS
    <3>2. b \in Values /\ all = <<b>> \o s \o t  BY <2>1, <2>2, <3>1
    <3>3. s \in Seq(Values) /\ t \in Seq(Values)  BY <2>6, <2>7
    <3>4. HasParts(Values, all, b, s, t)  BY <3>2, <3>3, ThreeParts
    <3> QED BY <3>1, <3>4 DEF HasParts
  <2> HIDE DEF shapeDims, strideDims
  <2>9. Len(all) \in 1 .. TotalArgs(desc)
    <3>1. PICK x \in Nat, y \in Nat : x = Len(s) /\ y = Len(t)  BY <2>4, <2>5, <2>6, <2>7
    <3>2. x <= Len(shapeDims) /\ y <= Len(strideDims) /\ Len(all) = 1 + x + y
      BY <2>4, <2>5, <2>6, <2>7, <2>8, <3>1
    <3> QED BY <1>1, <3>2
  <2>10. ASSUME HasShape(a) \/ Len(shapeDims) = 0, a.kind = "tensor" \/ Len(strideDims) = 0
         PROVE  /\ Len(all) = TotalArgs(desc)
                /\ \A k \in 1 .. Len(shapeDims) : all[1 + k] = ShapeAt(a, shapeDims[k])
                /\ \A k \in 1 .. Len(strideDims) :
                     all[1 + Len(shapeDims) + k] = StrideAt(a, strideDims[k])
    <3>1. Len(s) = Len(shapeDims) /\ Len(t) = Len(strideDims)  BY <2>4, <2>5, <2>6, <2>7, <2>10
    <3>2. ASSUME NEW k \in 1 .. Len(shapeDims) PROVE all[1 + k] = ShapeAt(a, shapeDims[k])
      <4>1. HasShape(a)  BY <1>1, <2>10
      <4>2. s[k] = ShapeAt(a, shapeDims[k])  BY <2>4, <2>6, <4>1
      <4> QED BY <2>8, <3>1, <4>2
    <3>3. ASSUME NEW k \in 1 .. Len(strideDims)
          PROVE  all[1 + Len(shapeDims) + k] = StrideAt(a, strideDims[k])
      <4>1. a.kind = "tensor"  BY <1>1, <2>10
      <4>2. t[k] = StrideAt(a, strideDims[k])  BY <2>5, <2>7, <4>1
      <4> QED BY <2>8, <3>1, <4>2
    <3>4. Len(all) = TotalArgs(desc)  BY <1>1, <2>8, <3>1
    <3> QED BY <3>2, <3>3, <3>4
  <2> QED BY <1>4, <2>8, <2>9, <2>10 DEF PackedPart, all, shapeDims, strideDims
<1> QED BY <1>3, <1>4

\* Row-major strides are integers.
LEMMA ContiguousIsInt ==
  ASSUME NEW shape \in Seq(Int), NEW d \in 1 .. Len(shape)
  PROVE  Contiguous(shape, d) \in Int
<1>1. PICK N \in Nat : N = Len(shape) /\ DOMAIN shape = 1 .. N  BY LenProperties
<1>2. \A k \in d + 1 .. N : shape[k] \in Int
  <2>1. \A k \in 1 .. N : shape[k] \in Int  BY <1>1, ElementOfSeq
  <2>2. \A k \in d + 1 .. N : k \in 1 .. N  BY <1>1
  <2> QED BY <2>1, <2>2
<1>3. PICK m \in Int : m = d + 1  BY <1>1
<1>4. PICK q : q = SubSeq(shape, m, N)  OBVIOUS
<1>5. q \in Seq(Int)  BY <1>1, <1>2, <1>3, <1>4, SubSeqProperties
<1>6. Product(q) \in Int
  <2>1. PICK p \in [0 .. Len(q) -> Int] : p[Len(q)] = Product(q)  BY <1>5, ProductPrefixes
  <2>2. Len(q) \in 0 .. Len(q)  BY <1>5, LenProperties
  <2> QED BY <2>1, <2>2
<1> QED BY <1>1, <1>3, <1>4, <1>6 DEF Contiguous

\* The sizes and strides the native path works with, of an argument it accepts.
LEMMA NativeLayout ==
  ASSUME NEW desc, IsDesc(desc), ~IsScalar(desc), NEW a, IsOperand(a), NativeAccepts(desc, a)
  PROVE  /\ NativeShape(desc, a) \in Seq(Int) /\ Len(NativeShape(desc, a)) = Rank(desc)
         /\ \A d \in 1 .. Rank(desc) : NativeShape(desc, a)[d] \in Nat
         /\ \A d \in 1 .. Rank(desc) : NativeStride(desc, a, d) \in Nat
<1> DEFINE N == Rank(desc)
           shape == NativeShape(desc, a)
<1>1. /\ N \in Nat /\ desc.shape \in Seq(Nat \cup {Dynamic}) /\ Len(desc.shape) = N
      /\ desc.strides \in Seq(Nat \cup {Dynamic}) /\ (desc.explicit => Len(desc.strides) = N)
  BY FormalsOfDesc DEF IsDesc, Rank
<1>2. /\ a.shape \in Seq(Int) /\ a.strides \in Seq(Int)
      /\ (a.hasStride => Len(a.strides) = Len(a.shape))
  BY DEF IsOperand
<1>3. /\ (a.kind = "tensor" => Len(a.shape) = N)
      /\ ShapeMatches(desc, a) /\ StrideMatches(desc, a)
  BY DEF NativeAccepts
<1> HIDE DEF N
<1>4. shape \in Seq(Int) /\ Len(shape) = N
  <2>1. CASE a.kind = "tensor"  BY <1>2, <1>3, <2>1 DEF NativeShape
  <2>2. CASE a.kind # "tensor"
    <3>1. desc.shape \in [1 .. N -> Nat \cup {Dynamic}]  BY <1>1, LenProperties
    <3>2. desc.shape \in [1 .. N -> Int]  BY <3>1 DEF Dynamic
    <3>3. desc.shape \in Seq(Int)  BY <1>1, <3>2, FunctionIsSeq
    <3> QED BY <1>1, <2>2, <3>3 DEF NativeShape
  <2> QED BY <2>1, <2>2
<1>5. ASSUME NEW d \in 1 .. N PROVE shape[d] \in Nat
  <2>1. shape[d] \in Int  BY <1>4, ElementOfSeq
  <2>2. shape[d] >= 0  BY <1>3 DEF ShapeMatches, N
  <2> QED BY <2>1, <2>2
<1>6. ASSUME NEW d \in 1 .. N PROVE NativeStride(desc, a, d) \in Nat
  <2>1. NativeStride(desc, a, d) \in Int
    <3>1. CASE a.kind = "tensor" /\ a.hasStride
      <4>1. a.strides[d] \in Int  BY <1>2, <1>3, <3>1, ElementOfSeq
      <4> QED BY <3>1, <4>1 DEF NativeStride
    <3>2. CASE a.kind = "pointer" /\ desc.explicit
      <4>1. desc.strides[d] \in Nat \cup {Dynamic}  BY <1>1, <3>2, ElementOfSeq
      <4> QED BY <3>2, <4>1 DEF NativeStride, Dynamic
    <3>3. CASE ~(a.kind = "tensor" /\ a.hasStride) /\ ~(a.kind = "pointer" /\ desc.explicit)
      <4>1. Contiguous(shape, d) \in Int  BY <1>4, ContiguousIsInt
      <4> QED BY <3>3, <4>1 DEF NativeStride
    <3> QED BY <3>1, <3>2, <3>3
  <2>2. NativeStride(desc, a, d) >= 0  BY <1>3 DEF StrideMatches, N
  <2> QED BY <2>1, <2>2
<1> QED BY <1>4, <1>5, <1>6 DEF N

\* The slots packNativeHostArgs writes of one argument it accepts.
LEMMA SlotsOfNative ==
  ASSUME NEW desc, IsDesc(desc), NEW i \in Nat, NEW a, IsOperand(a), NativeAccepts(desc, a)
  PROVE  /\ NativeSlots(desc, i, a) \in Seq(Values)
         /\ Len(NativeSlots(desc, i, a)) = EntrySlots(desc)
         /\ EntrySlots(desc) = 1 + 2 * Rank(desc)
         /\ NativeSlots(desc, i, a)[1] = <<IF IsScalar(desc) THEN "bits" ELSE "address", i>>
         /\ \A d \in 1 .. Rank(desc) :
              /\ NativeSlots(desc, i, a)[1 + d] = NativeShape(desc, a)[d]
              /\ NativeSlots(desc, i, a)[1 + Rank(desc) + d] = NativeStride(desc, a, d)
<1> DEFINE N == Rank(desc)
           all == NativeSlots(desc, i, a)
           s == NativeShape(desc, a)
           t == [d \in 1 .. Rank(desc) |-> NativeStride(desc, a, d)]
<1>1. N \in Nat /\ (IsScalar(desc) => N = 0)  BY FormalsOfDesc
<1>2. CASE IsScalar(desc)
  <2>1. all = << <<"bits", i>> >>  BY <1>2 DEF NativeSlots
  <2>2. <<"bits", i>> \in Values  BY ValuesHold
  <2>3. all \in Seq(Values) /\ Len(all) = 1 /\ all[1] = <<"bits", i>>  BY <2>1, <2>2
  <2>4. EntrySlots(desc) = 1  BY <1>2 DEF EntrySlots
  <2> HIDE DEF all, N
  <2>5. 1 .. N = {} /\ 1 + 2 * N = 1  BY <1>1, <1>2
  <2> QED BY <1>2, <2>3, <2>4, <2>5 DEF all, N
<1>3. CASE ~IsScalar(desc)
  <2>1. /\ s \in Seq(Int) /\ Len(s) = N
        /\ \A d \in 1 .. N : NativeStride(desc, a, d) \in Nat
    BY <1>3, NativeLayout
  <2>2. s \in Seq(Values)
    <3> HIDE DEF N, s
    <3>1. s \in [1 .. N -> Int]  BY <2>1, LenProperties
    <3>2. s \in [1 .. N -> Values]  BY <3>1, ValuesHold
    <3> QED BY <1>1, <3>2, FunctionIsSeq
  <2>3. t \in Seq(Values) /\ Len(t) = N /\ \A d \in 1 .. N : t[d] = NativeStride(desc, a, d)
    <3>1. t \in [1 .. N -> Values]  BY <2>1, ValuesHold
    <3>2. \A d \in 1 .. N : t[d] = NativeStride(desc, a, d)  OBVIOUS
    <3> HIDE DEF t, N
    <3> QED BY <1>1, <3>1, <3>2, FunctionIsSeq
  <2>4. PICK b : b = <<"address", i>>  OBVIOUS
  <2>5. b \in Values /\ all = <<b>> \o s \o t  BY <1>3, <2>4, ValuesHold DEF NativeSlots
  <2>6. EntrySlots(desc) = 1 + 2 * N  BY <1>3 DEF EntrySlots
  <2> HIDE DEF all, s, t, N
  <2>7. /\ all \in Seq(Values) /\ Len(all) = 1 + Len(s) + Len(t) /\ all[1] = b
        /\ \A k \in 1 .. Len(s) : all[1 + k] = s[k]
        /\ \A k \in 1 .. Len(t) : all[1 + Len(s) + k] = t[k]
    <3>1. s \in Seq(Values) /\ t \in Seq(Values)  BY <2>2, <2>3
    <3>2. HasParts(Values, all, b, s, t)  BY <2>5, <3>1, ThreeParts
    <3> QED BY <3>2 DEF HasParts
  <2>8. Len(all) = 1 + 2 * N  BY <1>1, <2>1, <2>3, <2>7
  <2>9. all[1] = <<IF IsScalar(desc) THEN "bits" ELSE "address", i>>  BY <1>3, <2>4, <2>7
  <2>10. \A d \in 1 .. N : all[1 + d] = s[d] /\ all[1 + N + d] = NativeStride(desc, a, d)
    BY <2>1, <2>3, <2>7
  <2> QED BY <2>6, <2>7, <2>8, <2>9, <2>10 DEF all, s, N
<1> QED BY <1>2, <1>3

-----------------------------------------------------------------------------
(* Where the parts of an argument are.                                     *)

\* A part per argument, as long as the signature says, is found at the offset of
\* the argument's formals.
AtFormals(sig, ss) ==
  /\ FlattenSeq(ss) \in Seq(Values)
  /\ Len(FlattenSeq(ss)) = NumKernelArgs(sig)
  /\ \A i \in 1 .. Len(sig) :
       /\ FormalOffset(sig, i) \in Int
       /\ \A j \in 1 .. TotalArgs(sig[i]) :
            /\ FormalOffset(sig, i) + j \in 1 .. NumKernelArgs(sig)
            /\ FlattenSeq(ss)[FormalOffset(sig, i) + j] = ss[i][j]

\* Parameters put together argument by argument start at the offsets of getArgOffset.
LEMMA PartsAtFormals ==
  ASSUME NEW sig, IsSignature(sig), NEW ss \in [1 .. Len(sig) -> Seq(Values)],
         \A i \in 1 .. Len(sig) : Len(ss[i]) = TotalArgs(sig[i])
  PROVE  AtFormals(sig, ss)
<1>1. PICK N \in Nat : N = Len(sig) /\ DOMAIN sig = 1 .. N  BY DEF IsSignature
<1>2. \A i \in 1 .. N : TotalArgs(sig[i]) \in Nat  BY <1>1, FormalsOfDesc DEF IsSignature
<1>3. PICK n : n = [i \in DOMAIN sig |-> TotalArgs(sig[i])]  OBVIOUS
<1>4. n \in [1 .. N -> Int] /\ \A i \in 1 .. N : n[i] = TotalArgs(sig[i])  BY <1>1, <1>2, <1>3
<1>5. NumKernelArgs(sig) = SumOf(n)  BY <1>3 DEF NumKernelArgs
<1>6. ASSUME NEW i \in 1 .. N PROVE FormalOffset(sig, i) = LeadingSum(n, i - 1)
  <2>1. \A j \in 1 .. i - 1 : j \in 1 .. N  BY <1>1
  <2>2. [j \in 1 .. i - 1 |-> TotalArgs(sig[j])] = [j \in 1 .. i - 1 |-> n[j]]  BY <1>4, <2>1
  <2> QED BY <2>2 DEF FormalOffset, LeadingSum
<1>7. \A i \in 1 .. N : i - 1 \in 0 .. N  BY <1>1
<1>8. ss \in [1 .. N -> Seq(Values)] /\ \A i \in 1 .. N : n[i] = Len(ss[i])  BY <1>1, <1>4
<1>9. FlatParts(Values, N, ss, n)  BY <1>4, <1>8, FlattenAt, Zenon
<1>12. \A i \in 1 .. N : LeadingSum(n, i - 1) \in Int  BY <1>1, <1>4, <1>7, LeadingSums
<1> QED BY <1>1, <1>4, <1>5, <1>6, <1>9, <1>12 DEF FlatParts, AtFormals

\* A signature has a number of formals.
LEMMA NumKernelArgsIsNat ==
  ASSUME NEW sig, IsSignature(sig)
  PROVE  NumKernelArgs(sig) \in Nat
<1> DEFINE part(i) == [j \in 1 .. TotalArgs(sig[i]) |-> 0]
           ss == [i \in 1 .. Len(sig) |-> part(i)]
<1>1. ASSUME NEW i \in 1 .. Len(sig) PROVE part(i) \in Seq(Values) /\ Len(part(i)) = TotalArgs(sig[i])
  <2>1. TotalArgs(sig[i]) \in Nat  BY FormalsOfDesc DEF IsSignature
  <2>2. part(i) \in [1 .. TotalArgs(sig[i]) -> Values]  BY ValuesHold
  <2> HIDE DEF part
  <2> QED BY <2>1, <2>2, FunctionIsSeq
<1>2. \A i \in 1 .. Len(sig) : ss[i] = part(i)  OBVIOUS
<1>4. ss \in [1 .. Len(sig) -> Seq(Values)]
  <2> HIDE DEF part
  <2> QED BY <1>1
<1> HIDE DEF ss, part
<1>3. AtFormals(sig, ss)  BY <1>1, <1>2, <1>4, PartsAtFormals
<1> QED BY <1>3, LenProperties DEF AtFormals

\* A part per argument, as long as the entry's types say, is found at the offset
\* the entry reads it from.
AtEntry(sig, ss) ==
  /\ FlattenSeq(ss) \in Seq(Values)
  /\ Len(FlattenSeq(ss)) = SumOf([i \in DOMAIN sig |-> EntrySlots(sig[i])])
  /\ \A i \in 1 .. Len(sig) :
       /\ EntryOffset(sig, i) \in Int
       /\ \A j \in 1 .. EntrySlots(sig[i]) :
            /\ EntryOffset(sig, i) + j \in 1 .. Len(FlattenSeq(ss))
            /\ FlattenSeq(ss)[EntryOffset(sig, i) + j] = ss[i][j]

\* Slots packed argument by argument are where the generated entry reads them.
LEMMA PartsAtEntry ==
  ASSUME NEW sig, IsSignature(sig), NEW ss \in [1 .. Len(sig) -> Seq(Values)],
         \A i \in 1 .. Len(sig) : Len(ss[i]) = EntrySlots(sig[i])
  PROVE  AtEntry(sig, ss)
<1>1. PICK N \in Nat : N = Len(sig) /\ DOMAIN sig = 1 .. N  BY DEF IsSignature
<1>2. \A i \in 1 .. N : EntrySlots(sig[i]) \in Nat
  BY <1>1, FormalsOfDesc DEF IsSignature, EntrySlots
<1>3. PICK n : n = [i \in DOMAIN sig |-> EntrySlots(sig[i])]  OBVIOUS
<1>4. n \in [1 .. N -> Int] /\ \A i \in 1 .. N : n[i] = EntrySlots(sig[i])  BY <1>1, <1>2, <1>3
<1>6. ASSUME NEW i \in 1 .. N PROVE EntryOffset(sig, i) = LeadingSum(n, i - 1)
  <2>1. \A j \in 1 .. i - 1 : j \in 1 .. N  BY <1>1
  <2>2. [j \in 1 .. i - 1 |-> EntrySlots(sig[j])] = [j \in 1 .. i - 1 |-> n[j]]  BY <1>4, <2>1
  <2> QED BY <2>2 DEF EntryOffset, LeadingSum
<1>7. \A i \in 1 .. N : i - 1 \in 0 .. N  BY <1>1
<1>8. ss \in [1 .. N -> Seq(Values)] /\ \A i \in 1 .. N : n[i] = Len(ss[i])  BY <1>1, <1>4
<1>9. FlatParts(Values, N, ss, n)  BY <1>4, <1>8, FlattenAt, Zenon
<1>12. \A i \in 1 .. N : LeadingSum(n, i - 1) \in Int  BY <1>1, <1>4, <1>7, LeadingSums
<1>13. Len(FlattenSeq(ss)) = SumOf(n) /\ FlattenSeq(ss) \in Seq(Values)  BY <1>9 DEF FlatParts
<1>14. ASSUME NEW i \in 1 .. N, NEW j \in 1 .. EntrySlots(sig[i])
       PROVE  /\ EntryOffset(sig, i) + j \in 1 .. Len(FlattenSeq(ss))
              /\ FlattenSeq(ss)[EntryOffset(sig, i) + j] = ss[i][j]
  <2>1. j \in 1 .. n[i] /\ EntryOffset(sig, i) = LeadingSum(n, i - 1)  BY <1>4, <1>6
  <2> QED BY <1>9, <2>1, Zenon DEF FlatParts
<1>15. \A i \in 1 .. N : EntryOffset(sig, i) \in Int  BY <1>6, <1>12
<1> QED BY <1>1, <1>3, <1>13, <1>14, <1>15, Zenon DEF AtEntry

-----------------------------------------------------------------------------
(* The native path: from the packed slots to the kernel's parameters.      *)

\* A memref descriptor that has the layout packNativeHostArgs worked with.
ViewHolds(desc, i, a, view) ==
  /\ view.base = <<IF IsScalar(desc) THEN "bits" ELSE "address", i>>
  /\ \A d \in 1 .. Rank(desc) :
       /\ view.sizes[d] = NativeShape(desc, a)[d]
       /\ view.strides[d] = NativeStride(desc, a, d)

\* The generated entry reads from its slots the layout packNativeHostArgs has
\* checked.
LEMMA EntryReads ==
  ASSUME NEW sig, IsSignature(sig), NEW ops, AreOperands(ops), ~PackNativeHostArgsFails(sig, ops)
  PROVE  /\ Len(PackNativeHostArgs(sig, ops)) = SumOf([i \in DOMAIN sig |-> EntrySlots(sig[i])])
         /\ \A i \in 1 .. Len(sig) :
              ViewHolds(sig[i], i, ops[i], Unpack(sig, PackNativeHostArgs(sig, ops))[i])
<1>1. PICK N \in Nat : N = Len(sig) /\ DOMAIN sig = 1 .. N  BY DEF IsSignature
<1>2. DOMAIN ops = 1 .. N /\ \A i \in 1 .. N : NativeAccepts(sig[i], ops[i])
  BY <1>1 DEF PackNativeHostArgsFails, AreOperands
<1>3. \A i \in 1 .. N : i \in Nat /\ IsDesc(sig[i]) /\ IsOperand(ops[i])
  BY <1>1, <1>2 DEF IsSignature, AreOperands
<1>4. PICK ss : ss = [i \in DOMAIN sig |-> NativeSlots(sig[i], i, ops[i])]  OBVIOUS
<1>5. DOMAIN ss = 1 .. N /\ \A i \in 1 .. N : ss[i] = NativeSlots(sig[i], i, ops[i])  BY <1>1, <1>4
<1>6. ASSUME NEW i \in 1 .. N
      PROVE  /\ ss[i] \in Seq(Values) /\ Len(ss[i]) = EntrySlots(sig[i])
             /\ EntrySlots(sig[i]) = 1 + 2 * Rank(sig[i])
             /\ ss[i][1] = <<IF IsScalar(sig[i]) THEN "bits" ELSE "address", i>>
             /\ \A d \in 1 .. Rank(sig[i]) :
                  /\ ss[i][1 + d] = NativeShape(sig[i], ops[i])[d]
                  /\ ss[i][1 + Rank(sig[i]) + d] = NativeStride(sig[i], ops[i], d)
  BY <1>2, <1>3, <1>5, SlotsOfNative
<1>7. ss \in [1 .. Len(sig) -> Seq(Values)]  BY <1>1, <1>4, <1>5, <1>6
<1>8. PICK flat : flat = FlattenSeq(ss)  OBVIOUS
<1>9. PackNativeHostArgs(sig, ops) = flat  BY <1>4, <1>8 DEF PackNativeHostArgs
<1>10. /\ flat \in Seq(Values)
       /\ Len(flat) = SumOf([i \in DOMAIN sig |-> EntrySlots(sig[i])])
       /\ \A i \in 1 .. N :
            /\ EntryOffset(sig, i) \in Int
            /\ \A j \in 1 .. EntrySlots(sig[i]) :
                 EntryOffset(sig, i) + j \in 1 .. Len(flat) /\ flat[EntryOffset(sig, i) + j] = ss[i][j]
  <2>1. AtEntry(sig, ss)  BY <1>1, <1>6, <1>7, PartsAtEntry
  <2> QED BY <1>1, <1>8, <2>1 DEF AtEntry
<1>11. DOMAIN flat = 1 .. Len(flat)  BY <1>10, LenProperties
<1>12. ASSUME NEW i \in 1 .. N
       PROVE  ViewHolds(sig[i], i, ops[i], Unpack(sig, flat)[i])
  <2>1. PICK R \in Nat : R = Rank(sig[i])  BY <1>3, FormalsOfDesc
  <2>2. PICK o \in Int : o = EntryOffset(sig, i)  BY <1>10
  <2>3. \A j \in 1 .. 1 + 2 * R : ReadSlot(flat, o + j) = ss[i][j]
    BY <1>6, <1>10, <1>11, <2>1, <2>2 DEF ReadSlot
  <2>4. Unpack(sig, flat)[i] =
          [base    |-> ReadSlot(flat, o + 1),
           sizes   |-> [d \in 1 .. R |-> ReadSlot(flat, o + 1 + d)],
           strides |-> [d \in 1 .. R |-> ReadSlot(flat, o + 1 + R + d)]]
    BY <1>1, <2>1, <2>2 DEF Unpack
  <2>5. ReadSlot(flat, o + 1) = ss[i][1]
    <3>1. 1 \in 1 .. 1 + 2 * R  BY <2>1
    <3> QED BY <2>3, <3>1
  <2>6. ASSUME NEW d \in 1 .. R
        PROVE  /\ ReadSlot(flat, o + 1 + d) = ss[i][1 + d]
               /\ ReadSlot(flat, o + 1 + R + d) = ss[i][1 + R + d]
    <3>1. /\ 1 + d \in 1 .. 1 + 2 * R /\ 1 + R + d \in 1 .. 1 + 2 * R
          /\ o + (1 + d) = o + 1 + d /\ o + (1 + R + d) = o + 1 + R + d
      BY <2>1, <2>2
    <3> QED BY <2>3, <3>1
  <2>7. PICK v : v = Unpack(sig, flat)[i]  OBVIOUS
  <2>8. v.base = <<IF IsScalar(sig[i]) THEN "bits" ELSE "address", i>>
    <3>1. v.base = ReadSlot(flat, o + 1)  BY <2>4, <2>7
    <3>2. ss[i][1] = <<IF IsScalar(sig[i]) THEN "bits" ELSE "address", i>>  BY <1>6
    <3> QED BY <2>5, <3>1, <3>2, Zenon
  <2>9. ASSUME NEW d \in 1 .. R
        PROVE  /\ v.sizes[d] = NativeShape(sig[i], ops[i])[d]
               /\ v.strides[d] = NativeStride(sig[i], ops[i], d)
    <3>1. v.sizes[d] = ReadSlot(flat, o + 1 + d) /\ v.strides[d] = ReadSlot(flat, o + 1 + R + d)
      BY <2>4, <2>7
    <3> QED BY <1>6, <2>1, <2>6, <3>1
  <2> QED BY <2>1, <2>7, <2>8, <2>9 DEF ViewHolds
<1> QED BY <1>1, <1>9, <1>10, <1>12

\* The formals KernelParamsBuilder emits of one unpacked argument.
ViewFormals(desc, view, all) ==
  /\ all \in Seq(Values)
  /\ Len(all) = TotalArgs(desc)
  /\ all[1] = view.base
  /\ DOMAIN NarrowedSizes(desc, view) = 1 .. Len(DynamicDims(desc.shape))
  /\ DOMAIN NarrowedStrides(desc, view) = 1 .. Len(FormalStrides(desc))
  /\ \A k \in 1 .. Len(DynamicDims(desc.shape)) :
       /\ all[1 + k] = NarrowedSizes(desc, view)[k]
       /\ NarrowedSizes(desc, view)[k] = view.sizes[DynamicDims(desc.shape)[k]]
  /\ \A k \in 1 .. Len(FormalStrides(desc)) :
       /\ all[1 + Len(DynamicDims(desc.shape)) + k] = NarrowedStrides(desc, view)[k]
       /\ NarrowedStrides(desc, view)[k] = view.strides[FormalStrides(desc)[k]]

\* What KernelParamsBuilder emits of a view of the rank of its descriptor.
LEMMA FormalsOfView ==
  ASSUME NEW desc, IsDesc(desc), NEW view, view.base \in Values,
         \A d \in 1 .. Rank(desc) : view.sizes[d] \in Values /\ view.strides[d] \in Values,
         NEW all, all = <<view.base>> \o NarrowedSizes(desc, view) \o NarrowedStrides(desc, view)
  PROVE  ViewFormals(desc, view, all)
<1>1. PICK s : s = NarrowedSizes(desc, view)  OBVIOUS
<1>2. PICK t : t = NarrowedStrides(desc, view)  OBVIOUS
<1>3. PICK sizes : sizes = DynamicDims(desc.shape)  OBVIOUS
<1>4. PICK strides : strides = FormalStrides(desc)  OBVIOUS
<1>5. /\ Len(sizes) \in Nat /\ DOMAIN sizes = 1 .. Len(sizes)
      /\ \A k \in 1 .. Len(sizes) : sizes[k] \in 1 .. Rank(desc)
      /\ Len(strides) \in Nat /\ DOMAIN strides = 1 .. Len(strides)
      /\ \A k \in 1 .. Len(strides) : strides[k] \in 1 .. Rank(desc)
      /\ TotalArgs(desc) = 1 + Len(sizes) + Len(strides)
  BY <1>3, <1>4, FormalsOfDesc
<1>6. s = [k \in DOMAIN sizes |-> view.sizes[sizes[k]]]  BY <1>1, <1>3 DEF NarrowedSizes
<1>7. t = [k \in DOMAIN strides |-> view.strides[strides[k]]]
  BY <1>2, <1>4 DEF NarrowedStrides, FormalStrides
<1>8. s \in [1 .. Len(sizes) -> Values]  BY <1>5, <1>6
<1>9. t \in [1 .. Len(strides) -> Values]  BY <1>5, <1>7
<1>10. s \in Seq(Values) /\ Len(s) = Len(sizes)  BY <1>5, <1>8, FunctionIsSeq
<1>11. t \in Seq(Values) /\ Len(t) = Len(strides)  BY <1>5, <1>9, FunctionIsSeq
<1>12. all = <<view.base>> \o s \o t  BY <1>1, <1>2
<1>13. /\ all \in Seq(Values) /\ Len(all) = 1 + Len(s) + Len(t) /\ all[1] = view.base
       /\ \A k \in 1 .. Len(s) : all[1 + k] = s[k]
       /\ \A k \in 1 .. Len(t) : all[1 + Len(s) + k] = t[k]
  <2>1. s \in Seq(Values) /\ t \in Seq(Values)  BY <1>10, <1>11
  <2>2. PICK b : b = view.base  OBVIOUS
  <2>3. b \in Values /\ all = <<b>> \o s \o t  BY <1>12, <2>2
  <2>4. HasParts(Values, all, b, s, t)  BY <2>1, <2>3, ThreeParts
  <2> QED BY <2>2, <2>4 DEF HasParts
<1>14. \A k \in 1 .. Len(sizes) : all[1 + k] = s[k] /\ s[k] = view.sizes[sizes[k]]
  BY <1>5, <1>6, <1>10, <1>13
<1>15. \A k \in 1 .. Len(strides) :
         all[1 + Len(sizes) + k] = t[k] /\ t[k] = view.strides[strides[k]]
  BY <1>5, <1>7, <1>10, <1>11, <1>13
<1>16. Len(all) = TotalArgs(desc)  BY <1>5, <1>10, <1>11, <1>13
<1>17. DOMAIN s = 1 .. Len(sizes) /\ DOMAIN t = 1 .. Len(strides)  BY <1>5, <1>6, <1>7
<1> QED BY <1>1, <1>2, <1>3, <1>4, <1>13, <1>14, <1>15, <1>16, <1>17 DEF ViewFormals

\* The formals of argument i, in the layout of an argument that is accepted: its
\* address, its dynamic sizes and its dynamic strides, all within 32 bits.
PartHolds(desc, i, a, q) ==
  /\ q \in Seq(Values)
  /\ Len(q) = TotalArgs(desc)
  /\ q[1] = <<IF IsScalar(desc) THEN "bits" ELSE "address", i>>
  /\ \A k \in 1 .. Len(DynamicDims(desc.shape)) :
       /\ q[1 + k] = NativeShape(desc, a)[DynamicDims(desc.shape)[k]]
       /\ q[1 + k] \in 0 .. MaxI32
  /\ \A k \in 1 .. Len(FormalStrides(desc)) :
       /\ q[1 + Len(DynamicDims(desc.shape)) + k] = NativeStride(desc, a, FormalStrides(desc)[k])
       /\ NativeStride(desc, a, FormalStrides(desc)[k]) \in 0 .. MaxI32

\* After validation, unpacking and narrowing the formals of an argument still hold
\* the sizes and strides that packNativeHostArgs found for it.
LEMMA NativePartHolds ==
  ASSUME NEW desc, IsDesc(desc), NEW j \in Nat, NEW a, IsOperand(a), NativeAccepts(desc, a),
         NEW view, ViewHolds(desc, j, a, view),
         \A k \in DOMAIN NarrowedSizes(desc, view) : NarrowedSizes(desc, view)[k] \in 0 .. MaxI32,
         \A k \in DOMAIN NarrowedStrides(desc, view) :
           NarrowedStrides(desc, view)[k] \in -(MaxI32 + 1) .. MaxI32,
         NEW q, q = <<view.base>> \o NarrowedSizes(desc, view) \o NarrowedStrides(desc, view)
  PROVE  PartHolds(desc, j, a, q)
<1>1. /\ view.base = <<IF IsScalar(desc) THEN "bits" ELSE "address", j>>
      /\ \A d \in 1 .. Rank(desc) :
           view.sizes[d] = NativeShape(desc, a)[d] /\ view.strides[d] = NativeStride(desc, a, d)
  BY DEF ViewHolds
<1>2. \A d \in 1 .. Rank(desc) : NativeShape(desc, a)[d] \in Nat /\ NativeStride(desc, a, d) \in Nat
  <2>1. CASE IsScalar(desc)
    <3>1. Rank(desc) = 0  BY <2>1, FormalsOfDesc
    <3> QED BY <3>1
  <2>2. CASE ~IsScalar(desc)  BY <2>2, NativeLayout
  <2> QED BY <2>1, <2>2
<1>3. view.base \in Values
  <2>1. <<"bits", j>> \in Values /\ <<"address", j>> \in Values  BY ValuesHold
  <2>2. CASE IsScalar(desc)  BY <1>1, <2>1, <2>2
  <2>3. CASE ~IsScalar(desc)  BY <1>1, <2>1, <2>3
  <2> QED BY <2>2, <2>3
<1>4. \A d \in 1 .. Rank(desc) : view.sizes[d] \in Values /\ view.strides[d] \in Values
  <2>1. \A x \in Nat : x \in Values  BY ValuesHold
  <2> QED BY <1>1, <1>2, <2>1
<1>5. ViewFormals(desc, view, q)  BY <1>3, <1>4, FormalsOfView
<1>6. PICK sizes : sizes = DynamicDims(desc.shape)  OBVIOUS
<1>7. PICK strides : strides = FormalStrides(desc)  OBVIOUS
<1>8. /\ q \in Seq(Values) /\ Len(q) = TotalArgs(desc) /\ q[1] = view.base
      /\ \A k \in 1 .. Len(sizes) : q[1 + k] = view.sizes[sizes[k]] /\ q[1 + k] \in 0 .. MaxI32
      /\ \A k \in 1 .. Len(strides) :
           /\ q[1 + Len(sizes) + k] = view.strides[strides[k]]
           /\ view.strides[strides[k]] \in -(MaxI32 + 1) .. MaxI32
  <2>1. PICK ns : ns = NarrowedSizes(desc, view)  OBVIOUS
  <2>2. PICK nt : nt = NarrowedStrides(desc, view)  OBVIOUS
  <2>3. /\ q \in Seq(Values) /\ Len(q) = TotalArgs(desc) /\ q[1] = view.base
        /\ DOMAIN ns = 1 .. Len(sizes) /\ DOMAIN nt = 1 .. Len(strides)
    BY <1>5, <1>6, <1>7, <2>1, <2>2 DEF ViewFormals
  <2>4. \A k \in 1 .. Len(sizes) : q[1 + k] = ns[k] /\ ns[k] = view.sizes[sizes[k]]
    BY <1>5, <1>6, <2>1, Zenon DEF ViewFormals
  <2>5. \A k \in 1 .. Len(strides) : q[1 + Len(sizes) + k] = nt[k] /\ nt[k] = view.strides[strides[k]]
    BY <1>5, <1>6, <1>7, <2>2, Zenon DEF ViewFormals
  <2>6. /\ \A k \in DOMAIN ns : ns[k] \in 0 .. MaxI32
        /\ \A k \in DOMAIN nt : nt[k] \in -(MaxI32 + 1) .. MaxI32
    BY <2>1, <2>2, Zenon
  <2> QED BY <2>3, <2>4, <2>5, <2>6, Zenon
<1>9. /\ \A k \in 1 .. Len(sizes) : sizes[k] \in 1 .. Rank(desc)
      /\ \A k \in 1 .. Len(strides) : strides[k] \in 1 .. Rank(desc)
  BY <1>6, <1>7, FormalsOfDesc
<1>10. \A k \in 1 .. Len(sizes) :
         q[1 + k] = NativeShape(desc, a)[sizes[k]] /\ q[1 + k] \in 0 .. MaxI32
  BY <1>1, <1>8, <1>9
<1>11. ASSUME NEW k \in 1 .. Len(strides)
       PROVE  /\ q[1 + Len(sizes) + k] = NativeStride(desc, a, strides[k])
              /\ NativeStride(desc, a, strides[k]) \in 0 .. MaxI32
  <2>1. PICK v : v = NativeStride(desc, a, strides[k])  OBVIOUS
  <2>2. q[1 + Len(sizes) + k] = v /\ v \in -(MaxI32 + 1) .. MaxI32  BY <1>1, <1>8, <1>9, <2>1
  <2>3. v \in Nat  BY <1>2, <1>9, <2>1
  <2>4. v \in 0 .. MaxI32  BY <2>2, <2>3, WidthAssumption
  <2> QED BY <2>1, <2>2, <2>4
<1>12. q[1] = <<IF IsScalar(desc) THEN "bits" ELSE "address", j>>  BY <1>1, <1>8, Zenon
<1> QED BY <1>6, <1>7, <1>8, <1>10, <1>11, <1>12 DEF PartHolds

-----------------------------------------------------------------------------
(* What the kernel computes its addresses from.                            *)

\* What fits into 31 bits survives the read of the low half of its slot.
LEMMA FitsI32 ==
  ASSUME NEW v \in 0 .. MaxI32
  PROVE  ToI32(v) = v
<1>1. PICK g \in Nat \ {0} : g = 2 * (MaxI32 + 1)  BY WidthAssumption
<1>2. v \in 0 .. g - 1 /\ ~(v > MaxI32)  BY <1>1, WidthAssumption
<1>3. v % g = v  BY <1>2, SmallMod
<1> QED BY <1>1, <1>2, <1>3 DEF ToI32

\* The formals of argument i hold its address, its dynamic sizes and its dynamic
\* strides, all within 32 bits.
FormalsHold(i, a) ==
  LET desc == signature[i]
      sizes == DynamicDims(desc.shape)
      strides == FormalStrides(desc)
      base == FormalOffset(signature, i)
  IN /\ params[base + 1] = <<"address", i>>
     /\ \A k \in 1 .. Len(sizes) :
          a.shape[sizes[k]] \in 0 .. MaxI32 /\ params[base + (1 + k)] = a.shape[sizes[k]]
     /\ \A k \in 1 .. Len(strides) :
          /\ NativeStride(desc, a, strides[k]) \in 0 .. MaxI32
          /\ params[base + (1 + Len(sizes) + k)] = NativeStride(desc, a, strides[k])

\* A kernel whose formals hold them addresses an accepted view as the view does:
\* its own products are the view's strides, or their low 32 bits.
LEMMA AddressesFollow ==
  ASSUME IsSignature(signature), NEW i \in 1 .. Len(signature), NEW a, IsOperand(a),
         a.kind = "tensor", NativeAccepts(signature[i], a), FormalsHold(i, a)
  PROVE  AddressesAs(i, a)
<1>1. PICK desc : desc = signature[i]  OBVIOUS
<1>2. IsDesc(desc) /\ NativeAccepts(desc, a) /\ ~IsScalar(desc)
  BY <1>1 DEF IsSignature, NativeAccepts
<1>3. PICK N \in Nat : N = Rank(desc)  BY <1>2, FormalsOfDesc
<1>4. PICK sizes : sizes = DynamicDims(desc.shape)  OBVIOUS
<1>5. PICK strides : strides = FormalStrides(desc)  OBVIOUS
<1>6. PICK base : base = FormalOffset(signature, i)  OBVIOUS
<1>7. /\ params[base + 1] = <<"address", i>>
      /\ \A k \in 1 .. Len(sizes) :
           a.shape[sizes[k]] \in 0 .. MaxI32 /\ params[base + (1 + k)] = a.shape[sizes[k]]
      /\ \A k \in 1 .. Len(strides) :
           /\ NativeStride(desc, a, strides[k]) \in 0 .. MaxI32
           /\ params[base + (1 + Len(sizes) + k)] = NativeStride(desc, a, strides[k])
  BY <1>1, <1>4, <1>5, <1>6 DEF FormalsHold
<1>8. /\ a.shape \in Seq(Int) /\ Len(a.shape) = N /\ NativeShape(desc, a) = a.shape
      /\ DOMAIN a.shape = 1 .. N /\ a.shape = [d \in 1 .. N |-> a.shape[d]]
      /\ desc.explicit \in BOOLEAN /\ (desc.explicit => Len(desc.strides) = N)
  <2>1. a.shape \in Seq(Int) /\ Len(a.shape) = N
    BY <1>2, <1>3 DEF IsOperand, NativeAccepts
  <2>2. a.shape \in [1 .. N -> Int]  BY <2>1, LenProperties
  <2> QED BY <1>2, <1>3, <2>1, <2>2 DEF NativeShape, IsDesc, Rank
<1>9. /\ \A d \in 1 .. N : desc.shape[d] = Dynamic =>
           \E k \in DOMAIN sizes : sizes[k] = d
      /\ DOMAIN sizes = 1 .. Len(sizes)
  <2> DEFINE E == Nat \cup {Dynamic}
  <2>1. desc.shape \in Seq(E) /\ Len(desc.shape) = N  BY <1>2, <1>3 DEF IsDesc, Rank
  <2> HIDE DEF E
  <2> QED BY <1>4, <2>1, DynamicDimsOf
<1>10. desc.explicit =>
         /\ \A d \in 1 .. N : desc.strides[d] = Dynamic =>
              \E k \in DOMAIN strides : strides[k] = d
         /\ DOMAIN strides = 1 .. Len(strides) /\ strides = DynamicDims(desc.strides)
  <2> DEFINE E == Nat \cup {Dynamic}
  <2> SUFFICES ASSUME desc.explicit
               PROVE  /\ \A d \in 1 .. N : desc.strides[d] = Dynamic =>
                           \E k \in DOMAIN strides : strides[k] = d
                      /\ DOMAIN strides = 1 .. Len(strides) /\ strides = DynamicDims(desc.strides)
    OBVIOUS
  <2>1. desc.strides \in Seq(E) /\ Len(desc.strides) = N  BY <1>2, <1>8 DEF IsDesc
  <2>2. strides = DynamicDims(desc.strides)  BY <1>5 DEF FormalStrides
  <2> HIDE DEF E
  <2> QED BY <2>1, <2>2, DynamicDimsOf
<1>11. ASSUME NEW d \in 1 .. N PROVE KernelSize(i, d) = a.shape[d]
  <2>1. CASE desc.shape[d] # Dynamic
    <3>1. desc.shape[d] \in {Dynamic, a.shape[d]}
      BY <1>2, <1>3, <1>8 DEF NativeAccepts, ShapeMatches
    <3> QED BY <1>1, <2>1, <3>1 DEF KernelSize
  <2>2. CASE desc.shape[d] = Dynamic
    <3>1. PICK m : m = CHOOSE k \in DOMAIN sizes : sizes[k] = d  OBVIOUS
    <3>2. m \in 1 .. Len(sizes) /\ sizes[m] = d
      <4>1. \E k \in DOMAIN sizes : sizes[k] = d  BY <1>9, <2>2
      <4> QED BY <1>9, <3>1, <4>1
    <3>3. a.shape[d] \in 0 .. MaxI32 /\ params[base + (1 + m)] = a.shape[d]  BY <1>7, <3>2
    <3>4. KernelSize(i, d) = Formal(i, 1 + m)  BY <1>1, <1>4, <2>2, <3>1 DEF KernelSize
    <3>5. Formal(i, 1 + m) = ToI32(a.shape[d])
      <4>1. a.shape[d] \in Int  BY <3>3, WidthAssumption
      <4> QED BY <1>6, <3>3, <4>1 DEF Formal
    <3> QED BY <3>3, <3>4, <3>5, FitsI32
  <2> QED BY <2>1, <2>2
<1>12. ASSUME NEW d \in 1 .. N, a.shape[d] > 1
       PROVE  KernelStride(i, d) = IF ProductWraps(desc, a, d) THEN ToI32(ViewStride(a, d))
                                   ELSE ViewStride(a, d)
  <2>1. NativeStride(desc, a, d) = ViewStride(a, d)
    BY <1>8 DEF NativeStride, ViewStride
  <2>2. IF desc.explicit THEN desc.strides[d] \in {Dynamic, NativeStride(desc, a, d)}
        ELSE NativeStride(desc, a, d) = Contiguous(a.shape, d)
    <3>1. a.shape[d] # 1  BY <1>8, <1>12, ElementOfSeq
    <3> QED BY <1>2, <1>3, <1>8, <3>1 DEF NativeAccepts, StrideMatches
  <2>3. CASE ~desc.explicit
    <3>1. [e \in 1 .. Rank(desc) |-> KernelSize(i, e)] = a.shape
      <4>1. [e \in 1 .. N |-> KernelSize(i, e)] = [e \in 1 .. N |-> a.shape[e]]  BY <1>11
      <4> QED BY <1>3, <1>8, <4>1
    <3>2. KernelStride(i, d) = IF IsMultiplied(desc, d) THEN ToI32(ViewStride(a, d))
                               ELSE ViewStride(a, d)
      <4>1. KernelStride(i, d) = IF IsMultiplied(desc, d) THEN ToI32(Contiguous(a.shape, d))
                                 ELSE Contiguous(a.shape, d)
        BY <1>1, <2>3, <3>1 DEF KernelStride
      <4> QED BY <2>1, <2>2, <2>3, <4>1
    <3>3. ViewStride(a, d) \in Nat  BY <1>2, <1>3, <2>1, NativeLayout
    <3>4. ~(ViewStride(a, d) > MaxI32) => ToI32(ViewStride(a, d)) = ViewStride(a, d)
      <4>1. ~(ViewStride(a, d) > MaxI32) => ViewStride(a, d) \in 0 .. MaxI32  BY <3>3, WidthAssumption
      <4> QED BY <4>1, FitsI32
    <3> QED BY <3>2, <3>4 DEF ProductWraps
  <2> ~ProductWraps(desc, a, d) \/ ~desc.explicit  BY DEF ProductWraps, IsMultiplied
  <2>4. CASE desc.explicit /\ desc.strides[d] # Dynamic
    <3>1. KernelStride(i, d) = desc.strides[d]  BY <1>1, <2>4 DEF KernelStride, IsMultiplied
    <3> QED BY <2>1, <2>2, <2>4, <3>1
  <2>5. CASE desc.explicit /\ desc.strides[d] = Dynamic
    <3>1. PICK m : m = CHOOSE k \in DOMAIN strides : strides[k] = d  OBVIOUS
    <3>2. m \in 1 .. Len(strides) /\ strides[m] = d
      <4>1. \E k \in DOMAIN strides : strides[k] = d  BY <1>10, <2>5
      <4> QED BY <1>10, <2>5, <3>1, <4>1
    <3>3. PICK v : v = NativeStride(desc, a, d)  OBVIOUS
    <3>4. v \in 0 .. MaxI32 /\ params[base + (1 + Len(sizes) + m)] = v  BY <1>7, <3>2, <3>3
    <3>5. KernelStride(i, d) = Formal(i, 1 + Len(sizes) + m)
      BY <1>1, <1>4, <1>10, <2>5, <3>1 DEF KernelStride, IsMultiplied
    <3>6. Formal(i, 1 + Len(sizes) + m) = ToI32(v)
      <4>1. v \in Int  BY <3>4, WidthAssumption
      <4> QED BY <1>6, <3>4, <4>1 DEF Formal
    <3> QED BY <2>1, <3>3, <3>4, <3>5, <3>6, FitsI32
  <2> QED BY <1>8, <2>3, <2>4, <2>5
<1> QED BY <1>1, <1>3, <1>6, <1>7, <1>11, <1>12 DEF AddressesAs

\* Where its part of the parameters holds them, so do an argument's formals.
LEMMA FormalsAreParts ==
  ASSUME IsSignature(signature), NEW i \in 1 .. Len(signature), NEW a,
         a.kind = "tensor", NativeAccepts(signature[i], a),
         NEW ss, AtFormals(signature, ss), PartHolds(signature[i], i, a, ss[i]),
         \A j \in 1 .. NumKernelArgs(signature) : params[j] = FlattenSeq(ss)[j]
  PROVE  FormalsHold(i, a)
<1>1. PICK desc : desc = signature[i]  OBVIOUS
<1>2. IsDesc(desc) /\ ~IsScalar(desc) /\ NativeShape(desc, a) = a.shape
  BY <1>1 DEF IsSignature, NativeAccepts, NativeShape
<1>3. PICK base \in Int : base = FormalOffset(signature, i)  BY DEF AtFormals
<1>4. PICK S \in Nat : S = Len(DynamicDims(desc.shape))  BY <1>2, FormalsOfDesc
<1>5. PICK T \in Nat : T = Len(FormalStrides(desc))  BY <1>2, FormalsOfDesc
<1>6. TotalArgs(desc) = 1 + S + T  BY <1>2, <1>4, <1>5, FormalsOfDesc
<1>7. PICK q : q = ss[i]  OBVIOUS
<1>8. \A j \in 1 .. 1 + S + T : params[base + j] = q[j]  BY <1>1, <1>3, <1>6, <1>7 DEF AtFormals
<1>9. /\ 1 \in 1 .. 1 + S + T
      /\ \A k \in 1 .. S : 1 + k \in 1 .. 1 + S + T
      /\ \A k \in 1 .. T : 1 + S + k \in 1 .. 1 + S + T
  OBVIOUS
<1>10. /\ params[base + 1] = q[1]
       /\ \A k \in 1 .. S : params[base + (1 + k)] = q[1 + k]
       /\ \A k \in 1 .. T : params[base + (1 + S + k)] = q[1 + S + k]
  BY <1>8, <1>9
<1>11. /\ q[1] = <<"address", i>>
       /\ \A k \in 1 .. S :
            q[1 + k] = a.shape[DynamicDims(desc.shape)[k]] /\ q[1 + k] \in 0 .. MaxI32
       /\ \A k \in 1 .. T :
            /\ q[1 + S + k] = NativeStride(desc, a, FormalStrides(desc)[k])
            /\ NativeStride(desc, a, FormalStrides(desc)[k]) \in 0 .. MaxI32
  BY <1>1, <1>2, <1>4, <1>5, <1>7 DEF PartHolds
<1> QED BY <1>1, <1>3, <1>4, <1>5, <1>10, <1>11 DEF FormalsHold

\* One operand of MatchingOperands.
MatchingOperand(desc, a) ==
  /\ NativeAccepts(desc, a)
  /\ a.kind = "pointer" => DynamicDims(desc.shape) = <<>>
  /\ a.kind = "tensor" =>
       /\ a.hasStride \/ ~desc.explicit
       /\ \A d \in DOMAIN a.shape : a.shape[d] <= MaxI32
       /\ desc.explicit => \A d \in DOMAIN a.strides : a.strides[d] <= MaxI32

\* Of a matching operand ArgumentPacker writes every formal.
LEMMA MatchingPart ==
  ASSUME NEW desc, IsDesc(desc), NEW j \in Nat, NEW a, IsOperand(a), MatchingOperand(desc, a),
         NEW q, q = OperandSlots(desc, j, a)
  PROVE  /\ q \in Seq(Values) /\ Len(q) = TotalArgs(desc)
         /\ q[1] = <<IF IsScalar(desc) THEN "bits" ELSE "address", j>>
         /\ a.kind = "tensor" => PartHolds(desc, j, a, q)
<1>1. PICK sizes : sizes = DynamicDims(desc.shape)  OBVIOUS
<1>2. PICK strides : strides = FormalStrides(desc)  OBVIOUS
<1>3. PICK N \in Nat : N = Rank(desc)  BY FormalsOfDesc
<1>4. /\ Len(sizes) \in Nat /\ Len(strides) \in Nat
      /\ \A k \in 1 .. Len(sizes) : sizes[k] \in 1 .. N
      /\ \A k \in 1 .. Len(strides) : strides[k] \in 1 .. N
  BY <1>1, <1>2, <1>3, FormalsOfDesc
<1>5. NativeAccepts(desc, a)  BY DEF MatchingOperand
<1>6. \/ IsScalar(desc)
      \/ /\ HasShape(a) \/ Len(sizes) = 0
         /\ a.kind = "tensor" \/ Len(strides) = 0
  <2> SUFFICES ASSUME ~IsScalar(desc)
               PROVE  (HasShape(a) \/ Len(sizes) = 0) /\ (a.kind = "tensor" \/ Len(strides) = 0)
    OBVIOUS
  <2>1. CASE a.kind = "tensor"
    <3>1. HasShape(a) \/ N = 0  BY <1>3, <1>5, <2>1 DEF NativeAccepts, HasShape
    <3>2. CASE N = 0
      <4>1. ASSUME Len(sizes) # 0 PROVE FALSE
        <5>1. 1 \in 1 .. Len(sizes)  BY <1>4, <4>1
        <5>2. sizes[1] \in 1 .. 0  BY <1>4, <3>2, <5>1
        <5> QED BY <5>2
      <4> QED BY <2>1, <4>1
    <3> QED BY <2>1, <3>1, <3>2
  <2>2. CASE a.kind # "tensor"
    <3>1. a.kind = "pointer"  BY <1>5, <2>2 DEF NativeAccepts
    <3>2. Len(sizes) = 0
      <4>1. sizes = <<>>  BY <1>1, <3>1 DEF MatchingOperand
      <4> QED BY <4>1, EmptySeq
    <3>3. Len(strides) = 0
      <4>1. CASE ~desc.explicit
        <5>1. strides = <<>>  BY <1>2, <4>1 DEF FormalStrides
        <5> QED BY <5>1, EmptySeq
      <4>2. CASE desc.explicit
        <5> DEFINE E == Nat \cup {Dynamic}
        <5>1. desc.strides \in Seq(E) /\ Len(desc.strides) = N /\ strides = DynamicDims(desc.strides)
          BY <1>2, <1>3, <4>2 DEF IsDesc, Rank, FormalStrides
        <5>2. ASSUME NEW d \in 1 .. N PROVE desc.strides[d] # Dynamic
          <6>1. NativeStride(desc, a, d) \in Nat  BY <1>3, <1>5, NativeLayout
          <6>2. NativeStride(desc, a, d) = desc.strides[d]  BY <3>1, <4>2 DEF NativeStride
          <6> QED BY <6>1, <6>2 DEF Dynamic
        <5> HIDE DEF E
        <5> QED BY <5>1, <5>2, DynamicDimsOf
      <4> QED BY <4>1, <4>2 DEF IsDesc
    <3> QED BY <3>2, <3>3
  <2> QED BY <2>1, <2>2
<1>7. /\ q \in Seq(Values) /\ q[1] = <<IF IsScalar(desc) THEN "bits" ELSE "address", j>>
      /\ Len(q) = TotalArgs(desc)
      /\ \A k \in 1 .. Len(sizes) : q[1 + k] = ShapeAt(a, sizes[k])
      /\ \A k \in 1 .. Len(strides) : q[1 + Len(sizes) + k] = StrideAt(a, strides[k])
  <2>1. PackedPart(desc, j, a, q)  BY SlotsOfOperand
  <2> QED BY <1>1, <1>2, <1>6, <2>1 DEF PackedPart
<1>8. ASSUME a.kind = "tensor" PROVE PartHolds(desc, j, a, q)
  <2>1. ~IsScalar(desc) /\ NativeShape(desc, a) = a.shape  BY <1>5, <1>8 DEF NativeAccepts, NativeShape
  <2>2. /\ a.shape \in Seq(Int) /\ Len(a.shape) = N
        /\ a.strides \in Seq(Int) /\ (a.hasStride => Len(a.strides) = N)
    BY <1>3, <1>5, <1>8, <2>1 DEF NativeAccepts, IsOperand
  <2>3. DOMAIN a.shape = 1 .. N /\ (a.hasStride => DOMAIN a.strides = 1 .. N)
    BY <2>2, LenProperties
  <2>4. \A d \in 1 .. N : a.shape[d] \in Nat /\ NativeStride(desc, a, d) \in Nat
    BY <1>3, <1>5, <2>1, NativeLayout
  <2>5. \A d \in 1 .. N : a.shape[d] \in 0 .. MaxI32 /\ ShapeAt(a, d) = a.shape[d]
    BY <1>8, <2>3, <2>4, WidthAssumption DEF MatchingOperand, ShapeAt
  <2>6. ASSUME NEW k \in 1 .. Len(strides)
        PROVE  /\ StrideAt(a, strides[k]) = NativeStride(desc, a, strides[k])
               /\ NativeStride(desc, a, strides[k]) \in 0 .. MaxI32
    <3>1. PICK d \in 1 .. N : d = strides[k]  BY <1>4
    <3>2. desc.explicit
      <4>1. ASSUME ~desc.explicit PROVE FALSE
        <5>1. strides = <<>>  BY <1>2, <4>1 DEF FormalStrides
        <5>2. Len(strides) = 0  BY <5>1, EmptySeq
        <5> QED BY <5>2
      <4> QED BY <4>1
    <3>3. a.hasStride  BY <1>8, <3>2 DEF MatchingOperand
    <3>4. NativeStride(desc, a, d) = a.strides[d]  BY <1>8, <3>3 DEF NativeStride
    <3>5. a.strides[d] <= MaxI32 /\ StrideAt(a, d) = a.strides[d]
      BY <1>8, <2>3, <3>2, <3>3 DEF MatchingOperand, StrideAt
    <3>6. NativeStride(desc, a, d) \in Nat  BY <2>4
    <3> QED BY <3>1, <3>4, <3>5, <3>6, WidthAssumption
  <2> QED BY <1>1, <1>2, <1>4, <1>7, <2>1, <2>5, <2>6 DEF PartHolds
<1> QED BY <1>7, <1>8

-----------------------------------------------------------------------------
(* The inductive invariant.                                                *)

\* The current call has a signature and operands of the assumed form.
LEMMA SignatureAndOperands ==
  ASSUME TypeOK
  PROVE  IsSignature(signature) /\ AreOperands(args)
BY SignatureAssumption, OperandAssumption DEF TypeOK, IsSignature, AreOperands

\* Every step of a call keeps the invariant.
LEMMA ArgsInvStep ==
  ASSUME ArgsInv, [Next]_vars
  PROVE  ArgsInv'
<1> USE DEF ArgsInv
<1>1. CASE LaunchInterpreted
  <2>1. ~native /\ UNCHANGED <<signature, native, args, views>> /\ TypeOK  BY <1>1 DEF LaunchInterpreted
  <2>2. CASE PackFails(signature, args)
    <3>1. Return("invalid_argument") /\ UNCHANGED <<slots, params>>  BY <1>1, <2>2 DEF LaunchInterpreted
    <3>2. TypeOK' /\ result'.status = "invalid_argument" /\ call' = "idle"
      BY <2>1, <3>1 DEF TypeOK, Return
    <3>3. InterpretedInv'  BY <2>1, <3>1, <3>2 DEF InterpretedInv, Launched
    <3> QED BY <2>1, <3>2, <3>3
  <2>3. CASE ~PackFails(signature, args)
    <3>1. /\ slots' = PackArgs(signature, args) /\ params' = PaddedSlots(signature, slots')
          /\ Return("ok")
      BY <1>1, <2>3 DEF LaunchInterpreted
    <3>2. TypeOK' /\ call' = "idle"  BY <2>1, <3>1 DEF TypeOK, Return
    <3>3. InterpretedInv'  BY <2>1, <2>3, <3>1, <3>2 DEF InterpretedInv
    <3> QED BY <2>1, <3>2, <3>3
  <2> QED BY <2>2, <2>3
<1>2. CASE LaunchNative
  <2>1. native /\ UNCHANGED <<signature, native, args, views, params>> /\ TypeOK
    BY <1>2 DEF LaunchNative
  <2>2. CASE PackNativeHostArgsFails(signature, args)
    <3>1. Return("invalid_argument") /\ UNCHANGED slots  BY <1>2, <2>2 DEF LaunchNative
    <3>2. TypeOK' /\ result'.status = "invalid_argument" /\ call' = "idle"
      BY <2>1, <3>1 DEF TypeOK, Return
    <3>3. NativeInv'  BY <2>1, <3>1, <3>2 DEF NativeInv, Launched
    <3> QED BY <2>1, <3>2, <3>3
  <2>3. CASE ~PackNativeHostArgsFails(signature, args)
    <3>1. slots' = PackNativeHostArgs(signature, args) /\ call' = "launch" /\ UNCHANGED result
      BY <1>2, <2>3 DEF LaunchNative
    <3>2. TypeOK'  BY <2>1, <3>1 DEF TypeOK
    <3>3. NativeInv'  BY <2>1, <2>3, <3>1 DEF NativeInv, Launched
    <3> QED BY <2>1, <3>2, <3>3
  <2> QED BY <2>2, <2>3
<1>3. CASE UnpackArguments
  <2>1. /\ call = "launch" /\ views' = Unpack(signature, slots) /\ call' = "unpacked"
        /\ UNCHANGED <<signature, native, args, slots, params, result>> /\ TypeOK
    BY <1>3 DEF UnpackArguments
  <2>2. native /\ NativeInv  BY <2>1 DEF InterpretedInv
  <2>3. TypeOK'  BY <2>1 DEF TypeOK
  <2>4. NativeInv'  BY <2>1, <2>2 DEF NativeInv, Launched
  <2> QED BY <2>1, <2>2, <2>3, <2>4
<1>4. CASE BuildKernelParams
  <2>1. call = "unpacked" /\ UNCHANGED <<signature, native, args, slots, views>> /\ TypeOK
    BY <1>4 DEF BuildKernelParams
  <2>2. native /\ NativeInv  BY <2>1 DEF InterpretedInv
  <2>3. CASE NarrowingFails(signature, views)
    <3>1. Return("host_error") /\ UNCHANGED params  BY <1>4, <2>3 DEF BuildKernelParams
    <3>2. TypeOK' /\ result'.status = "host_error" /\ call' = "idle"
      BY <2>1, <3>1 DEF TypeOK, Return
    <3>3. NativeInv'  BY <2>1, <2>2, <3>1, <3>2 DEF NativeInv, Launched
    <3> QED BY <2>1, <2>2, <3>2, <3>3
  <2>4. CASE ~NarrowingFails(signature, views)
    <3>1. params' = KernelParams(signature, views) /\ Return("ok")  BY <1>4, <2>4 DEF BuildKernelParams
    <3>2. TypeOK' /\ call' = "idle"  BY <2>1, <3>1 DEF TypeOK, Return
    <3>3. NativeInv'  BY <2>1, <2>2, <2>4, <3>1, <3>2 DEF NativeInv
    <3> QED BY <2>1, <2>2, <3>2, <3>3
  <2> QED BY <2>3, <2>4
<1>5. CASE CheckSupport
  <2>1. /\ call = "idle" /\ result.status = "none" /\ call' = "check"
        /\ UNCHANGED <<signature, native, args, slots, views, params>> /\ TypeOK
    BY <1>5 DEF CheckSupport
  <2>2. TypeOK'  BY <1>5, <2>1 DEF CheckSupport, TypeOK
  <2>3. IF native THEN NativeInv' ELSE InterpretedInv'
    BY <2>1 DEF NativeInv, InterpretedInv, Launched
  <2> QED BY <2>1, <2>2, <2>3
<1>6. CASE UNCHANGED vars
  BY <1>6 DEF vars, TypeOK, NativeInv, InterpretedInv, Launched
<1> QED BY <1>1, <1>2, <1>3, <1>4, <1>5, <1>6 DEF Next

\* What each step of a launch leaves is the packing, the unpacking or the
\* parameter table of the call's own arguments, on either host target.
THEOREM ArgsInvariant == Spec => []ArgsInv
<1>1. Init => ArgsInv
  BY DEF Init, ArgsInv, TypeOK, NativeInv, InterpretedInv, Launched
<1>2. ArgsInv /\ [Next]_vars => ArgsInv'  BY ArgsInvStep
<1> QED BY <1>1, <1>2, PTL DEF Spec

-----------------------------------------------------------------------------
(* The properties.                                                         *)

\* Whatever the caller passes, ArgumentPacker writes no slot beyond those of the
\* compiled signature.
THEOREM PackerStaysInBounds == Spec => []PackStaysInBounds
<1>1. ASSUME ArgsInv PROVE PackStaysInBounds
  <2> SUFFICES ASSUME ~native PROVE Len(slots) <= NumKernelArgs(signature)
    BY DEF PackStaysInBounds
  <2>1. IsSignature(signature) /\ AreOperands(args) /\ InterpretedInv
    BY <1>1, SignatureAndOperands DEF ArgsInv
  <2>2. CASE slots = <<>>
    <3>1. NumKernelArgs(signature) \in Nat  BY <2>1, NumKernelArgsIsNat
    <3>2. Len(<<>>) = 0  BY EmptySeq
    <3> QED BY <2>2, <3>1, <3>2
  <2>3. CASE slots # <<>>
    <3>1. slots = PackArgs(signature, args) /\ ~PackFails(signature, args)
      BY <2>1, <2>3 DEF InterpretedInv
    <3>2. PICK N \in Nat : N = Len(signature) /\ DOMAIN signature = 1 .. N  BY <2>1 DEF IsSignature
    <3>3. DOMAIN args = 1 .. N  BY <2>1, <3>1, <3>2 DEF PackFails, AreOperands
    <3>4. PICK ss : ss = [i \in DOMAIN signature |-> OperandSlots(signature[i], i, args[i])]  OBVIOUS
    <3>5. \A i \in 1 .. N : /\ ss[i] \in Seq(Values)
                            /\ Len(ss[i]) \in 1 .. TotalArgs(signature[i])
                            /\ TotalArgs(signature[i]) \in Nat
      <4> SUFFICES ASSUME NEW i \in 1 .. N
                   PROVE  /\ ss[i] \in Seq(Values) /\ Len(ss[i]) \in 1 .. TotalArgs(signature[i])
                          /\ TotalArgs(signature[i]) \in Nat
        OBVIOUS
      <4>1. i \in Nat /\ IsDesc(signature[i]) /\ IsOperand(args[i])
        BY <2>1, <3>2, <3>3 DEF IsSignature, AreOperands
      <4>2. ss[i] = OperandSlots(signature[i], i, args[i])  BY <3>2, <3>4
      <4>3. PackedPart(signature[i], i, args[i], ss[i])  BY <4>1, <4>2, SlotsOfOperand
      <4> QED BY <4>1, <4>3, FormalsOfDesc DEF PackedPart
    <3>6. PICK n : n = [i \in 1 .. N |-> Len(ss[i])]  OBVIOUS
    <3>7. PICK m : m = [i \in DOMAIN signature |-> TotalArgs(signature[i])]  OBVIOUS
    <3>8. n \in [1 .. N -> Int] /\ m \in [1 .. N -> Int] /\ \A i \in 1 .. N : n[i] <= m[i]
      BY <3>2, <3>5, <3>6, <3>7
    <3>9. ss \in [1 .. N -> Seq(Values)] /\ \A i \in 1 .. N : n[i] = Len(ss[i])
      BY <3>2, <3>4, <3>5, <3>6
    <3>10. FlatParts(Values, N, ss, n)  BY <3>8, <3>9, FlattenAt, Zenon
    <3>11. Len(slots) = SumOf(n)  BY <3>1, <3>4, <3>10 DEF FlatParts, PackArgs
    <3>12. SumOf(n) <= SumOf(m)  BY <3>8, SumMonotone
    <3> QED BY <3>7, <3>11, <3>12 DEF NumKernelArgs
  <2> QED BY <2>2, <2>3
<1> QED BY <1>1, ArgsInvariant, PTL

\* packNativeHostArgs writes exactly the slots the generated entry reads.
THEOREM NativeSlotsAlwaysMatch == Spec => []NativeSlotsMatchEntry
<1>1. ASSUME ArgsInv PROVE NativeSlotsMatchEntry
  <2> SUFFICES ASSUME native, slots # <<>>
               PROVE  Len(slots) = SumOf([i \in DOMAIN signature |-> EntrySlots(signature[i])])
    BY DEF NativeSlotsMatchEntry
  <2>1. IsSignature(signature) /\ AreOperands(args)  BY <1>1, SignatureAndOperands DEF ArgsInv
  <2>2. ~PackNativeHostArgsFails(signature, args) /\ slots = PackNativeHostArgs(signature, args)
    BY <1>1 DEF ArgsInv, NativeInv
  <2> QED BY <2>1, <2>2, EntryReads
<1> QED BY <1>1, ArgsInvariant, PTL

\* Whatever views the caller passes, a launch the native path accepts has the
\* kernel address each of them as its own shape and strides say, but for the strides
\* of a contiguous tensor that the kernel multiplies and that exceed 32 bits.
THEOREM NativeLaunchesAddressTheViews == Spec => []NativeAddressesAgree
<1>1. ASSUME ArgsInv PROVE NativeAddressesAgree
  <2> SUFFICES ASSUME Launched, native, NEW i \in DOMAIN args, args[i].kind = "tensor"
               PROVE  AddressesAs(i, args[i])
    BY DEF NativeAddressesAgree
  <2>1. IsSignature(signature) /\ AreOperands(args)  BY <1>1, SignatureAndOperands DEF ArgsInv
  <2>2. /\ ~PackNativeHostArgsFails(signature, args)
        /\ views = Unpack(signature, PackNativeHostArgs(signature, args))
        /\ ~NarrowingFails(signature, views) /\ params = KernelParams(signature, views)
    BY <1>1 DEF ArgsInv, NativeInv
  <2>3. PICK N \in Nat : N = Len(signature) /\ DOMAIN signature = 1 .. N  BY <2>1 DEF IsSignature
  <2>4. DOMAIN args = 1 .. N /\ \A j \in 1 .. N : NativeAccepts(signature[j], args[j])
    BY <2>1, <2>2, <2>3 DEF PackNativeHostArgsFails, AreOperands
  <2>5. PICK ss : ss = [j \in DOMAIN signature |->
                          <<views[j].base>> \o NarrowedSizes(signature[j], views[j])
                            \o NarrowedStrides(signature[j], views[j])]
    OBVIOUS
  <2>6. params = FlattenSeq(ss)  BY <2>2, <2>5 DEF KernelParams
  <2>7. ASSUME NEW j \in 1 .. N PROVE PartHolds(signature[j], j, args[j], ss[j])
    <3>1. j \in Nat /\ IsDesc(signature[j]) /\ IsOperand(args[j]) /\ NativeAccepts(signature[j], args[j])
      BY <2>1, <2>3, <2>4 DEF IsSignature, AreOperands
    <3>2. ViewHolds(signature[j], j, args[j], views[j])  BY <2>1, <2>2, <2>3, EntryReads
    <3>3. ss[j] = <<views[j].base>> \o NarrowedSizes(signature[j], views[j])
                    \o NarrowedStrides(signature[j], views[j])
      BY <2>3, <2>5
    <3>4. /\ \A k \in DOMAIN NarrowedSizes(signature[j], views[j]) :
               NarrowedSizes(signature[j], views[j])[k] \in 0 .. MaxI32
          /\ \A k \in DOMAIN NarrowedStrides(signature[j], views[j]) :
               NarrowedStrides(signature[j], views[j])[k] \in -(MaxI32 + 1) .. MaxI32
      BY <2>2, <2>3 DEF NarrowingFails
    <3> QED BY <3>1, <3>2, <3>3, <3>4, NativePartHolds
  <2>8. AtFormals(signature, ss)
    <3>1. ss \in [1 .. N -> Seq(Values)]  BY <2>3, <2>5, <2>7 DEF PartHolds
    <3>2. \A j \in 1 .. N : Len(ss[j]) = TotalArgs(signature[j])  BY <2>7 DEF PartHolds
    <3> QED BY <2>1, <2>3, <3>1, <3>2, PartsAtFormals
  <2>9. FormalsHold(i, args[i])
    <3>1. i \in 1 .. Len(signature)  BY <2>3, <2>4
    <3>2. PartHolds(signature[i], i, args[i], ss[i]) /\ NativeAccepts(signature[i], args[i])
      BY <2>3, <2>4, <2>7, <3>1
    <3> QED BY <2>1, <2>6, <2>8, <3>1, <3>2, FormalsAreParts
  <2>10. i \in 1 .. Len(signature) /\ IsOperand(args[i]) /\ NativeAccepts(signature[i], args[i])
    BY <2>1, <2>3, <2>4 DEF AreOperands
  <2> QED BY <2>1, <2>9, <2>10, AddressesFollow
<1> QED BY <1>1, ArgsInvariant, PTL

\* The interpreter validates nothing, but arguments of the compiled layout, with
\* sizes and explicit strides within 32 bits, are addressed as they are, with the
\* same exception, and scalars arrive in their own slot.
THEOREM InterpreterLaunchesAddressTheViews == Spec => []InterpreterAddressesAgree
<1>1. ASSUME ArgsInv PROVE InterpreterAddressesAgree
  <2> SUFFICES ASSUME Launched, ~native, MatchingOperands, NEW i \in DOMAIN args
               PROVE  IF args[i].kind = "tensor" THEN AddressesAs(i, args[i])
                      ELSE params[FormalOffset(signature, i) + 1]
                             = <<IF IsScalar(signature[i]) THEN "bits" ELSE "address", i>>
    BY DEF InterpreterAddressesAgree
  <2>1. IsSignature(signature) /\ AreOperands(args)  BY <1>1, SignatureAndOperands DEF ArgsInv
  <2>2. /\ ~PackFails(signature, args) /\ slots = PackArgs(signature, args)
        /\ params = PaddedSlots(signature, slots)
    BY <1>1 DEF ArgsInv, InterpretedInv
  <2>3. PICK N \in Nat : N = Len(signature) /\ DOMAIN signature = 1 .. N  BY <2>1 DEF IsSignature
  <2>4. DOMAIN args = 1 .. N  BY <2>1, <2>2, <2>3 DEF PackFails, AreOperands
  <2>5. PICK ss : ss = [j \in DOMAIN signature |-> OperandSlots(signature[j], j, args[j])]  OBVIOUS
  <2>6. slots = FlattenSeq(ss)  BY <2>2, <2>5 DEF PackArgs
  <2>7. ASSUME NEW j \in 1 .. N
        PROVE  /\ ss[j] \in Seq(Values) /\ Len(ss[j]) = TotalArgs(signature[j])
               /\ ss[j][1] = <<IF IsScalar(signature[j]) THEN "bits" ELSE "address", j>>
               /\ args[j].kind = "tensor" => PartHolds(signature[j], j, args[j], ss[j])
    <3>1. /\ j \in Nat /\ IsDesc(signature[j]) /\ IsOperand(args[j])
          /\ MatchingOperand(signature[j], args[j]) /\ ss[j] = OperandSlots(signature[j], j, args[j])
      BY <2>1, <2>3, <2>4, <2>5 DEF IsSignature, AreOperands, MatchingOperands, MatchingOperand
    <3> QED BY <3>1, MatchingPart
  <2>8. AtFormals(signature, ss)
    <3>1. ss \in [1 .. N -> Seq(Values)]  BY <2>3, <2>5, <2>7
    <3> QED BY <2>1, <2>3, <2>7, <3>1, PartsAtFormals
  <2>9. \A j \in 1 .. NumKernelArgs(signature) : params[j] = FlattenSeq(ss)[j]
    <3>1. DOMAIN slots = 1 .. NumKernelArgs(signature)  BY <2>6, <2>8, LenProperties DEF AtFormals
    <3> QED BY <2>2, <2>6, <3>1 DEF PaddedSlots
  <2>10. i \in 1 .. Len(signature) /\ IsDesc(signature[i]) /\ IsOperand(args[i])
         /\ NativeAccepts(signature[i], args[i])
    BY <2>1, <2>3, <2>4 DEF IsSignature, AreOperands, MatchingOperands
  <2>11. CASE args[i].kind = "tensor"
    <3>1. FormalsHold(i, args[i])
      BY <2>1, <2>3, <2>7, <2>8, <2>9, <2>10, <2>11, FormalsAreParts
    <3>2. AddressesAs(i, args[i])  BY <2>1, <2>10, <2>11, <3>1, AddressesFollow
    <3> QED BY <2>11, <3>2
  <2>12. CASE args[i].kind # "tensor"
    <3>1. 1 \in 1 .. TotalArgs(signature[i])  BY <2>10, FormalsOfDesc
    <3>2. params[FormalOffset(signature, i) + 1] = ss[i][1]
      BY <2>8, <2>9, <2>10, <3>1 DEF AtFormals
    <3>3. ss[i][1] = <<IF IsScalar(signature[i]) THEN "bits" ELSE "address", i>>  BY <2>3, <2>7, <2>10
    <3> QED BY <2>12, <3>2, <3>3, Zenon
  <2> QED BY <2>11, <2>12
<1> QED BY <1>1, ArgsInvariant, PTL
=============================================================================
