-------------------------- MODULE TensorGraphProofs --------------------------
(***************************************************************************)
(* The dialect's verifiers and the reference interpreter accept the same   *)
(* graphs, whatever the graph.                                             *)
(***************************************************************************)
EXTENDS VerifiedGraph, DataLemmas, TLAPS

-----------------------------------------------------------------------------
(* Graphs.                                                                 *)

\* The operations of a graph define the values after its arguments.
LEMMA GraphParts ==
  ASSUME NEW g, IsGraph(g)
  PROVE  /\ NumArgs(g) \in Nat /\ Len(g.ops) \in Nat /\ Len(g.results) \in Nat
         /\ DOMAIN g.args = 1 .. NumArgs(g) /\ DOMAIN g.ops = 1 .. Len(g.ops)
         /\ DOMAIN g.results = 1 .. Len(g.results)
         /\ \A k \in 1 .. Len(g.ops) :
               /\ NumArgs(g) + k \in Values(g) /\ ~IsArg(g, NumArgs(g) + k)
               /\ Op(g, NumArgs(g) + k) = g.ops[k]
               /\ ShapeOf(g, NumArgs(g) + k) = g.ops[k].shape
               /\ IsOperation(g, NumArgs(g) + k)
<1>1. /\ g.args \in Seq(ToSet(g.args)) /\ g.ops \in Seq(ToSet(g.ops))
      /\ g.results \in Seq(ToSet(g.results))
  BY DEF IsGraph
<1>2. /\ NumArgs(g) \in Nat /\ Len(g.ops) \in Nat /\ Len(g.results) \in Nat
      /\ DOMAIN g.args = 1 .. NumArgs(g) /\ DOMAIN g.ops = 1 .. Len(g.ops)
      /\ DOMAIN g.results = 1 .. Len(g.results)
  BY <1>1, LenProperties DEF NumArgs
<1>3. ASSUME NEW k \in 1 .. Len(g.ops)
      PROVE  /\ NumArgs(g) + k \in Values(g) /\ ~IsArg(g, NumArgs(g) + k)
             /\ Op(g, NumArgs(g) + k) = g.ops[k]
             /\ ShapeOf(g, NumArgs(g) + k) = g.ops[k].shape
             /\ IsOperation(g, NumArgs(g) + k)
  <2>1. NumArgs(g) + k \in Values(g) /\ ~(NumArgs(g) + k <= NumArgs(g)) /\ (NumArgs(g) + k) - NumArgs(g) = k
    BY <1>2 DEF Values
  <2>2. ~IsArg(g, NumArgs(g) + k)  BY <2>1 DEF IsArg
  <2>3. Op(g, NumArgs(g) + k) = g.ops[k]  BY <2>1 DEF Op
  <2>4. ShapeOf(g, NumArgs(g) + k) = g.ops[k].shape  BY <2>2, <2>3 DEF ShapeOf
  <2>5. IsOperation(g, NumArgs(g) + k)  BY <2>1, <2>2 DEF IsGraph
  <2> QED BY <2>1, <2>2, <2>3, <2>4, <2>5
<1> QED BY <1>2, <1>3

LEMMA ShapesAreShapes ==
  ASSUME NEW g, IsGraph(g), NEW v \in Values(g)
  PROVE  ShapeOf(g, v) \in Seq(Nat)
<1>1. CASE IsArg(g, v)
  <2>1. v \in DOMAIN g.args  BY <1>1, GraphParts DEF IsArg, Values
  <2>2. g.args[v] \in ToSet(g.args)  BY <2>1 DEF ToSet
  <2> QED BY <1>1, <2>2 DEF IsGraph, ShapeOf
<1>2. CASE ~IsArg(g, v)
  BY <1>2 DEF IsGraph, IsOperation, ShapeOf
<1> QED BY <1>1, <1>2

\* A value that an operation uses is defined before it; only a splat takes scalars.
LEMMA OperandsDefined ==
  ASSUME NEW g, IsGraph(g), NEW k \in 1 .. Len(g.ops)
  PROVE  /\ g.ops[k].ins \in Seq(1 .. NumArgs(g) + k - 1)
         /\ \A j \in DOMAIN g.ops[k].ins :
               /\ g.ops[k].ins[j] \in 1 .. NumArgs(g) + k - 1
               /\ g.ops[k].ins[j] \in Values(g)
               /\ IsScalarArg(g, g.ops[k].ins[j]) <=> g.ops[k].op = "splat"
<1>1. /\ NumArgs(g) \in Nat /\ Len(g.ops) \in Nat
      /\ Op(g, NumArgs(g) + k) = g.ops[k] /\ IsOperation(g, NumArgs(g) + k)
  BY GraphParts
<1>2. g.ops[k].ins \in Seq(1 .. NumArgs(g) + k - 1)  BY <1>1 DEF IsOperation
<1>3. ASSUME NEW j \in DOMAIN g.ops[k].ins
      PROVE  /\ g.ops[k].ins[j] \in 1 .. NumArgs(g) + k - 1
             /\ g.ops[k].ins[j] \in Values(g)
             /\ IsScalarArg(g, g.ops[k].ins[j]) <=> g.ops[k].op = "splat"
  <2>1. g.ops[k].ins[j] \in 1 .. NumArgs(g) + k - 1
    BY <1>2, ElementOfSeq, LenProperties
  <2>2. g.ops[k].ins[j] \in Values(g)  BY <1>1, <2>1 DEF Values
  <2>3. g.ops[k].ins[j] \in ToSet(g.ops[k].ins)  BY DEF ToSet
  <2> QED BY <1>1, <2>1, <2>2, <2>3 DEF IsOperation
<1> QED BY <1>2, <1>3

-----------------------------------------------------------------------------
(* Tensors of the reference interpreter.                                   *)

\* The tensor t has the shape of the value v, and strides that are not negative.
IsTensorOf(t, v) ==
  /\ t.dims = TensorShape(v)
  /\ \A d \in DOMAIN t.dims : t.strides[d] \in Nat

\* Only scalar arguments have another shape in the reference.
LEMMA TensorShapes ==
  ASSUME IsGraph(graph), NEW v \in Values(graph)
  PROVE  /\ TensorShape(v) \in Seq(Nat)
         /\ IsScalarArg(graph, v) => TensorShape(v) = << 1 >>
         /\ ~IsScalarArg(graph, v) => TensorShape(v) = ShapeOf(graph, v)
<1>1. ShapeOf(graph, v) \in Seq(Nat)  BY ShapesAreShapes
<1>2. << 1 >> \in Seq(Nat)  OBVIOUS
<1> QED BY <1>1, <1>2 DEF TensorShape, IsScalarArg

LEMMA RowMajorStrides ==
  ASSUME NEW dims \in Seq(Nat)
  PROVE  \A d \in DOMAIN dims : RowMajor(dims)[d] \in Nat
<1> SUFFICES ASSUME NEW d \in DOMAIN dims PROVE RowMajor(dims)[d] \in Nat
  OBVIOUS
<1> DEFINE rest == SubSeq(dims, d + 1, Len(dims))
<1>1. d \in 1 .. Len(dims)  OBVIOUS
<1>2. rest \in Seq(Nat)  BY <1>1
<1>3. Volume(rest) \in Nat
  <2> HIDE DEF rest
  <2>1. PICK p \in [0 .. Len(rest) -> Nat] : p[Len(rest)] = Product(rest)  BY <1>2, ProductOfNats
  <2>2. Len(rest) \in 0 .. Len(rest)  BY <1>2
  <2> QED BY <2>1, <2>2 DEF Volume
<1> QED BY <1>3 DEF RowMajor

LEMMA CreatedTensor ==
  ASSUME IsGraph(graph), NEW v \in Values(graph), NEW buffer, HasStrides(buffer, ShapeOf(graph, v))
  PROVE  IsTensorOf(CreateTensor(TensorShape(v), buffer.strides), v)
<1> DEFINE dims == TensorShape(v)
           t == CreateTensor(dims, buffer.strides)
<1>1. dims \in Seq(Nat)  BY TensorShapes
<1>2. t.dims = dims /\ t.strides = StridesOf(dims, buffer.strides)  BY DEF CreateTensor
<1>3. buffer.strides \in Seq(Nat) /\ Len(buffer.strides) \in {0, Len(ShapeOf(graph, v))}
  BY DEF HasStrides
<1>4. CASE buffer.strides = <<>>
  BY <1>1, <1>2, <1>4, RowMajorStrides DEF IsTensorOf, StridesOf
<1>5. CASE buffer.strides # <<>>
  <2>1. Len(buffer.strides) = Len(ShapeOf(graph, v)) /\ Len(buffer.strides) # 0
    BY <1>3, <1>5, EmptySeq
  <2>2. ShapeOf(graph, v) # <<>>  BY <2>1
  <2>3. dims = ShapeOf(graph, v)  BY <2>2, TensorShapes DEF IsScalarArg, IsScalar
  <2>4. t.strides = buffer.strides  BY <1>2, <1>5 DEF StridesOf
  <2>5. \A d \in DOMAIN dims : buffer.strides[d] \in Nat  BY <1>1, <1>3, <2>1, <2>3
  <2> QED BY <1>2, <2>4, <2>5 DEF IsTensorOf
<1> QED BY <1>4, <1>5

\* A nonempty set of naturals has a least one.
LEMMA LeastNatural ==
  ASSUME NEW S \in SUBSET Nat, S # {}
  PROVE  \E m \in S : \A n \in S : m <= n
<1>1. PICK m \in S : \A n \in S : ~ (<<n, m>> \in OpToRel(<, Nat))
  BY NatLessThanWellFounded, WFMin
<1>2. ASSUME NEW n \in S PROVE m <= n
  <2>1. ~(n < m)  BY <1>1 DEF OpToRel
  <2> QED BY <2>1
<1> QED BY <1>2

\* What a map from values to tensors holds.
TensorsOf(tensors) == \A v \in DOMAIN tensors : v \in Values(graph) /\ IsTensorOf(tensors[v], v)

LEMMA IOTensorsOfGraph ==
  ASSUME IsGraph(graph)
  PROVE  TensorsOf(IOTensors) /\ 1 .. NumArgs(graph) \subseteq DOMAIN IOTensors
<1> DEFINE IsFirst(v, r) == graph.results[r].value = v /\ \A q \in 1 .. r - 1 : graph.results[q].value # v
           First(v) == CHOOSE r \in DOMAIN graph.results : IsFirst(v, r)
           Strides(v) == IF IsArg(graph, v) THEN graph.args[v].strides ELSE graph.results[First(v)].strides
           named == 1 .. NumArgs(graph) \cup {r.value : r \in ToSet(graph.results)}
<1>1. IOTensors = [v \in named |-> CreateTensor(TensorShape(v), Strides(v))]  BY DEF IOTensors
<1>2. ASSUME NEW v \in 1 .. NumArgs(graph)
      PROVE  v \in Values(graph) /\ IsTensorOf(CreateTensor(TensorShape(v), Strides(v)), v)
  <2>1. v \in Values(graph) /\ IsArg(graph, v) /\ v \in DOMAIN graph.args
    BY GraphParts DEF Values, IsArg
  <2>2. graph.args[v] \in ToSet(graph.args)  BY <2>1 DEF ToSet
  <2>3. HasStrides(graph.args[v], ShapeOf(graph, v))  BY <2>1, <2>2 DEF IsGraph, ShapeOf
  <2>4. IsTensorOf(CreateTensor(TensorShape(v), graph.args[v].strides), v)
    BY <2>1, <2>3, CreatedTensor
  <2> QED BY <2>1, <2>4
<1>3. ASSUME NEW v \in named, v \notin 1 .. NumArgs(graph)
      PROVE  v \in Values(graph) /\ IsTensorOf(CreateTensor(TensorShape(v), Strides(v)), v)
  <2> DEFINE here == {r \in 1 .. Len(graph.results) : graph.results[r].value = v}
  <2>1. DOMAIN graph.results = 1 .. Len(graph.results) /\ Len(graph.results) \in Nat  BY GraphParts
  <2>2. here # {}
    <3>1. v \in {r.value : r \in ToSet(graph.results)}  BY <1>3
    <3> QED BY <2>1, <3>1 DEF ToSet
  <2>3. PICK m \in here : \A n \in here : m <= n
    <3>1. here \in SUBSET Nat  BY <2>1
    <3> QED BY <2>2, <3>1, LeastNatural
  <2>4. \A q \in 1 .. m - 1 : graph.results[q].value # v  BY <2>1, <2>3
  <2>5. IsFirst(v, m) /\ m \in DOMAIN graph.results  BY <2>1, <2>4
  <2>6. First(v) \in DOMAIN graph.results /\ IsFirst(v, First(v))
    <3> HIDE DEF IsFirst
    <3> QED BY <2>5
  <2> HIDE DEF First
  <2> DEFINE result == graph.results[First(v)]
  <2>7. result \in ToSet(graph.results)  BY <2>6 DEF ToSet
  <2>8. result.value = v  BY <2>6
  <2>9. v \in Values(graph) /\ HasStrides(result, ShapeOf(graph, v))  BY <2>7, <2>8 DEF IsGraph
  <2>10. ~IsArg(graph, v)  BY <1>3, <2>9, GraphParts DEF IsArg, Values
  <2>11. IsTensorOf(CreateTensor(TensorShape(v), result.strides), v)  BY <2>9, CreatedTensor
  <2> QED BY <2>9, <2>10, <2>11
<1> HIDE DEF Strides, named
<1>4. \A v \in named : v \in Values(graph) /\ IsTensorOf(CreateTensor(TensorShape(v), Strides(v)), v)
  BY <1>2, <1>3
<1>5. DOMAIN IOTensors = named /\ \A v \in named : IOTensors[v] = CreateTensor(TensorShape(v), Strides(v))
  BY <1>1
<1>6. TensorsOf(IOTensors)  BY <1>4, <1>5 DEF TensorsOf
<1> QED BY <1>5, <1>6 DEF named

\* A value without a tensor gets one, the others keep theirs.
LEMMA GetOrCreateKeeps ==
  ASSUME IsGraph(graph), NEW tensors, TensorsOf(tensors), NEW v \in Values(graph)
  PROVE  LET after == GetOrCreate(tensors, v, <<>>)
         IN  /\ TensorsOf(after) /\ DOMAIN after = DOMAIN tensors \cup {v}
             /\ \A w \in DOMAIN tensors : after[w] = tensors[w]
<1>1. CASE v \in DOMAIN tensors
  BY <1>1 DEF GetOrCreate
<1>2. CASE v \notin DOMAIN tensors
  <2> DEFINE created == CreateTensor(TensorShape(v), <<>>)
             buffer == [strides |-> <<>>]
             after == [w \in DOMAIN tensors \cup {v} |-> IF w = v THEN created ELSE tensors[w]]
  <2>1. GetOrCreate(tensors, v, <<>>) = after  BY <1>2 DEF GetOrCreate
  <2>2. IsTensorOf(created, v)
    <3>1. HasStrides(buffer, ShapeOf(graph, v))  BY EmptySeq DEF HasStrides
    <3>2. buffer.strides = <<>>  OBVIOUS
    <3> HIDE DEF buffer
    <3> QED BY <3>1, <3>2, CreatedTensor
  <2> HIDE DEF created
  <2>3. DOMAIN after = DOMAIN tensors \cup {v} /\ after[v] = created
        /\ \A w \in DOMAIN tensors : after[w] = tensors[w]
    BY <1>2
  <2>4. TensorsOf(after)  BY <2>2, <2>3 DEF TensorsOf
  <2> QED BY <2>1, <2>3, <2>4
<1> QED BY <1>1, <1>2

-----------------------------------------------------------------------------
(* One operation: what its node validates is what its verifier asks.       *)

\* The tensors ts and out of a node have these shapes, and valid strides.
HaveShapes(ts, out, ins, shape) ==
  /\ DOMAIN ts = DOMAIN ins
  /\ \A j \in DOMAIN ins : ts[j].dims = ins[j] /\ \A d \in DOMAIN ins[j] : ts[j].strides[d] \in Nat
  /\ out.dims = shape /\ \A d \in DOMAIN shape : out.strides[d] \in Nat

NoneEmpty(ins, shape) ==
  /\ \A d \in DOMAIN shape : shape[d] # 0
  /\ \A j \in DOMAIN ins : \A d \in DOMAIN ins[j] : ins[j][d] # 0

\* What the shapes have, without a node.
LEMMA TensorsValid ==
  ASSUME NEW ins \in Seq(Seq(Nat)), NEW shape \in Seq(Nat), NEW ts, ts \in Seq(ToSet(ts)), NEW out,
         HaveShapes(ts, out, ins, shape)
  PROVE  (\A t \in ToSet(ts) \cup {out} : ValidTensor(t)) <=> NoneEmpty(ins, shape)
<1>1. ValidTensor(out) <=> \A d \in DOMAIN shape : shape[d] # 0
  <2>1. \A d \in DOMAIN shape : shape[d] \in Nat  OBVIOUS
  <2> QED BY <2>1 DEF ValidTensor, HaveShapes
<1>2. ASSUME NEW j \in DOMAIN ins
      PROVE  ValidTensor(ts[j]) <=> \A d \in DOMAIN ins[j] : ins[j][d] # 0
  <2>1. ins[j] \in Seq(Nat)  OBVIOUS
  <2>2. \A d \in DOMAIN ins[j] : ins[j][d] \in Nat  BY <2>1
  <2> QED BY <2>2 DEF ValidTensor, HaveShapes
<1>3. ToSet(ts) = {ts[j] : j \in DOMAIN ins}  BY DEF ToSet, HaveShapes
<1>4. (\A t \in ToSet(ts) : ValidTensor(t)) <=> \A j \in DOMAIN ins : ValidTensor(ts[j])  BY <1>3
<1> QED BY <1>1, <1>2, <1>4 DEF NoneEmpty

\* All shapes are alike if each of them is the result's.
LEMMA SameShapes ==
  ASSUME NEW ins \in Seq(Seq(Nat)), NEW shape \in Seq(Nat), NEW ts, ts \in Seq(ToSet(ts)), NEW out,
         HaveShapes(ts, out, ins, shape)
  PROVE  SameShape(Append(ts, out)) <=> PointwiseVerified(ins, shape)
<1> DEFINE all == Append(ts, out)
           N == Len(ts)
<1>1. N \in Nat /\ DOMAIN ts = 1 .. N /\ DOMAIN ins = 1 .. N  BY LenProperties DEF HaveShapes
<1>2. DOMAIN all = 1 .. N + 1 /\ all[N + 1] = out /\ \A j \in 1 .. N : all[j] = ts[j]  BY <1>1
<1>3. ToSet(ins) = {ins[j] : j \in 1 .. N}  BY <1>1 DEF ToSet
<1>4. all[N + 1].dims = shape /\ \A j \in 1 .. N : all[j].dims = ins[j]  BY <1>1, <1>2 DEF HaveShapes
<1>5. PointwiseVerified(ins, shape) <=> \A j \in 1 .. N : ins[j] = shape  BY <1>3 DEF PointwiseVerified
<1> HIDE DEF all, N
<1>6. SameShape(all) <=> \A i, j \in 1 .. N + 1 : all[i].dims = all[j].dims  BY <1>2 DEF SameShape
<1>7. \A i \in 1 .. N + 1 : i \in 1 .. N \/ i = N + 1  BY <1>1
<1>8. \A i \in 1 .. N : i \in 1 .. N + 1  BY <1>1
<1>9. N + 1 \in 1 .. N + 1  BY <1>1
<1>10. ASSUME SameShape(all) PROVE \A j \in 1 .. N : ins[j] = shape
  BY <1>4, <1>6, <1>8, <1>9, <1>10
<1>11. ASSUME \A j \in 1 .. N : ins[j] = shape PROVE SameShape(all)
  BY <1>4, <1>6, <1>7, <1>11
<1> QED BY <1>5, <1>10, <1>11 DEF all

LEMMA MatmulAgrees ==
  ASSUME NEW a \in Seq(Nat), NEW b \in Seq(Nat), NEW shape \in Seq(Nat), NEW ts, NEW out, NEW node,
         ts[1].dims = a, ts[2].dims = b, out.dims = shape, Len(shape) <= 3
  PROVE  MatmulValid(node, ts, out) <=> MatmulShapesVerified(a, b, shape)
<1>1. PICK n \in Nat : n = Len(shape)  OBVIOUS
<1>2. PICK m \in Nat : m = Len(a)  OBVIOUS
<1> DEFINE Products(i) == a[i] = b[i - 1] /\ shape[i - 1] = a[i - 1] /\ shape[i] = b[i]
           Batched(d) == a[d] = b[d] /\ shape[d] = a[d]
<1>3. MatmulValid(node, ts, out) <=>
        n \in {2, 3} /\ m = n /\ Len(b) = n /\ (n = 3 => Batched(1)) /\ Products(n)
  BY <1>1, <1>2 DEF MatmulValid
<1>4. MatmulShapesVerified(a, b, shape) <=>
        m >= 2 /\ Len(b) = m /\ n = m /\ (\A d \in 1 .. m - 2 : Batched(d)) /\ Products(m)
  BY <1>1, <1>2 DEF MatmulShapesVerified
<1>5. n <= 3  BY <1>1
<1> HIDE DEF Products, Batched
<1>6. CASE m = n /\ n \in {2, 3}
  <2>1. n = 2 => 1 .. m - 2 = {}  BY <1>6
  <2>2. n = 3 => 1 .. m - 2 = {1}  BY <1>6
  <2>3. (\A d \in 1 .. m - 2 : Batched(d)) <=> (n = 3 => Batched(1))  BY <1>6, <2>1, <2>2
  <2>4. m >= 2  BY <1>6
  <2> QED BY <1>3, <1>4, <1>6, <2>3, <2>4
<1>7. CASE ~(m = n /\ n \in {2, 3})
  <2>1. ~(m >= 2 /\ n = m)  BY <1>5, <1>7
  <2> QED BY <1>3, <1>4, <1>7, <2>1
<1> QED BY <1>6, <1>7

LEMMA BroadcastAgrees ==
  ASSUME NEW in \in Seq(Nat), NEW shape \in Seq(Nat), NEW ts, NEW out, NEW node,
         ts[1].dims = in, out.dims = shape
  PROVE  BroadcastValid(node, ts, out) <=> BroadcastVerified(in, shape)
<1>1. Len(in) = Len(shape) => (in # shape <=> \E d \in DOMAIN in : in[d] # shape[d])
  <2>1. ASSUME Len(in) = Len(shape), \A d \in 1 .. Len(in) : in[d] = shape[d]
        PROVE  in = shape
    BY <2>1, SeqEqual
  <2>2. DOMAIN in = 1 .. Len(in)  OBVIOUS
  <2> QED BY <2>1, <2>2
<1> QED BY <1>1 DEF BroadcastValid, BroadcastVerified

LEMMA TransposeAgrees ==
  ASSUME NEW in \in Seq(Nat), NEW shape \in Seq(Nat), NEW ts, NEW out, NEW node,
         ts[1].dims = in, out.dims = shape
  PROVE  TransposeValid(node, ts, out) <=> TransposeVerified(in, shape, node.attr)
BY DEF TransposeValid, TransposeVerified

\* Without an empty result, every limit is above its start.
LEMMA SliceAgrees ==
  ASSUME NEW in \in Seq(Nat), NEW shape \in Seq(Nat), NEW ts, NEW out, NEW node,
         ts[1].dims = in, out.dims = shape, \A d \in DOMAIN shape : shape[d] # 0,
         {node.attr.starts, node.attr.limits, node.attr.strides} \subseteq Seq(Int)
  PROVE  SliceValid(node, ts, out) <=> SliceVerified(in, shape, node.attr)
<1> DEFINE s == node.attr
           Same == Len(shape) = Len(in) /\ Len(s.starts) = Len(in) /\ Len(s.limits) = Len(in) /\ Len(s.strides) = Len(in)
           Extent(d) == shape[d] = IF s.limits[d] > s.starts[d]
                                   THEN 1 + (s.limits[d] - 1 - s.starts[d]) \div s.strides[d] ELSE 0
           Valid(d) == 0 <= s.starts[d] /\ s.starts[d] <= s.limits[d] /\ s.limits[d] <= in[d]
           Verified(d) == s.starts[d] \in 0 .. in[d] /\ s.limits[d] \in 0 .. in[d]
<1>1. SliceValid(node, ts, out) <=>
        Same /\ \A d \in DOMAIN in : Valid(d) /\ s.strides[d] > 0 /\ Extent(d)
  BY DEF SliceValid
<1>2. SliceVerified(in, shape, s) <=>
        Same /\ \A d \in DOMAIN in : Verified(d) /\ s.strides[d] > 0 /\ Extent(d)
  BY DEF SliceVerified
<1>3. ASSUME Same, NEW d \in DOMAIN in PROVE Extent(d) => (Valid(d) <=> Verified(d))
  <2>1. d \in 1 .. Len(in) /\ in[d] \in Nat /\ d \in DOMAIN shape /\ shape[d] # 0
    <3>1. Len(shape) = Len(in)  BY <1>3
    <3> QED BY <3>1
  <2>2. s.starts \in Seq(Int) /\ s.limits \in Seq(Int)  OBVIOUS
  <2>3. Len(s.starts) = Len(in) /\ Len(s.limits) = Len(in)  BY <1>3
  <2> HIDE DEF s
  <2>5. s.starts[d] \in Int /\ s.limits[d] \in Int  BY <2>1, <2>2, <2>3
  <2>4. Extent(d) => s.limits[d] > s.starts[d]  BY <2>1, <2>5
  <2> HIDE DEF Extent
  <2> QED BY <2>1, <2>4, <2>5
<1> HIDE DEF Same, Extent, Valid, Verified, s
<1> QED BY <1>1, <1>2, <1>3 DEF s

\* The sums of the extents along the dimension are those of the shapes.
LEMMA ConcatenateAgrees ==
  ASSUME NEW ins \in Seq(Seq(Nat)), NEW shape \in Seq(Nat), NEW ts, ts \in Seq(ToSet(ts)), NEW out, NEW node,
         HaveShapes(ts, out, ins, shape)
  PROVE  ConcatenateValid(node, ts, out) <=> ConcatenateVerified(ins, shape, node.attr)
<1> DEFINE first == ins[1]
           dim == node.attr
           total == SumOf([k \in DOMAIN ins |-> ins[k][dim]])
<1>1. PICK N \in Nat : N = Len(ins) /\ DOMAIN ins = 1 .. N  OBVIOUS
<1>2. DOMAIN ts = 1 .. N /\ Len(ts) = N
  BY <1>1, LenProperties DEF HaveShapes
<1>3. out.dims = shape /\ \A k \in 1 .. N : ts[k].dims = ins[k]  BY <1>1 DEF HaveShapes
<1>4. (ts # <<>> <=> N # 0) /\ (ins # <<>> <=> N # 0)  BY <1>1, <1>2, EmptySeq
<1>5. CASE N = 0
  BY <1>4, <1>5 DEF ConcatenateValid, ConcatenateVerified
<1>6. CASE N # 0
  <2>1. 1 \in 1 .. N  BY <1>6
  <2>2. first \in Seq(Nat) /\ ts[1].dims = first /\ first = ins[1]  BY <1>1, <1>3, <2>1
  <2>3. PICK r \in Nat : r = Len(first) /\ DOMAIN first = 1 .. r  BY <2>2
  <2>4. [k \in DOMAIN ts |-> ts[k].dims[dim]] = [k \in DOMAIN ins |-> ins[k][dim]]
    BY <1>1, <1>2, <1>3
  <2>5. ToSet(ins) = {ins[k] : k \in 1 .. N} /\ ToSet(ts) = {ts[k] : k \in 1 .. N}
    BY <1>1, <1>2 DEF ToSet
  <2> HIDE DEF first, total
  <2> DEFINE Alike(s) == Len(s) = r /\ \A d \in 1 .. r : d # dim => s[d] = first[d]
  <2>6. ConcatenateValid(node, ts, out) <=>
          dim \in 1 .. r /\ (\A k \in 1 .. N : Alike(ins[k])) /\ Alike(shape) /\ shape[dim] = total
    <3>1. ConcatenateValid(node, ts, out) <=>
            /\ ts # <<>> /\ dim \in DOMAIN first
            /\ \A t \in ToSet(ts) \cup {out} : Len(t.dims) = Len(first)
            /\ \A t \in ToSet(ts) \cup {out}, d \in DOMAIN first : d # dim => t.dims[d] = first[d]
            /\ out.dims[dim] = total
      BY <2>2, <2>4 DEF ConcatenateValid, total
    <3>2. (/\ \A t \in ToSet(ts) \cup {out} : Len(t.dims) = Len(first)
           /\ \A t \in ToSet(ts) \cup {out}, d \in DOMAIN first : d # dim => t.dims[d] = first[d]) <=>
          \A t \in ToSet(ts) \cup {out} : Alike(t.dims)
      BY <2>3
    <3>3. (\A t \in ToSet(ts) \cup {out} : Alike(t.dims)) <=> (\A k \in 1 .. N : Alike(ins[k])) /\ Alike(shape)
      <4> HIDE DEF Alike
      <4> QED BY <1>3, <2>5
    <3> HIDE DEF Alike
    <3> QED BY <1>3, <1>4, <1>6, <2>3, <3>1, <3>2, <3>3
  <2>7. ConcatenateVerified(ins, shape, dim) <=>
          /\ Len(shape) = r /\ dim \in 1 .. r /\ (\A k \in 1 .. N : Alike(ins[k]))
          /\ shape = Replaced(first, dim, total)
    <3>1. ConcatenateVerified(ins, shape, dim) <=>
            /\ ins # <<>> /\ Len(shape) = Len(first) /\ dim \in DOMAIN first
            /\ \A in \in ToSet(ins) : Len(in) = Len(first) /\ \A d \in DOMAIN in \ {dim} : in[d] = first[d]
            /\ shape = Replaced(first, dim, total)
      BY DEF ConcatenateVerified, first, total
    <3>2. ASSUME NEW k \in 1 .. N
          PROVE  (Len(ins[k]) = Len(first) /\ \A d \in DOMAIN ins[k] \ {dim} : ins[k][d] = first[d]) <=> Alike(ins[k])
      <4>1. ins[k] \in Seq(Nat) /\ DOMAIN ins[k] = 1 .. Len(ins[k])  BY <1>1
      <4> QED BY <2>3, <4>1
    <3>3. (\A in \in ToSet(ins) : Len(in) = Len(first) /\ \A d \in DOMAIN in \ {dim} : in[d] = first[d]) <=>
          \A k \in 1 .. N : Alike(ins[k])
      <4> DEFINE Along(s) == Len(s) = Len(first) /\ \A d \in DOMAIN s \ {dim} : s[d] = first[d]
      <4>1. (\A s \in ToSet(ins) : Along(s)) <=> \A k \in 1 .. N : Along(ins[k])
        <5> HIDE DEF Along
        <5> QED BY <2>5
      <4>2. \A k \in 1 .. N : Along(ins[k]) <=> Alike(ins[k])  BY <3>2
      <4> HIDE DEF Along, Alike
      <4>3. (\A s \in ToSet(ins) : Along(s)) <=> \A k \in 1 .. N : Alike(ins[k])  BY <4>1, <4>2
      <4> QED BY <4>3 DEF Along
    <3> HIDE DEF Alike
    <3> QED BY <1>4, <1>6, <2>3, <3>1, <3>3
  <2>8. ASSUME dim \in 1 .. r, Len(shape) = r
        PROVE  shape = Replaced(first, dim, total) <=>
               (\A d \in 1 .. r : d # dim => shape[d] = first[d]) /\ shape[dim] = total
    <3>1. DOMAIN shape = 1 .. r /\ shape = [d \in 1 .. r |-> shape[d]]  BY <2>8
    <3>2. Replaced(first, dim, total) = [d \in 1 .. r |-> IF d = dim THEN total ELSE first[d]]
      BY <2>3 DEF Replaced
    <3> QED BY <2>8, <3>1, <3>2
  <2> QED BY <2>6, <2>7, <2>8
<1> QED BY <1>5, <1>6

LEMMA InitialCardinality ==
  ASSUME NEW n \in Nat
  PROVE  IsFiniteSet(1 .. n) /\ Cardinality(1 .. n) = n
<1>1. 1 \in Int /\ n \in Int  OBVIOUS
<1>2. IsFiniteSet(1 .. n) /\ Cardinality(1 .. n) = IF 1 > n THEN 0 ELSE n - 1 + 1
  BY <1>1, FS_Interval
<1> QED BY <1>2

\* A shape that keeps the rank is not one whose reduced dimensions are dropped.
LEMMA ReduceAgrees ==
  ASSUME NEW in \in Seq(Nat), NEW shape \in Seq(Nat), NEW ts, NEW out, NEW node,
         ts[1].dims = in, out.dims = shape, Len(shape) = Len(in),
         node.attr.dims \in Seq(Int), node.attr.dims # <<>>
  PROVE  ReduceValid(node, ts, out) <=> ReduceVerified(in, shape, node.attr.dims)
<1> DEFINE dims == node.attr.dims
           ones == [d \in DOMAIN in |-> IF d \in ToSet(dims) THEN 1 ELSE in[d]]
           left == DOMAIN in \ ToSet(dims)
           kept == InOrder(left, LAMBDA d, e : d < e)
           dropped == [k \in DOMAIN kept |-> in[kept[k]]]
<1>1. PICK r \in Nat : r = Len(in) /\ DOMAIN in = 1 .. r /\ DOMAIN shape = 1 .. r  OBVIOUS
<1>2. ReduceValid(node, ts, out) <=>
        ToSet(dims) \subseteq 1 .. r /\ IsInjective(dims) /\ \A d \in 1 .. r : shape[d] = ones[d]
  BY <1>1 DEF ReduceValid
<1>3. (\A d \in 1 .. r : shape[d] = ones[d]) <=> shape = ones
  <2>1. DOMAIN ones = 1 .. r /\ ones = [d \in 1 .. r |-> ones[d]]  BY <1>1
  <2>2. shape = [d \in 1 .. r |-> shape[d]]  BY <1>1
  <2> HIDE DEF ones
  <2> QED BY <2>1, <2>2
<1>4. ASSUME ToSet(dims) \subseteq 1 .. r PROVE shape # dropped
  <2>1. left \subseteq 1 .. r /\ left # 1 .. r
    <3>1. 1 \in DOMAIN dims
      BY EmptySeq
    <3>2. dims[1] \in ToSet(dims)  BY <3>1 DEF ToSet
    <3> QED BY <1>1, <1>4, <3>2
  <2>2. IsFiniteSet(1 .. r) /\ Cardinality(1 .. r) = r
    BY InitialCardinality
  <2>3. IsFiniteSet(left) /\ Cardinality(left) < r
    <3> HIDE DEF left
    <3>1. left \in SUBSET (1 .. r)  BY <2>1
    <3>2. IsFiniteSet(left) /\ Cardinality(left) <= r /\ Cardinality(left) # r
      BY <2>1, <2>2, <3>1, FS_Subset
    <3>3. Cardinality(left) \in Nat  BY <3>2, FS_CardinalityType
    <3> QED BY <3>2, <3>3
  <2>4. PICK c \in Nat : c = Cardinality(left) /\ c < r
    BY <2>3, FS_CardinalityType
  <2> HIDE DEF left
  <2>5. DOMAIN kept = 1 .. c  BY <2>4 DEF InOrder
  <2> HIDE DEF kept
  <2>6. DOMAIN dropped = 1 .. c  BY <2>5
  <2>7. r \in 1 .. r /\ r \notin 1 .. c  BY <2>4
  <2> QED BY <1>1, <2>6, <2>7
<1>5. ReduceVerified(in, shape, dims) <=>
        ToSet(dims) \subseteq 1 .. r /\ IsInjective(dims) /\ (shape = ones \/ shape = dropped)
  BY <1>1 DEF ReduceVerified, ReductionDimensionsVerified, ReductionResultShapes
<1> HIDE DEF ones, dropped, dims
<1> QED BY <1>2, <1>3, <1>4, <1>5 DEF dims

LEMMA OneElement == Volume(<< 1 >>) = 1
<1>1. << 1 >> \in Seq(Int) /\ Len(<< 1 >>) = 1 /\ << 1 >>[1] = 1  OBVIOUS
<1> DEFINE s == << 1 >>
<1>2. s \in Seq(Int) /\ Len(s) = 1 /\ s[1] = 1  BY <1>1
<1> HIDE DEF s
<1>3. PICK p \in [0 .. Len(s) -> Int] :
        p[0] = 1 /\ (\A k \in 1 .. Len(s) : p[k] = p[k - 1] * s[k]) /\ p[Len(s)] = Product(s)
  BY <1>2, ProductPrefixes
<1>4. p[1] = p[0] * s[1]
  <2>1. 1 \in 1 .. Len(s) /\ 1 - 1 = 0  BY <1>2
  <2> QED BY <1>3, <2>1
<1>5. Product(s) = 1  BY <1>2, <1>3, <1>4
<1> QED BY <1>5 DEF Volume, s

\* What the reference interpreter computes of the operations, whatever their elements.
Supported(op, ins) ==
  /\ op.op = "reduce" => op.attr.dims # <<>> /\ Len(op.shape) = Len(ins[1])
  /\ op.op = "matmul" => Len(op.shape) <= 3 /\ Len(ins) = 2
  /\ op.op = "softplus_fwd" => op.attr # 0

Elementwise == UnaryPointwise \cup BinaryPointwise \cup ParametricUnaryPointwise \cup ParametricBinaryPointwise \cup
               {"convert", "cmp", "binary_select"}
Others == {"constant", "splat", "iota", "matmul", "concatenate", "slice", "reshape", "broadcast", "transpose", "reduce"}

LEMMA Arity ==
  ASSUME NEW op, NEW n \in Nat, n \in OperandCounts(op)
  PROVE  /\ op \in Elementwise \cup Others
         /\ op \in {"slice", "reshape", "broadcast", "transpose", "reduce", "splat"} => n = 1
         /\ op \notin {"concatenate", "matmul"} => n = NumOperands(op)
         /\ op = "matmul" => NumOperands(op) = 2 /\ n \in {2, 3}
<1>1. CASE op \in UnaryPointwise
  BY <1>1 DEF OperandCounts, NumOperands, Elementwise, UnaryPointwise
<1>2. CASE op \in ParametricUnaryPointwise
  BY <1>2 DEF OperandCounts, NumOperands, Elementwise, UnaryPointwise, ParametricUnaryPointwise
<1>3. CASE op \in BinaryPointwise
  BY <1>3 DEF OperandCounts, NumOperands, Elementwise, UnaryPointwise, ParametricUnaryPointwise, BinaryPointwise
<1>4. CASE op \in ParametricBinaryPointwise
  BY <1>4 DEF OperandCounts, NumOperands, Elementwise, UnaryPointwise, ParametricUnaryPointwise, ParametricBinaryPointwise
<1>5. CASE op \in Others \cup {"convert", "cmp", "binary_select"}
  BY <1>5 DEF OperandCounts, NumOperands, Elementwise, Others, UnaryPointwise, ParametricUnaryPointwise,
              BinaryPointwise, ParametricBinaryPointwise
<1>6. CASE op \notin Elementwise \cup Others
  BY <1>6 DEF OperandCounts, Elementwise, Others
<1> QED BY <1>1, <1>2, <1>3, <1>4, <1>5, <1>6 DEF Elementwise

\* A node of nonempty tensors with as many operands as it needs is valid if its class's checks hold.
LEMMA PointwiseChecks ==
  ASSUME NEW op, op.op \in Elementwise, NEW ts, NEW out,
         Len(ts) = NumOperands(op.op), \A t \in ToSet(ts) \cup {out} : ValidTensor(t),
         op.op = "softplus_fwd" => op.attr # 0
  PROVE  NodeValid(op, ts, out) <=> SameShape(Append(ts, out))
<1>1. CASE op.op \in ParametricUnaryPointwise
  BY <1>1 DEF NodeValid, ParametricUnaryPointwise, ParametricUnaryValid, PointwiseValid
<1>2. CASE op.op \in {"convert", "cmp", "binary_select"}
  BY <1>2 DEF NodeValid, ParametricUnaryPointwise, ConvertValid, CompareValid, SelectValid
<1>3. CASE op.op \in UnaryPointwise \cup BinaryPointwise
  BY <1>3 DEF NodeValid, ParametricUnaryPointwise, UnaryPointwise, BinaryPointwise, PointwiseValid
<1>4. CASE op.op \in ParametricBinaryPointwise
  BY <1>4 DEF NodeValid, ParametricUnaryPointwise, ParametricBinaryPointwise, PointwiseValid
<1> QED BY <1>1, <1>2, <1>3, <1>4 DEF Elementwise

LEMMA OtherChecks ==
  ASSUME NEW op, NEW ts, NEW out,
         op.op # "concatenate" => Len(ts) = NumOperands(op.op), \A t \in ToSet(ts) \cup {out} : ValidTensor(t)
  PROVE  /\ op.op = "constant"    => NodeValid(op, ts, out)
         /\ op.op = "splat"       => (NodeValid(op, ts, out) <=> SplatValid(op, ts, out))
         /\ op.op = "iota"        => (NodeValid(op, ts, out) <=> IotaValid(op, ts, out))
         /\ op.op = "matmul"      => (NodeValid(op, ts, out) <=> MatmulValid(op, ts, out))
         /\ op.op = "concatenate" => (NodeValid(op, ts, out) <=> ConcatenateValid(op, ts, out))
         /\ op.op = "slice"       => (NodeValid(op, ts, out) <=> SliceValid(op, ts, out))
         /\ op.op = "reshape"     => (NodeValid(op, ts, out) <=> ReshapeValid(op, ts, out))
         /\ op.op = "broadcast"   => (NodeValid(op, ts, out) <=> BroadcastValid(op, ts, out))
         /\ op.op = "transpose"   => (NodeValid(op, ts, out) <=> TransposeValid(op, ts, out))
         /\ op.op = "reduce"      => (NodeValid(op, ts, out) <=> ReduceValid(op, ts, out))
<1>1. ASSUME op.op = "constant" PROVE NodeValid(op, ts, out)
  BY <1>1 DEF NodeValid, ParametricUnaryPointwise
<1>2. ASSUME op.op = "splat" PROVE NodeValid(op, ts, out) <=> SplatValid(op, ts, out)
  BY <1>2 DEF NodeValid, ParametricUnaryPointwise
<1>3. ASSUME op.op = "iota" PROVE NodeValid(op, ts, out) <=> IotaValid(op, ts, out)
  BY <1>3 DEF NodeValid, ParametricUnaryPointwise
<1>4. ASSUME op.op = "matmul" PROVE NodeValid(op, ts, out) <=> MatmulValid(op, ts, out)
  BY <1>4 DEF NodeValid, ParametricUnaryPointwise
<1>5. ASSUME op.op = "concatenate" PROVE NodeValid(op, ts, out) <=> ConcatenateValid(op, ts, out)
  BY <1>5 DEF NodeValid, ParametricUnaryPointwise
<1>6. ASSUME op.op = "slice" PROVE NodeValid(op, ts, out) <=> SliceValid(op, ts, out)
  BY <1>6 DEF NodeValid, ParametricUnaryPointwise
<1>7. ASSUME op.op = "reshape" PROVE NodeValid(op, ts, out) <=> ReshapeValid(op, ts, out)
  BY <1>7 DEF NodeValid, ParametricUnaryPointwise
<1>8. ASSUME op.op = "broadcast" PROVE NodeValid(op, ts, out) <=> BroadcastValid(op, ts, out)
  BY <1>8 DEF NodeValid, ParametricUnaryPointwise
<1>9. ASSUME op.op = "transpose" PROVE NodeValid(op, ts, out) <=> TransposeValid(op, ts, out)
  BY <1>9 DEF NodeValid, ParametricUnaryPointwise
<1>10. ASSUME op.op = "reduce" PROVE NodeValid(op, ts, out) <=> ReduceValid(op, ts, out)
  BY <1>10 DEF NodeValid, ParametricUnaryPointwise
<1> QED BY <1>1, <1>2, <1>3, <1>4, <1>5, <1>6, <1>7, <1>8, <1>9, <1>10

LEMMA PointwiseVerification ==
  ASSUME NEW op, op.op \in Elementwise, NEW ins
  PROVE  GraphOpVerified(op, ins) <=> PointwiseVerified(ins, op.shape)
<1>1. CASE op.op \in UnaryPointwise \cup {"convert", "cmp", "binary_select"}
  BY <1>1 DEF GraphOpVerified, UnaryPointwise
<1>2. CASE op.op \in BinaryPointwise
  BY <1>2 DEF GraphOpVerified, BinaryPointwise
<1>3. CASE op.op \in ParametricUnaryPointwise \cup ParametricBinaryPointwise
  BY <1>3 DEF GraphOpVerified, ParametricUnaryPointwise, ParametricBinaryPointwise
<1> QED BY <1>1, <1>2, <1>3 DEF Elementwise

LEMMA OtherVerification ==
  ASSUME NEW op, NEW ins
  PROVE  /\ op.op = "constant"    => GraphOpVerified(op, ins)
         /\ op.op = "splat"       => GraphOpVerified(op, ins)
         /\ op.op = "iota"        => (GraphOpVerified(op, ins) <=> IotaVerified(op.shape, op.attr))
         /\ op.op = "matmul"      => (GraphOpVerified(op, ins) <=> MatmulVerified(ins, op.shape))
         /\ op.op = "concatenate" => (GraphOpVerified(op, ins) <=> ConcatenateVerified(ins, op.shape, op.attr))
         /\ op.op = "slice"       => (GraphOpVerified(op, ins) <=> SliceVerified(ins[1], op.shape, op.attr))
         /\ op.op = "reshape"     => (GraphOpVerified(op, ins) <=> ReshapeVerified(ins[1], op.shape))
         /\ op.op = "broadcast"   => (GraphOpVerified(op, ins) <=> BroadcastVerified(ins[1], op.shape))
         /\ op.op = "transpose"   => (GraphOpVerified(op, ins) <=> TransposeVerified(ins[1], op.shape, op.attr))
         /\ op.op = "reduce"      => (GraphOpVerified(op, ins) <=> ReduceVerified(ins[1], op.shape, op.attr.dims))
BY DEF GraphOpVerified

\* What the node of an operation validates is what the operation's verifier asks.
LEMMA NodeAgrees ==
  ASSUME NEW op, NEW ins \in Seq(Seq(Nat)), op.shape \in Seq(Nat), NEW ts, ts \in Seq(ToSet(ts)), NEW out,
         HaveShapes(ts, out, ins, op.shape), NoneEmpty(ins, op.shape),
         Len(ins) \in OperandCounts(op.op), IsAttribute(op.op, op.attr), Supported(op, ins),
         op.op = "splat" => ins[1] = << 1 >>
  PROVE  NodeValid(op, ts, out) <=> GraphOpVerified(op, ins)
<1>1. PICK n \in Nat : n = Len(ins) /\ n = Len(ts) /\ DOMAIN ins = 1 .. n
  BY LenProperties DEF HaveShapes
<1>2. /\ op.op \in Elementwise \cup Others
      /\ op.op \in {"slice", "reshape", "broadcast", "transpose", "reduce", "splat"} => n = 1
      /\ op.op \notin {"concatenate", "matmul"} => n = NumOperands(op.op)
      /\ op.op = "matmul" => NumOperands(op.op) = 2 /\ n = 2
  BY <1>1, Arity DEF Supported
<1>3. op.op # "concatenate" => Len(ts) = NumOperands(op.op)
  BY <1>1, <1>2
<1>4. \A t \in ToSet(ts) \cup {out} : ValidTensor(t)
  BY TensorsValid
<1>5. out.dims = op.shape /\ \A j \in 1 .. n : ins[j] \in Seq(Nat) /\ ts[j].dims = ins[j]
  <2>1. \A j \in 1 .. n : ins[j] \in Seq(Nat)  BY <1>1, ElementOfSeq
  <2> QED BY <1>1, <2>1 DEF HaveShapes
<1>6. n = 1 => ins[1] \in Seq(Nat) /\ ts[1].dims = ins[1]
  BY <1>5
<1>7. CASE op.op \in Elementwise
  <2>1. op.op # "concatenate"  BY <1>7 DEF Elementwise, UnaryPointwise, BinaryPointwise, ParametricUnaryPointwise, ParametricBinaryPointwise
  <2>2. NodeValid(op, ts, out) <=> SameShape(Append(ts, out))
    BY <1>3, <1>4, <1>7, <2>1, PointwiseChecks DEF Supported
  <2>3. SameShape(Append(ts, out)) <=> PointwiseVerified(ins, op.shape)
    BY SameShapes
  <2> QED BY <1>7, <2>2, <2>3, PointwiseVerification
<1>8. CASE op.op = "constant"
  BY <1>3, <1>4, <1>8, OtherChecks, OtherVerification
<1>9. CASE op.op = "splat"
  <2>1. ts[1].dims = << 1 >>  BY <1>2, <1>6, <1>9
  <2>2. SplatValid(op, ts, out)  BY <2>1, OneElement DEF SplatValid
  <2> QED BY <1>3, <1>4, <1>9, <2>2, OtherChecks, OtherVerification
<1>10. CASE op.op = "iota"
  <2>1. IotaValid(op, ts, out) <=> IotaVerified(op.shape, op.attr)  BY <1>5 DEF IotaValid, IotaVerified
  <2> QED BY <1>3, <1>4, <1>10, <2>1, OtherChecks, OtherVerification
<1>11. CASE op.op = "matmul"
  <2>1. n = 2 /\ Len(op.shape) <= 3  BY <1>2, <1>11 DEF Supported
  <2>2. /\ ins[1] \in Seq(Nat) /\ ts[1].dims = ins[1]
        /\ ins[2] \in Seq(Nat) /\ ts[2].dims = ins[2]
    BY <1>5, <2>1
  <2>3. MatmulValid(op, ts, out) <=> MatmulShapesVerified(ins[1], ins[2], op.shape)
    BY <1>5, <2>1, <2>2, MatmulAgrees
  <2>4. MatmulVerified(ins, op.shape) <=> MatmulShapesVerified(ins[1], ins[2], op.shape)
    BY <1>1, <2>1 DEF MatmulVerified
  <2> QED BY <1>3, <1>4, <1>11, <2>3, <2>4, OtherChecks, OtherVerification
<1>12. CASE op.op = "concatenate"
  <2>1. ConcatenateValid(op, ts, out) <=> ConcatenateVerified(ins, op.shape, op.attr)
    BY ConcatenateAgrees
  <2> QED BY <1>3, <1>4, <1>12, <2>1, OtherChecks, OtherVerification
<1>13. CASE op.op = "slice"
  <2>1. {op.attr.starts, op.attr.limits, op.attr.strides} \subseteq Seq(Int)
    BY <1>13 DEF IsAttribute
  <2>2. \A d \in DOMAIN op.shape : op.shape[d] # 0  BY DEF NoneEmpty
  <2>3. SliceValid(op, ts, out) <=> SliceVerified(ins[1], op.shape, op.attr)
    BY <1>2, <1>5, <1>6, <1>13, <2>1, <2>2, SliceAgrees
  <2> QED BY <1>3, <1>4, <1>13, <2>3, OtherChecks, OtherVerification
<1>14. CASE op.op = "reshape"
  <2>1. ReshapeValid(op, ts, out) <=> ReshapeVerified(ins[1], op.shape)
    BY <1>2, <1>5, <1>6, <1>14 DEF ReshapeValid, ReshapeVerified
  <2> QED BY <1>3, <1>4, <1>14, <2>1, OtherChecks, OtherVerification
<1>15. CASE op.op = "broadcast"
  <2>1. BroadcastValid(op, ts, out) <=> BroadcastVerified(ins[1], op.shape)
    BY <1>2, <1>5, <1>6, <1>15, BroadcastAgrees
  <2> QED BY <1>3, <1>4, <1>15, <2>1, OtherChecks, OtherVerification
<1>16. CASE op.op = "transpose"
  <2>1. TransposeValid(op, ts, out) <=> TransposeVerified(ins[1], op.shape, op.attr)
    BY <1>2, <1>5, <1>6, <1>16, TransposeAgrees
  <2> QED BY <1>3, <1>4, <1>16, <2>1, OtherChecks, OtherVerification
<1>17. CASE op.op = "reduce"
  <2>1. op.attr.dims \in Seq(Int)  BY <1>17 DEF IsAttribute
  <2>2. op.attr.dims # <<>> /\ Len(op.shape) = Len(ins[1])  BY <1>17 DEF Supported
  <2>3. ReduceValid(op, ts, out) <=> ReduceVerified(ins[1], op.shape, op.attr.dims)
    BY <1>2, <1>5, <1>6, <1>17, <2>1, <2>2, ReduceAgrees
  <2> QED BY <1>3, <1>4, <1>17, <2>3, OtherChecks, OtherVerification
<1> QED BY <1>2, <1>7, <1>8, <1>9, <1>10, <1>11, <1>12, <1>13, <1>14, <1>15, <1>16, <1>17 DEF Others

-----------------------------------------------------------------------------
(* A graph: the reference's nodes and the verifiers accept the same ones.  *)

\* The tensors of the operands of operation k, and the shapes that its verifier sees.
OperandTensors(tensors, k) == [j \in DOMAIN graph.ops[k].ins |-> tensors[graph.ops[k].ins[j]]]
OperandShapesOf(k) == [j \in DOMAIN graph.ops[k].ins |-> ShapeOf(graph, graph.ops[k].ins[j])]

\* The node of operation k has tensors and they are valid.
NodeAccepted(tensors, k) ==
  /\ 1 .. NumArgs(graph) + k \subseteq DOMAIN tensors
  /\ NodeValid(graph.ops[k], OperandTensors(tensors, k), tensors[NumArgs(graph) + k])
NodeRefused(tensors, k) ==
  /\ 1 .. NumArgs(graph) + k \subseteq DOMAIN tensors
  /\ ~NodeValid(graph.ops[k], OperandTensors(tensors, k), tensors[NumArgs(graph) + k])

\* A representable operation is one that the reference computes unless it divides by 0.
Representable(k) ==
  /\ Supported(graph.ops[k], OperandShapesOf(k))
  /\ NoneEmpty(OperandShapesOf(k), graph.ops[k].shape)

LEMMA OperandsOfNode ==
  ASSUME IsGraph(graph), NEW k \in 1 .. Len(graph.ops), NEW tensors, TensorsOf(tensors),
         1 .. NumArgs(graph) + k \subseteq DOMAIN tensors
  PROVE  LET op == graph.ops[k]
             shapes == [j \in DOMAIN op.ins |-> TensorShape(op.ins[j])]
             ts == OperandTensors(tensors, k)
             out == tensors[NumArgs(graph) + k]
         IN  /\ shapes \in Seq(Seq(Nat)) /\ Len(shapes) = Len(op.ins) /\ op.shape \in Seq(Nat)
             /\ ts \in Seq(ToSet(ts)) /\ HaveShapes(ts, out, shapes, op.shape)
             /\ op.op = "splat" => \A j \in DOMAIN op.ins : shapes[j] = << 1 >>
             /\ op.op # "splat" => shapes = OperandShapesOf(k)
<1> DEFINE op == graph.ops[k]
           shapes == [j \in DOMAIN op.ins |-> TensorShape(op.ins[j])]
           ts == OperandTensors(tensors, k)
           v == NumArgs(graph) + k
           out == tensors[v]
<1>1. /\ NumArgs(graph) \in Nat /\ v \in Values(graph) /\ ~IsArg(graph, v)
      /\ ShapeOf(graph, v) = op.shape
  BY GraphParts
<1>2. /\ op.ins \in Seq(1 .. v - 1)
      /\ \A j \in DOMAIN op.ins :
            /\ op.ins[j] \in 1 .. v - 1 /\ op.ins[j] \in Values(graph)
            /\ IsScalarArg(graph, op.ins[j]) <=> op.op = "splat"
  <2>1. NumArgs(graph) + k - 1 = v - 1  BY <1>1
  <2> HIDE DEF v
  <2> QED BY <2>1, OperandsDefined
<1>3. PICK n \in Nat : n = Len(op.ins) /\ DOMAIN op.ins = 1 .. n
  BY <1>2, LenProperties
<1>4. ASSUME NEW j \in 1 .. n
      PROVE  /\ TensorShape(op.ins[j]) \in Seq(Nat)
             /\ op.op = "splat" => TensorShape(op.ins[j]) = << 1 >>
             /\ op.op # "splat" => TensorShape(op.ins[j]) = ShapeOf(graph, op.ins[j])
             /\ IsTensorOf(tensors[op.ins[j]], op.ins[j])
  <2>1. /\ op.ins[j] \in Values(graph) /\ op.ins[j] \in 1 .. v - 1
        /\ IsScalarArg(graph, op.ins[j]) <=> op.op = "splat"
    BY <1>2, <1>3
  <2>2. op.ins[j] \in DOMAIN tensors  BY <1>1, <2>1
  <2>3. IsTensorOf(tensors[op.ins[j]], op.ins[j])  BY <2>2 DEF TensorsOf
  <2> QED BY <2>1, <2>3, TensorShapes
<1>5. shapes \in Seq(Seq(Nat)) /\ Len(shapes) = n
  <2> DEFINE E == Seq(Nat)
  <2>1. shapes \in [1 .. n -> E]  BY <1>3, <1>4
  <2> HIDE DEF E, shapes
  <2>2. shapes \in Seq(E) /\ Len(shapes) = n  BY <2>1, FunctionIsSeq
  <2> QED BY <2>2 DEF E
<1>6. ts \in Seq(ToSet(ts))
  <2> DEFINE E == ToSet(ts)
  <2>1. ts \in [1 .. n -> E]
    <3>1. ts = [j \in 1 .. n |-> tensors[op.ins[j]]]  BY <1>3 DEF OperandTensors
    <3>2. DOMAIN ts = 1 .. n /\ \A j \in 1 .. n : ts[j] \in E  BY <3>1 DEF ToSet
    <3>3. ts = [j \in 1 .. n |-> ts[j]]  BY <3>1
    <3> HIDE DEF ts, E
    <3> QED BY <3>2, <3>3
  <2> HIDE DEF E, ts
  <2>2. ts \in Seq(E)  BY <2>1, FunctionIsSeq
  <2> QED BY <2>2 DEF E
<1>7. HaveShapes(ts, out, shapes, op.shape)
  <2>1. IsTensorOf(out, v)  BY <1>1 DEF TensorsOf
  <2>2. TensorShape(v) = op.shape  BY <1>1, TensorShapes DEF IsScalarArg
  <2>3. DOMAIN ts = 1 .. n /\ DOMAIN shapes = 1 .. n
        /\ \A j \in 1 .. n : ts[j] = tensors[op.ins[j]] /\ shapes[j] = TensorShape(op.ins[j])
    BY <1>3 DEF OperandTensors
  <2> HIDE DEF ts, shapes, out
  <2>4. out.dims = op.shape /\ \A d \in DOMAIN op.shape : out.strides[d] \in Nat
    BY <2>1, <2>2 DEF IsTensorOf
  <2>5. ASSUME NEW j \in 1 .. n
        PROVE  ts[j].dims = shapes[j] /\ \A d \in DOMAIN shapes[j] : ts[j].strides[d] \in Nat
    BY <1>4, <2>3 DEF IsTensorOf
  <2> QED BY <2>3, <2>4, <2>5 DEF HaveShapes
<1>8. op.shape \in Seq(Nat)  BY <1>1, ShapesAreShapes
<1>9. op.op = "splat" => \A j \in DOMAIN op.ins : shapes[j] = << 1 >>  BY <1>3, <1>4
<1>10. op.op # "splat" => shapes = OperandShapesOf(k)  BY <1>3, <1>4 DEF OperandShapesOf
<1> QED BY <1>3, <1>5, <1>6, <1>7, <1>8, <1>9, <1>10

LEMMA VerifiersAgree ==
  ASSUME IsGraph(graph), NEW k \in 1 .. Len(graph.ops), Representable(k), NEW tensors, TensorsOf(tensors),
         1 .. NumArgs(graph) + k \subseteq DOMAIN tensors
  PROVE  NodeValid(graph.ops[k], OperandTensors(tensors, k), tensors[NumArgs(graph) + k]) <=>
         GraphOpVerified(graph.ops[k], OperandShapesOf(k))
<1> DEFINE op == graph.ops[k]
           shapes == [j \in DOMAIN op.ins |-> TensorShape(op.ins[j])]
           ts == OperandTensors(tensors, k)
           out == tensors[NumArgs(graph) + k]
<1>1. /\ shapes \in Seq(Seq(Nat)) /\ Len(shapes) = Len(op.ins) /\ op.shape \in Seq(Nat)
      /\ ts \in Seq(ToSet(ts)) /\ HaveShapes(ts, out, shapes, op.shape)
      /\ op.op = "splat" => \A j \in DOMAIN op.ins : shapes[j] = << 1 >>
      /\ op.op # "splat" => shapes = OperandShapesOf(k)
  BY OperandsOfNode
<1>2. Len(op.ins) \in Nat /\ Len(op.ins) \in OperandCounts(op.op) /\ IsAttribute(op.op, op.attr)
  <2>1. IsOperation(graph, NumArgs(graph) + k) /\ Op(graph, NumArgs(graph) + k) = op  BY GraphParts
  <2>2. op.ins \in Seq(1 .. NumArgs(graph) + k - 1)  BY OperandsDefined
  <2> QED BY <2>1, <2>2 DEF IsOperation
<1>3. DOMAIN shapes = DOMAIN op.ins  OBVIOUS
<1> HIDE DEF shapes, ts, out, op
<1>4. CASE op.op = "splat"
  <2>1. Len(op.ins) = 1  BY <1>2, <1>4, Arity
  <2>2. DOMAIN shapes = {1}  BY <1>1, <2>1
  <2>3. shapes[1] = << 1 >>  BY <1>1, <1>3, <1>4, <2>2
  <2>4. \A d \in DOMAIN shapes[1] : shapes[1][d] # 0
    <3>1. DOMAIN shapes[1] = {1} /\ shapes[1][1] = 1  BY <2>3
    <3> QED BY <3>1
  <2>5. NoneEmpty(shapes, op.shape)  BY <2>2, <2>4 DEF NoneEmpty, Representable, op
  <2>6. Supported(op, shapes)  BY <1>4 DEF Supported
  <2>7. NodeValid(op, ts, out) <=> GraphOpVerified(op, shapes)
    BY <1>1, <1>2, <2>3, <2>5, <2>6, NodeAgrees
  <2>8. GraphOpVerified(op, shapes) /\ GraphOpVerified(op, OperandShapesOf(k))
    BY <1>4, OtherVerification
  <2> QED BY <2>7, <2>8 DEF op, ts, out
<1>5. CASE op.op # "splat"
  <2>1. Supported(op, shapes) /\ NoneEmpty(shapes, op.shape)  BY <1>1, <1>5 DEF Representable, op
  <2>2. NodeValid(op, ts, out) <=> GraphOpVerified(op, shapes)
    BY <1>1, <1>2, <1>5, <2>1, NodeAgrees
  <2> QED BY <1>1, <1>5, <2>2 DEF op, ts, out
<1> QED BY <1>4, <1>5

\* What BeyondReference leaves.
LEMMA NotBeyond ==
  ASSUME IsGraph(graph), NEW k \in 1 .. Len(graph.ops), ~BeyondReference(graph.ops[k])
  PROVE  Representable(k) /\ ~DividesByZero(graph.ops[k])
<1> DEFINE op == graph.ops[k]
           shapes == OperandShapesOf(k)
<1>1. op.shape \in Seq(Nat)  BY GraphParts, ShapesAreShapes
<1>2. op.ins \in Seq(1 .. NumArgs(graph) + k - 1) /\ Len(op.ins) \in Nat
      /\ \A j \in DOMAIN op.ins : op.ins[j] \in Values(graph)
  BY OperandsDefined
<1>3. Len(op.ins) \in OperandCounts(op.op)
  <2>1. IsOperation(graph, NumArgs(graph) + k) /\ Op(graph, NumArgs(graph) + k) = op  BY GraphParts
  <2> QED BY <2>1 DEF IsOperation
<1>4. DOMAIN shapes = DOMAIN op.ins /\ \A j \in DOMAIN op.ins : shapes[j] = ShapeOf(graph, op.ins[j])
  BY DEF OperandShapesOf
<1>5. Len(shapes) = Len(op.ins)
  <2> DEFINE E == Seq(Nat)
  <2>1. \A j \in DOMAIN op.ins : ShapeOf(graph, op.ins[j]) \in E  BY <1>2, ShapesAreShapes
  <2>2. DOMAIN op.ins = 1 .. Len(op.ins)  BY <1>2
  <2>3. shapes \in [1 .. Len(op.ins) -> E]  BY <2>1, <2>2 DEF OperandShapesOf
  <2> HIDE DEF E, shapes, op
  <2> QED BY <1>2, <2>3, FunctionIsSeq
<1> HIDE DEF shapes, op
<1>6. ~BeyondReference(op)  BY DEF op
<1>7. ASSUME op.op = "reduce" PROVE op.attr.dims # <<>> /\ Len(op.shape) = Len(shapes[1])
  <2>1. Len(op.ins) = 1  BY <1>2, <1>3, <1>7, Arity
  <2>2. 1 \in DOMAIN op.ins  BY <1>2, <2>1
  <2>3. shapes[1] = ShapeOf(graph, op.ins[1])  BY <1>4, <2>2
  <2> QED BY <1>6, <1>7, <2>3 DEF BeyondReference
<1>8. ASSUME op.op = "matmul" PROVE Len(op.shape) <= 3 /\ Len(shapes) = 2
  <2>1. ~(Len(op.shape) > 3) /\ Len(op.ins) = 2  BY <1>6, <1>8 DEF BeyondReference
  <2> QED BY <1>1, <1>5, <2>1
<1>9. op.op = "softplus_fwd" => op.attr # 0  BY <1>6 DEF BeyondReference
<1>10. Supported(op, shapes)  BY <1>7, <1>8, <1>9 DEF Supported
<1>11. 0 \notin ToSet(op.shape) /\ \A j \in DOMAIN op.ins : 0 \notin ToSet(ShapeOf(graph, op.ins[j]))
  BY <1>6 DEF BeyondReference, ToSet
<1>12. NoneEmpty(shapes, op.shape)  BY <1>4, <1>11 DEF NoneEmpty, ToSet
<1>13. ~DividesByZero(op)  BY <1>6 DEF BeyondReference
<1> QED BY <1>10, <1>12, <1>13 DEF Representable, op, shapes

-----------------------------------------------------------------------------
(* The inductive invariant: which tensors and nodes there are, what a      *)
(* failure of the reference says, and what a rejection says.               *)

ReferenceTensors ==
  /\ TensorsOf(refTensors)
  /\ refTensors # <<>> => 1 .. NumArgs(graph) \subseteq DOMAIN refTensors

ReferenceNodes ==
  /\ refNodes \in 0 .. Len(graph.ops) /\ refComputed \in 0 .. refNodes
  /\ \A k \in 1 .. refNodes : NodeAccepted(refTensors, k)

ReferenceEnds ==
  /\ refStatus \in {"executing", "done"} => refNodes = Len(graph.ops)
  /\ refStatus = "failed" =>
       \/ refNodes < Len(graph.ops) /\ NodeRefused(refTensors, refNodes + 1)
       \/ refNodes = Len(graph.ops) /\ \E k \in 1 .. Len(graph.ops) : DividesByZero(graph.ops[k])

CompilerVerifies ==
  /\ compileStatus = "rejected" => ~GraphVerified(graph)
  /\ compileStatus \notin {"parsed", "rejected"} => GraphVerified(graph)

AgreementInv == graph \in Graphs /\ ReferenceTensors /\ ReferenceNodes /\ ReferenceEnds /\ CompilerVerifies

LEMMA AgreementInit == VerifierInit => AgreementInv
<1> SUFFICES ASSUME VerifierInit PROVE AgreementInv
  OBVIOUS
<1>1. /\ graph \in Graphs /\ refTensors = <<>> /\ refNodes = 0 /\ refComputed = 0
      /\ refStatus = "building" /\ compileStatus = "parsed"
  BY DEF VerifierInit, RefInit
<1>2. IsGraph(graph) /\ Len(graph.ops) \in Nat  BY <1>1, GraphsAssumption, GraphParts
<1>3. ReferenceTensors
  <2>1. DOMAIN refTensors = {}  BY <1>1
  <2> QED BY <1>1, <2>1 DEF ReferenceTensors, TensorsOf
<1>4. ReferenceNodes  BY <1>1, <1>2 DEF ReferenceNodes
<1>5. ReferenceEnds /\ CompilerVerifies  BY <1>1 DEF ReferenceEnds, CompilerVerifies
<1> QED BY <1>1, <1>3, <1>4, <1>5 DEF AgreementInv

\* Further tensors leave the earlier nodes as they were.
LEMMA NodesStay ==
  ASSUME IsGraph(graph), NEW before, NEW after, NEW k \in 1 .. Len(graph.ops), NodeAccepted(before, k),
         DOMAIN before \subseteq DOMAIN after, \A w \in DOMAIN before : after[w] = before[w]
  PROVE  NodeAccepted(after, k)
<1>1. NumArgs(graph) \in Nat  BY GraphParts
<1>2. \A j \in DOMAIN graph.ops[k].ins : graph.ops[k].ins[j] \in 1 .. NumArgs(graph) + k - 1
  BY OperandsDefined
<1>3. 1 .. NumArgs(graph) + k \subseteq DOMAIN before  BY DEF NodeAccepted
<1>4. NumArgs(graph) + k \in DOMAIN before  BY <1>1, <1>3
<1>5. \A w \in 1 .. NumArgs(graph) + k - 1 : w \in DOMAIN before  BY <1>1, <1>3
<1>6. OperandTensors(after, k) = OperandTensors(before, k)
  BY <1>2, <1>5 DEF OperandTensors
<1> QED BY <1>3, <1>4, <1>6 DEF NodeAccepted

\* No node is created before the arguments have tensors.
LEMMA NodesNeedTensors ==
  ASSUME AgreementInv, IsGraph(graph), refTensors = <<>>
  PROVE  refNodes = 0 /\ refComputed = 0
<1>1. NumArgs(graph) \in Nat /\ Len(graph.ops) \in Nat  BY GraphParts
<1>2. /\ refNodes \in 0 .. Len(graph.ops) /\ refComputed \in 0 .. refNodes
      /\ \A k \in 1 .. refNodes : NodeAccepted(refTensors, k)
  BY DEF AgreementInv, ReferenceNodes
<1>3. ASSUME refNodes # 0 PROVE FALSE
  <2>1. NodeAccepted(refTensors, refNodes)  BY <1>1, <1>2, <1>3
  <2>2. NumArgs(graph) + refNodes \in DOMAIN refTensors  BY <1>1, <1>2, <1>3, <2>1 DEF NodeAccepted
  <2> QED BY <2>2
<1> QED BY <1>1, <1>2, <1>3

LEMMA CreateIOTensorKeeps == AgreementInv /\ CreateIOTensor /\ UNCHANGED compileStatus => AgreementInv'
<1> SUFFICES ASSUME AgreementInv, CreateIOTensor, compileStatus' = compileStatus PROVE AgreementInv'
  OBVIOUS
<1>1. /\ refTensors = <<>> /\ refTensors' = IOTensors
      /\ refStatus' = IF graph.ops = <<>> THEN "done" ELSE "building"
      /\ graph' = graph /\ refNodes' = refNodes /\ refComputed' = refComputed
  BY DEF CreateIOTensor
<1>2. graph \in Graphs /\ IsGraph(graph)  BY GraphsAssumption DEF AgreementInv
<1>3. refNodes = 0 /\ refComputed = 0  BY <1>1, <1>2, NodesNeedTensors
<1>4. TensorsOf(IOTensors) /\ 1 .. NumArgs(graph) \subseteq DOMAIN IOTensors  BY <1>2, IOTensorsOfGraph
<1>5. ReferenceTensors'
  BY <1>1, <1>4 DEF ReferenceTensors, TensorsOf, IsTensorOf, TensorShape
<1>6. ReferenceNodes'
  BY <1>1, <1>2, <1>3, GraphParts DEF ReferenceNodes
<1>7. ReferenceEnds'
  <2>1. graph.ops = <<>> => Len(graph.ops) = 0  OBVIOUS
  <2> QED BY <1>1, <1>3, <2>1 DEF ReferenceEnds
<1>8. CompilerVerifies'  BY <1>1 DEF AgreementInv, CompilerVerifies
<1> QED BY <1>1, <1>2, <1>5, <1>6, <1>7, <1>8 DEF AgreementInv

LEMMA CreateNodeKeeps == AgreementInv /\ CreateNode /\ UNCHANGED compileStatus => AgreementInv'
<1> SUFFICES ASSUME AgreementInv, CreateNode, compileStatus' = compileStatus PROVE AgreementInv'
  OBVIOUS
<1> DEFINE k == refNodes + 1
           v == NumArgs(graph) + refNodes + 1
           tensors == GetOrCreate(refTensors, v, <<>>)
           valid == NodeValid(graph.ops[k], OperandTensors(tensors, k), tensors[v])
<1>1. /\ refStatus = "building" /\ refTensors # <<>> /\ refNodes < Len(graph.ops)
      /\ graph' = graph /\ refComputed' = refComputed /\ refTensors' = tensors
      /\ valid => refNodes' = k /\ refStatus' = IF k = Len(graph.ops) THEN "executing" ELSE "building"
      /\ ~valid => refNodes' = refNodes /\ refStatus' = "failed"
  BY DEF CreateNode, OperandTensors
<1>2. graph \in Graphs /\ IsGraph(graph)  BY GraphsAssumption DEF AgreementInv
<1>3. /\ NumArgs(graph) \in Nat /\ Len(graph.ops) \in Nat
      /\ refNodes \in 0 .. Len(graph.ops) /\ refComputed \in 0 .. refNodes
      /\ \A i \in 1 .. refNodes : NodeAccepted(refTensors, i)
      /\ TensorsOf(refTensors) /\ 1 .. NumArgs(graph) \subseteq DOMAIN refTensors
  BY <1>1, <1>2, GraphParts DEF AgreementInv, ReferenceTensors, ReferenceNodes
<1>4. k \in 1 .. Len(graph.ops) /\ v = NumArgs(graph) + k  BY <1>1, <1>3
<1>5. v \in Values(graph)  BY <1>2, <1>4, GraphParts
<1>6. /\ TensorsOf(tensors) /\ DOMAIN tensors = DOMAIN refTensors \cup {v}
      /\ \A w \in DOMAIN refTensors : tensors[w] = refTensors[w]
  BY <1>2, <1>3, <1>5, GetOrCreateKeeps
<1> HIDE DEF tensors, valid
<1>7. 1 .. NumArgs(graph) + refNodes \subseteq DOMAIN refTensors
  <2>1. CASE refNodes = 0  BY <1>3, <2>1
  <2>2. CASE refNodes # 0
    <3>1. refNodes \in 1 .. refNodes  BY <1>3, <2>2
    <3> QED BY <1>3, <3>1 DEF NodeAccepted
  <2> QED BY <2>1, <2>2
<1>8. 1 .. NumArgs(graph) + k \subseteq DOMAIN tensors
  <2>1. \A w \in 1 .. NumArgs(graph) + k : w \in 1 .. NumArgs(graph) + refNodes \/ w = v
    BY <1>3, <1>4
  <2> QED BY <1>6, <1>7, <2>1
<1>9. \A i \in 1 .. refNodes : NodeAccepted(tensors, i)
  <2> TAKE i \in 1 .. refNodes
  <2>1. i \in 1 .. Len(graph.ops) /\ NodeAccepted(refTensors, i)  BY <1>3
  <2> QED BY <1>2, <1>6, <2>1, NodesStay
<1>10. valid => NodeAccepted(tensors, k)  BY <1>4, <1>8 DEF NodeAccepted, valid
<1>11. ~valid => NodeRefused(tensors, k)  BY <1>4, <1>8 DEF NodeRefused, valid
<1>12. ReferenceTensors'
  <2>1. 1 .. NumArgs(graph) \subseteq DOMAIN tensors  BY <1>3, <1>6
  <2> QED BY <1>1, <1>6, <2>1 DEF ReferenceTensors, TensorsOf, IsTensorOf, TensorShape
<1>13. ReferenceNodes'
  <2>1. CASE valid
    <3>1. refNodes' = k /\ k \in 0 .. Len(graph.ops) /\ refComputed \in 0 .. k  BY <1>1, <1>3, <1>4, <2>1
    <3>2. \A i \in 1 .. k : NodeAccepted(tensors, i)
      <4>1. \A i \in 1 .. k : i \in 1 .. refNodes \/ i = k  BY <1>3
      <4> QED BY <1>9, <1>10, <2>1, <4>1
    <3> QED BY <1>1, <3>1, <3>2 DEF ReferenceNodes, NodeAccepted, OperandTensors
  <2>2. CASE ~valid
    BY <1>1, <1>3, <1>9, <2>2 DEF ReferenceNodes, NodeAccepted, OperandTensors
  <2> QED BY <2>1, <2>2
<1>14. ReferenceEnds'
  <2>1. CASE valid
    BY <1>1, <2>1 DEF ReferenceEnds
  <2>2. CASE ~valid
    BY <1>1, <1>11, <2>2 DEF ReferenceEnds, NodeRefused, OperandTensors
  <2> QED BY <2>1, <2>2
<1>15. CompilerVerifies'  BY <1>1 DEF AgreementInv, CompilerVerifies
<1> QED BY <1>1, <1>2, <1>12, <1>13, <1>14, <1>15 DEF AgreementInv

\* A quotient's operands have its shape, so a divisor that is 0 is one of the second operand's elements.
LEMMA DivisorElements ==
  ASSUME IsGraph(graph), NEW k \in 1 .. Len(graph.ops), NEW tensors, NodeAccepted(tensors, k),
         graph.ops[k].op \in {"div", "mod", "rem"}
  PROVE  Elements(tensors[graph.ops[k].ins[2]]) = Elements(tensors[NumArgs(graph) + k])
<1> DEFINE op == graph.ops[k]
           ts == OperandTensors(tensors, k)
           out == tensors[NumArgs(graph) + k]
           all == Append(ts, out)
<1>1. PICK n \in Nat : n = Len(op.ins) /\ DOMAIN op.ins = 1 .. n /\ n \in OperandCounts(op.op)
  <2>1. IsOperation(graph, NumArgs(graph) + k) /\ Op(graph, NumArgs(graph) + k) = op  BY GraphParts
  <2>2. op.ins \in Seq(1 .. NumArgs(graph) + k - 1)  BY OperandsDefined
  <2> QED BY <2>1, <2>2, LenProperties DEF IsOperation
<1>2. op.op \in BinaryPointwise /\ op.op \in Elementwise  BY DEF BinaryPointwise, Elementwise
<1>3. n = 2
  BY <1>1, <1>2 DEF OperandCounts, BinaryPointwise, UnaryPointwise, ParametricUnaryPointwise
<1>4. ts \in [1 .. 2 -> {tensors[op.ins[j]] : j \in 1 .. 2}] /\ ts[2] = tensors[op.ins[2]]
  BY <1>1, <1>3 DEF OperandTensors
<1>5. Len(ts) = 2 /\ ts \in Seq({tensors[op.ins[j]] : j \in 1 .. 2})
  <2> DEFINE E == {tensors[op.ins[j]] : j \in 1 .. 2}
  <2> HIDE DEF E
  <2> QED BY <1>4, FunctionIsSeq DEF E
<1>6. SameShape(all)
  <2>1. NodeValid(op, ts, out)  BY DEF NodeAccepted
  <2>2. Len(ts) = NumOperands(op.op) /\ \A t \in ToSet(ts) \cup {out} : ValidTensor(t)
    <3>1. op.op # "concatenate"  OBVIOUS
    <3> HIDE DEF op, ts, out
    <3> QED BY <2>1, <3>1 DEF NodeValid
  <2>3. op.op # "softplus_fwd"  OBVIOUS
  <2> HIDE DEF op, ts, out
  <2> QED BY <1>2, <2>1, <2>2, <2>3, PointwiseChecks
<1> HIDE DEF ts, out
<1>7. DOMAIN all = 1 .. 3 /\ all[2] = ts[2] /\ all[3] = out
  <2>1. PICK E : ts \in Seq(E)  BY <1>5
  <2>2. Len(ts) = 2  BY <1>5
  <2>3. DOMAIN all = 1 .. Len(ts) + 1 /\ all[Len(ts) + 1] = out /\ \A j \in 1 .. Len(ts) : all[j] = ts[j]
    BY <2>1
  <2> HIDE DEF all
  <2> QED BY <2>2, <2>3
<1>8. all[2].dims = all[3].dims
  <2>1. 2 \in DOMAIN all /\ 3 \in DOMAIN all  BY <1>7
  <2> HIDE DEF all
  <2> QED BY <1>6, <2>1 DEF SameShape
<1>9. tensors[op.ins[2]].dims = tensors[NumArgs(graph) + k].dims  BY <1>4, <1>7, <1>8 DEF out
<1> QED BY <1>9 DEF Elements

LEMMA ComputeNodeKeeps == AgreementInv /\ ComputeNode /\ UNCHANGED compileStatus => AgreementInv'
<1> SUFFICES ASSUME AgreementInv, ComputeNode, compileStatus' = compileStatus PROVE AgreementInv'
  OBVIOUS
<1> DEFINE k == refComputed + 1
           v == NumArgs(graph) + refComputed + 1
           node == Op(graph, v)
           accepted == InputsValid(node, refTensors[v])
<1>1. /\ refStatus = "executing" /\ refComputed < refNodes
      /\ graph' = graph /\ refTensors' = refTensors /\ refNodes' = refNodes
      /\ accepted => refComputed' = k /\ refStatus' = IF k = refNodes THEN "done" ELSE "executing"
      /\ ~accepted => refComputed' = refComputed /\ refMemory' = refMemory /\ refStatus' = "failed"
  BY DEF ComputeNode
<1>2. graph \in Graphs /\ IsGraph(graph)  BY GraphsAssumption DEF AgreementInv
<1>3. /\ NumArgs(graph) \in Nat /\ Len(graph.ops) \in Nat
      /\ refNodes = Len(graph.ops) /\ refComputed \in 0 .. refNodes
      /\ \A i \in 1 .. refNodes : NodeAccepted(refTensors, i)
  BY <1>1, <1>2, GraphParts DEF AgreementInv, ReferenceNodes, ReferenceEnds
<1>4. k \in 1 .. Len(graph.ops) /\ v = NumArgs(graph) + k /\ k \in 0 .. refNodes  BY <1>1, <1>3
<1>5. node = graph.ops[k]  BY <1>2, <1>4, GraphParts
<1>6. ReferenceTensors'
  BY <1>1 DEF AgreementInv, ReferenceTensors, TensorsOf, IsTensorOf, TensorShape
<1>7. ReferenceNodes'
  <2>1. refComputed' \in 0 .. refNodes  BY <1>1, <1>3, <1>4
  <2> QED BY <1>1, <1>3, <2>1 DEF ReferenceNodes, NodeAccepted, OperandTensors
<1>8. ReferenceEnds'
  <2>1. CASE accepted
    BY <1>1, <1>3, <2>1 DEF ReferenceEnds
  <2>2. CASE ~accepted
    <3>1. /\ node.op \in {"div", "mod", "rem"}
          /\ \E i \in Elements(refTensors[v]) : StoredAt(node.ins[2], i) = Zero
      BY <2>2 DEF InputsValid, ValidIntegerDivRemInputs
    <3>2. Elements(refTensors[node.ins[2]]) = Elements(refTensors[v])
      BY <1>2, <1>3, <1>4, <1>5, <3>1, DivisorElements
    <3>3. DividesByZero(graph.ops[k])  BY <1>3, <1>5, <3>1, <3>2 DEF DividesByZero
    <3>4. DividesByZero(graph.ops[k])'
      BY <1>1, <2>2, <3>3 DEF DividesByZero, StoredAt
    <3> QED BY <1>1, <1>3, <1>4, <2>2, <3>4 DEF ReferenceEnds
  <2> QED BY <2>1, <2>2
<1>9. CompilerVerifies'  BY <1>1 DEF AgreementInv, CompilerVerifies
<1> QED BY <1>1, <1>2, <1>6, <1>7, <1>8, <1>9 DEF AgreementInv

\* The compiler's steps leave the reference alone.
LEMMA ReferenceStays ==
  ASSUME AgreementInv, UNCHANGED <<graph, refVars>>
  PROVE  graph' \in Graphs /\ ReferenceTensors' /\ ReferenceNodes' /\ ReferenceEnds'
<1>1. /\ graph' = graph /\ refTensors' = refTensors /\ refMemory' = refMemory
      /\ refNodes' = refNodes /\ refComputed' = refComputed /\ refStatus' = refStatus
  BY DEF refVars
<1>2. ReferenceTensors'
  BY <1>1 DEF AgreementInv, ReferenceTensors, TensorsOf, IsTensorOf, TensorShape
<1>3. ReferenceNodes'
  BY <1>1 DEF AgreementInv, ReferenceNodes, NodeAccepted, OperandTensors
<1>4. ReferenceEnds'
  BY <1>1 DEF AgreementInv, ReferenceEnds, NodeRefused, OperandTensors, DividesByZero, StoredAt
<1> QED BY <1>1, <1>2, <1>3, <1>4 DEF AgreementInv

\* AgreementInv holds initially, and no step of the reference or of the compiler ends it.
THEOREM AgreementInvHolds == VerifierSpec => []AgreementInv
<1>1. VerifierInit => AgreementInv  BY AgreementInit
<1>2. AgreementInv /\ [VerifierNext]_verifierVars => AgreementInv'
  <2> SUFFICES ASSUME AgreementInv, [VerifierNext]_verifierVars PROVE AgreementInv'
    OBVIOUS
  <2>1. CASE RefNext /\ UNCHANGED compileStatus
    BY <2>1, CreateIOTensorKeeps, CreateNodeKeeps, ComputeNodeKeeps DEF RefNext
  <2>2. CASE VerifyGraph
    <3>1. CompilerVerifies'  BY <2>2 DEF VerifyGraph, CompilerVerifies
    <3> QED BY <2>2, <3>1, ReferenceStays DEF VerifyGraph, AgreementInv
  <2>3. CASE CompileVerified
    <3>1. CompilerVerifies'
      BY <2>3 DEF CompileVerified, AgreementInv, CompilerVerifies
    <3> QED BY <2>3, <3>1, ReferenceStays DEF CompileVerified, AgreementInv
  <2>4. CASE UNCHANGED verifierVars
    <3>1. UNCHANGED <<graph, refVars>> /\ compileStatus' = compileStatus /\ graph' = graph
      BY <2>4 DEF verifierVars
    <3>2. CompilerVerifies'  BY <3>1 DEF AgreementInv, CompilerVerifies
    <3> QED BY <3>1, <3>2, ReferenceStays DEF AgreementInv
  <2> QED BY <2>1, <2>2, <2>3, <2>4 DEF VerifierNext
<1> QED BY <1>1, <1>2, PTL DEF VerifierSpec

\* A graph of operations that the reference computes is rejected exactly if one of its nodes is refused.
LEMMA AgreementFollows == AgreementInv => VerifierAndReferenceAgree
<1> SUFFICES ASSUME AgreementInv, compileStatus # "parsed", refStatus \in {"done", "failed"},
                    \A op \in ToSet(graph.ops) : ~BeyondReference(op)
             PROVE  compileStatus = "rejected" <=> refStatus = "failed"
  BY DEF VerifierAndReferenceAgree
<1>1. graph \in Graphs /\ IsGraph(graph)  BY GraphsAssumption DEF AgreementInv
<1>2. Len(graph.ops) \in Nat /\ DOMAIN graph.ops = 1 .. Len(graph.ops)  BY <1>1, GraphParts
<1>3. \A k \in 1 .. Len(graph.ops) : Representable(k) /\ ~DividesByZero(graph.ops[k])
  <2> TAKE k \in 1 .. Len(graph.ops)
  <2>1. graph.ops[k] \in ToSet(graph.ops)  BY <1>2 DEF ToSet
  <2> QED BY <1>1, <2>1, NotBeyond
<1>4. compileStatus = "rejected" <=> ~GraphVerified(graph)
  BY DEF AgreementInv, CompilerVerifies
<1>5. GraphVerified(graph) <=> \A k \in 1 .. Len(graph.ops) : GraphOpVerified(graph.ops[k], OperandShapesOf(k))
  BY <1>2 DEF GraphVerified, OperandShapesOf
<1>6. /\ TensorsOf(refTensors) /\ refNodes \in 0 .. Len(graph.ops)
      /\ \A k \in 1 .. refNodes : NodeAccepted(refTensors, k)
  BY DEF AgreementInv, ReferenceTensors, ReferenceNodes
<1>7. CASE refStatus = "done"
  <2>1. \A k \in 1 .. Len(graph.ops) : NodeAccepted(refTensors, k)
    BY <1>6, <1>7 DEF AgreementInv, ReferenceEnds
  <2>2. \A k \in 1 .. Len(graph.ops) : GraphOpVerified(graph.ops[k], OperandShapesOf(k))
    BY <1>1, <1>3, <1>6, <2>1, VerifiersAgree DEF NodeAccepted
  <2> QED BY <1>4, <1>5, <1>7, <2>2
<1>8. CASE refStatus = "failed"
  <2> DEFINE k == refNodes + 1
  <2>1. refNodes < Len(graph.ops) /\ NodeRefused(refTensors, k)
    BY <1>3, <1>8 DEF AgreementInv, ReferenceEnds
  <2>2. k \in 1 .. Len(graph.ops)  BY <1>2, <1>6, <2>1
  <2>3. ~GraphOpVerified(graph.ops[k], OperandShapesOf(k))
    <3> HIDE DEF k
    <3> QED BY <1>1, <1>3, <1>6, <2>1, <2>2, VerifiersAgree DEF NodeRefused
  <2> QED BY <1>4, <1>5, <1>8, <2>2, <2>3
<1> QED BY <1>7, <1>8

\* For graphs that the reference computes, the dialect's verifiers (TensorOps.cpp) reject exactly
\* those that Node::validate (ReferenceNode.cpp) refuses.
THEOREM VerifiersAgreeWithReference == VerifierSpec => []VerifierAndReferenceAgree
BY AgreementInvHolds, AgreementFollows, PTL

-----------------------------------------------------------------------------
(* The interpreter's accesses: coordinates and their addresses.            *)

LEMMA PositiveVolume ==
  ASSUME NEW dims \in Seq(Nat), \A d \in DOMAIN dims : dims[d] # 0
  PROVE  Volume(dims) \in Nat \ {0}
<1>1. DOMAIN dims = 1 .. Len(dims) /\ Len(dims) \in Nat  OBVIOUS
<1>2. PICK p \in [0 .. Len(dims) -> Nat] :
         p[Len(dims)] = Product(dims) /\ p[0] = 1 /\ \A k \in 0 .. Len(dims) : p[k] \in 1 .. Product(dims)
  BY <1>1, ProductOfNats
<1>3. 0 \in 0 .. Len(dims) /\ Len(dims) \in 0 .. Len(dims)  BY <1>1
<1>4. Product(dims) \in Nat /\ 1 \in 1 .. Product(dims)  BY <1>2, <1>3
<1> QED BY <1>4 DEF Volume

\* Every index has a coordinate.
LEMMA UnravelIsCoordinate ==
  ASSUME NEW dims \in Seq(Nat), \A d \in DOMAIN dims : dims[d] # 0, NEW i \in Nat
  PROVE  IsCoordinate(Unravel(i, dims), dims)
<1> SUFFICES ASSUME NEW d \in DOMAIN dims PROVE Unravel(i, dims)[d] \in 0 .. dims[d] - 1
  BY DEF IsCoordinate, Unravel
<1> DEFINE rest == SubSeq(dims, d + 1, Len(dims))
<1>1. d \in 1 .. Len(dims) /\ Len(dims) \in Nat /\ dims[d] \in Nat \ {0}  OBVIOUS
<1>2. rest \in Seq(Nat \ {0})
  <2>1. \A j \in d + 1 .. Len(dims) : dims[j] \in Nat \ {0}  BY <1>1
  <2>2. d + 1 \in Int /\ Len(dims) \in Int  BY <1>1
  <2> QED BY <2>1, <2>2, SubSeqProperties
<1> HIDE DEF rest
<1>3. rest \in Seq(Nat) /\ \A j \in DOMAIN rest : rest[j] # 0  BY <1>2
<1>4. Volume(rest) \in Nat \ {0}  BY <1>3, PositiveVolume
<1>5. i \div Volume(rest) \in Nat  BY <1>4, DivMod
<1>6. (i \div Volume(rest)) % dims[d] \in 0 .. dims[d] - 1  BY <1>1, <1>5, DivMod
<1> QED BY <1>6 DEF Unravel, rest

LEMMA SumOfNats ==
  ASSUME NEW N \in Nat, NEW a \in [1 .. N -> Nat]
  PROVE  SumOf(a) \in Nat
<1>1. /\ LeadingSum(a, 0) = 0 /\ LeadingSum(a, N) = SumOf(a)
      /\ \A k \in 1 .. N : LeadingSum(a, k) = LeadingSum(a, k - 1) + a[k]
  <2>1. a \in [1 .. N -> Int]  OBVIOUS
  <2> QED BY <2>1, LeadingSums
<1> DEFINE U == {k \in 0 .. N : LeadingSum(a, k) \in Nat}
<1>2. 0 \in U  BY <1>1
<1>3. \A k \in 0 .. N - 1 : k \in U => k + 1 \in U
  <2> SUFFICES ASSUME NEW k \in 0 .. N - 1, LeadingSum(a, k) \in Nat
               PROVE  k + 1 \in 0 .. N /\ LeadingSum(a, k + 1) \in Nat
    OBVIOUS
  <2>1. k + 1 \in 1 .. N /\ k + 1 \in 0 .. N /\ (k + 1) - 1 = k /\ a[k + 1] \in Nat  OBVIOUS
  <2> QED BY <1>1, <2>1
<1> HIDE DEF U
<1>4. 0 .. N \subseteq U  BY <1>2, <1>3, IntervalInduction
<1> QED BY <1>1, <1>4 DEF U

\* A tensor that validateStridedOffsetsWithinAllocation accepts.
IsTensor(t) == t.dims \in Seq(Nat) /\ \A d \in DOMAIN t.dims : t.dims[d] # 0 /\ t.strides[d] \in Nat

\* The allocation ends with the element of the greatest coordinate, and begins at 0.
LEMMA CoordinateHeld ==
  ASSUME NEW t, IsTensor(t), NEW c, IsCoordinate(c, t.dims)
  PROVE  Holds(t, c)
<1> DEFINE last == [d \in DOMAIN t.dims |-> t.dims[d] - 1]
           a == [d \in DOMAIN c |-> c[d] * t.strides[d]]
           b == [d \in DOMAIN last |-> last[d] * t.strides[d]]
<1>1. PICK N \in Nat : DOMAIN t.dims = 1 .. N  BY LenProperties DEF IsTensor
<1>2. ASSUME NEW d \in 1 .. N
      PROVE  a[d] \in Nat /\ b[d] \in Int /\ a[d] <= b[d]
  <2>1. t.dims[d] \in Nat \ {0} /\ t.strides[d] \in Nat  BY <1>1 DEF IsTensor
  <2>2. c[d] \in 0 .. t.dims[d] - 1  BY <1>1 DEF IsCoordinate
  <2>3. a[d] = c[d] * t.strides[d] /\ b[d] = (t.dims[d] - 1) * t.strides[d]  BY <1>1 DEF IsCoordinate
  <2> HIDE DEF a, b
  <2>4. PICK x \in Nat, y \in Nat, s \in Nat : x = c[d] /\ x + y = t.dims[d] - 1 /\ s = t.strides[d]
    <3>1. c[d] \in Nat /\ (t.dims[d] - 1) - c[d] \in Nat  BY <2>1, <2>2
    <3>2. c[d] + ((t.dims[d] - 1) - c[d]) = t.dims[d] - 1  BY <2>1, <3>1
    <3> QED BY <2>1, <3>1, <3>2
  <2>5. (x + y) * s = x * s + y * s /\ x * s \in Nat /\ y * s \in Nat  BY SMT
  <2> QED BY <2>3, <2>4, <2>5
<1>3. a \in [1 .. N -> Nat] /\ a \in [1 .. N -> Int] /\ b \in [1 .. N -> Int]
  <2>1. DOMAIN c = 1 .. N /\ DOMAIN last = 1 .. N  BY <1>1 DEF IsCoordinate
  <2>2. a = [d \in 1 .. N |-> a[d]] /\ b = [d \in 1 .. N |-> b[d]]  BY <2>1
  <2> HIDE DEF a, b
  <2> QED BY <1>2, <2>2
<1>4. StorageIndex(t, c) = SumOf(a) /\ Dot(last, t.strides) = SumOf(b)  BY DEF StorageIndex, Dot
<1> HIDE DEF a, b
<1>5. SumOf(a) \in Nat /\ SumOf(a) <= SumOf(b)  BY <1>2, <1>3, SumOfNats, SumMonotone
<1>6. SumOf(b) \in Int
  <2>1. \A k \in 0 .. N : LeadingSum(b, k) \in Int  BY <1>3, LeadingSums
  <2>2. LeadingSum(b, N) = SumOf(b)  BY <1>3, LeadingSums
  <2> QED BY <2>1, <2>2
<1>7. SumOf(a) \in 0 .. SumOf(b)  BY <1>5, <1>6
<1>8. Storage(t) = 0 .. SumOf(b)  BY <1>4 DEF Storage
<1> QED BY <1>4, <1>7, <1>8 DEF Holds

LEMMA ElementHeld ==
  ASSUME NEW t, IsTensor(t), NEW i \in Elements(t)
  PROVE  HoldsLinear(t, i) /\ i \in Nat /\ IsCoordinate(Unravel(i, t.dims), t.dims)
<1>1. t.dims \in Seq(Nat) /\ \A d \in DOMAIN t.dims : t.dims[d] # 0  BY DEF IsTensor
<1>2. Volume(t.dims) \in Nat  BY <1>1, PositiveVolume
<1>3. i \in Nat  BY <1>2 DEF Elements
<1>4. IsCoordinate(Unravel(i, t.dims), t.dims)  BY <1>1, <1>3, UnravelIsCoordinate
<1>5. Holds(t, Unravel(i, t.dims))  BY <1>4, CoordinateHeld
<1> QED BY <1>3, <1>4, <1>5 DEF Holds, HoldsLinear, LinearStorageIndex

-----------------------------------------------------------------------------
(* The coordinates that each class of nodes reads.                         *)

LEMMA ReplacedCoordinate ==
  ASSUME NEW c, NEW x, NEW dim, NEW dims \in Seq(Nat), DOMAIN c = DOMAIN dims,
         dim \in DOMAIN dims => x \in 0 .. dims[dim] - 1,
         \A d \in DOMAIN dims : d # dim => c[d] \in 0 .. dims[d] - 1
  PROVE  IsCoordinate(Replaced(c, dim, x), dims)
BY DEF IsCoordinate, Replaced

LEMMA MatmulReads ==
  ASSUME NEW node, NEW ts, NEW out, IsTensor(ts[1]), IsTensor(ts[2]), IsTensor(out), MatmulValid(node, ts, out),
         NEW c, IsCoordinate(c, out.dims), NEW k \in 0 .. ts[1].dims[Len(out.dims)] - 1
  PROVE  /\ IsCoordinate(Replaced(c, Len(out.dims), k), ts[1].dims)
         /\ IsCoordinate(Replaced(c, Len(out.dims) - 1, k), ts[2].dims)
<1> DEFINE a == ts[1].dims
           b == ts[2].dims
           o == out.dims
<1>1. a \in Seq(Nat) /\ b \in Seq(Nat) /\ o \in Seq(Nat)  BY DEF IsTensor
<1>2. PICK n \in {2, 3} : n = Len(o) /\ Len(a) = n /\ Len(b) = n
  BY DEF MatmulValid
<1>3. /\ n = 3 => a[1] = b[1] /\ o[1] = a[1]
      /\ a[n] = b[n - 1] /\ o[n - 1] = a[n - 1] /\ o[n] = b[n]
  BY <1>2 DEF MatmulValid
<1>4. DOMAIN a = 1 .. n /\ DOMAIN b = 1 .. n /\ DOMAIN o = 1 .. n  BY <1>1, <1>2
<1>5. DOMAIN c = 1 .. n /\ \A d \in 1 .. n : c[d] \in 0 .. o[d] - 1  BY <1>4 DEF IsCoordinate
<1>6. k \in 0 .. a[n] - 1  BY <1>2
<1> HIDE DEF a, b, o
<1>7. \A d \in 1 .. n : d = n \/ d = n - 1 \/ (d = 1 /\ n = 3)  OBVIOUS
<1>8. \A d \in 1 .. n : d # n => c[d] \in 0 .. a[d] - 1  BY <1>3, <1>5, <1>7
<1>9. \A d \in 1 .. n : d # n - 1 => c[d] \in 0 .. b[d] - 1  BY <1>3, <1>5, <1>7
<1>10. IsCoordinate(Replaced(c, n, k), a)  BY <1>1, <1>4, <1>5, <1>6, <1>8, ReplacedCoordinate
<1>11. IsCoordinate(Replaced(c, n - 1, k), b)
  <2> DEFINE dim == n - 1
  <2>1. k \in 0 .. b[dim] - 1  BY <1>3, <1>6
  <2>2. \A d \in DOMAIN b : d # dim => c[d] \in 0 .. b[d] - 1  BY <1>4, <1>9
  <2> HIDE DEF dim
  <2>3. IsCoordinate(Replaced(c, dim, k), b)  BY <1>1, <1>4, <1>5, <2>1, <2>2, ReplacedCoordinate
  <2> QED BY <2>3 DEF dim
<1> QED BY <1>2, <1>10, <1>11 DEF a, b, o

\* Steps that end at x or before it.
LEMMA StepsWithin ==
  ASSUME NEW x \in Nat, NEW q \in Nat \ {0}, NEW n \in 0 .. x \div q
  PROVE  n * q \in 0 .. x
<1>1. PICK m \in Nat, r \in 0 .. q - 1 : m = x \div q /\ x = q * m + r  BY DivMod
<1>2. n \in Nat /\ n <= m  BY <1>1
<1>3. PICK e \in Nat : m = n + e
  <2>1. m - n \in Nat /\ m = n + (m - n)  BY <1>1, <1>2
  <2> QED BY <2>1
<1>4. q * m = n * q + q * e /\ n * q \in Nat /\ q * e \in Nat  BY <1>2, <1>3, SMT
<1> QED BY <1>1, <1>4

LEMMA SliceReads ==
  ASSUME NEW node, NEW ts, NEW out, IsTensor(ts[1]), IsTensor(out), SliceValid(node, ts, out),
         {node.attr.starts, node.attr.limits, node.attr.strides} \subseteq Seq(Int),
         NEW c, IsCoordinate(c, out.dims)
  PROVE  IsCoordinate(SliceSource(node, c), ts[1].dims)
<1> DEFINE in == ts[1].dims
           s == node.attr
<1>1. in \in Seq(Nat) /\ out.dims \in Seq(Nat)  BY DEF IsTensor
<1>2. Len(out.dims) = Len(in) /\ Len(s.starts) = Len(in) /\ Len(s.limits) = Len(in) /\ Len(s.strides) = Len(in)
  BY DEF SliceValid
<1>3. DOMAIN c = DOMAIN in  BY <1>1, <1>2 DEF IsCoordinate
<1>4. ASSUME NEW d \in DOMAIN in PROVE s.starts[d] + c[d] * s.strides[d] \in 0 .. in[d] - 1
  <2>1. /\ 0 <= s.starts[d] /\ s.starts[d] <= s.limits[d] /\ s.limits[d] <= in[d] /\ s.strides[d] > 0
        /\ out.dims[d] = IF s.limits[d] > s.starts[d]
                         THEN 1 + (s.limits[d] - 1 - s.starts[d]) \div s.strides[d] ELSE 0
    BY DEF SliceValid
  <2>2. d \in 1 .. Len(in) /\ in[d] \in Nat  BY <1>1
  <2>3. s.starts \in Seq(Int) /\ s.limits \in Seq(Int) /\ s.strides \in Seq(Int)  OBVIOUS
  <2> HIDE DEF s, in
  <2>4. s.starts[d] \in Int /\ s.limits[d] \in Int /\ s.strides[d] \in Int  BY <1>2, <2>2, <2>3
  <2>5. d \in DOMAIN out.dims  BY <1>1, <1>2, <2>2
  <2>6. out.dims[d] \in Nat \ {0}  BY <1>1, <2>5 DEF IsTensor
  <2>7. c[d] \in 0 .. out.dims[d] - 1  BY <2>5 DEF IsCoordinate
  <2> DEFINE x == s.limits[d] - 1 - s.starts[d]
             q == s.strides[d]
  <2>8. s.limits[d] > s.starts[d] /\ out.dims[d] = 1 + x \div q  BY <2>1, <2>6
  <2>9. x \in Nat /\ q \in Nat \ {0}
    <3>1. s.limits[d] > s.starts[d] /\ s.strides[d] > 0  BY <2>1, <2>8
    <3> QED BY <2>4, <3>1
  <2>10. \A y \in 0 .. x : s.starts[d] + y \in 0 .. in[d] - 1
    <3>1. 0 <= s.starts[d] /\ s.limits[d] <= in[d]  BY <2>1
    <3>2. PICK st \in Int, l \in Int, e \in Nat : st = s.starts[d] /\ l = s.limits[d] /\ e = in[d]  BY <2>2, <2>4
    <3>3. x = l - 1 - st /\ 0 <= st /\ l <= e  BY <3>1, <3>2
    <3> HIDE DEF x
    <3>4. \A y \in 0 .. x : st + y \in 0 .. e - 1  BY <3>3
    <3> QED BY <3>2, <3>4
  <2> HIDE DEF x, q
  <2>11. x \div q \in Nat  BY <2>9, DivMod
  <2>12. c[d] \in 0 .. x \div q  BY <2>7, <2>8, <2>11
  <2>13. c[d] * q \in 0 .. x  BY <2>9, <2>12, StepsWithin
  <2> QED BY <2>10, <2>13 DEF q
<1> QED BY <1>3, <1>4 DEF IsCoordinate, SliceSource

LEMMA BroadcastReads ==
  ASSUME NEW node, NEW ts, NEW out, IsTensor(ts[1]), IsTensor(out), BroadcastValid(node, ts, out),
         ts[1] = refTensors[node.ins[1]], NEW c, IsCoordinate(c, out.dims)
  PROVE  IsCoordinate(BroadcastSource(node, c), ts[1].dims)
<1> DEFINE in == ts[1].dims
<1>1. in \in Seq(Nat) /\ out.dims \in Seq(Nat) /\ Len(in) = Len(out.dims)  BY DEF IsTensor, BroadcastValid
<1>2. DOMAIN in = DOMAIN out.dims /\ DOMAIN c = DOMAIN in  BY <1>1 DEF IsCoordinate
<1>3. ASSUME NEW d \in DOMAIN in
      PROVE  (IF in[d] = 1 THEN 0 ELSE c[d]) \in 0 .. in[d] - 1
  <2>1. in[d] = out.dims[d] \/ in[d] = 1  BY DEF BroadcastValid
  <2>2. c[d] \in 0 .. out.dims[d] - 1  BY <1>2 DEF IsCoordinate
  <2> QED BY <2>1, <2>2
<1> QED BY <1>2, <1>3 DEF IsCoordinate, BroadcastSource

\* A permutation reaches every dimension of the operand.
LEMMA TransposeReads ==
  ASSUME NEW node, NEW ts, NEW out, IsTensor(ts[1]), IsTensor(out), TransposeValid(node, ts, out),
         node.attr \in Seq(Int), NEW c, IsCoordinate(c, out.dims)
  PROVE  IsCoordinate(TransposeSource(node, c), ts[1].dims)
<1> DEFINE in == ts[1].dims
           perm == node.attr
<1>1. /\ in \in Seq(Nat) /\ out.dims \in Seq(Nat) /\ Len(perm) = Len(in) /\ Len(out.dims) = Len(in)
      /\ ToSet(perm) = DOMAIN in /\ \A d \in DOMAIN in : out.dims[d] = in[perm[d]]
  BY DEF IsTensor, TransposeValid
<1>2. DOMAIN perm = DOMAIN in /\ DOMAIN c = DOMAIN in /\ DOMAIN out.dims = DOMAIN in  BY <1>1 DEF IsCoordinate
<1>3. ASSUME NEW d \in DOMAIN in PROVE c[CHOOSE o \in DOMAIN c : perm[o] = d] \in 0 .. in[d] - 1
  <2>1. \E o \in DOMAIN c : perm[o] = d  BY <1>1, <1>2 DEF ToSet
  <2>2. PICK o \in DOMAIN c : perm[o] = d /\ o = CHOOSE x \in DOMAIN c : perm[x] = d  BY <2>1
  <2>3. c[o] \in 0 .. out.dims[o] - 1  BY <1>2, <2>2 DEF IsCoordinate
  <2>4. out.dims[o] = in[d]  BY <1>1, <1>2, <2>2
  <2> QED BY <2>2, <2>3, <2>4
<1> QED BY <1>2, <1>3 DEF IsCoordinate, TransposeSource

LEMMA ReduceReads ==
  ASSUME NEW node, NEW ts, NEW out, IsTensor(ts[1]), IsTensor(out), ReduceValid(node, ts, out),
         ts[1] = refTensors[node.ins[1]], node.attr.dims \in Seq(Int), NEW c, IsCoordinate(c, out.dims),
         NEW r \in 0 .. Volume(ReducedExtents(node)) - 1
  PROVE  IsCoordinate(ReduceSource(node, c, r), ts[1].dims)
<1> DEFINE in == ts[1].dims
           dims == node.attr.dims
           extents == ReducedExtents(node)
           u == Unravel(r, extents)
<1>1. /\ in \in Seq(Nat) /\ out.dims \in Seq(Nat) /\ Len(out.dims) = Len(in)
      /\ ToSet(dims) \subseteq DOMAIN in
      /\ \A d \in DOMAIN in : out.dims[d] = IF d \in ToSet(dims) THEN 1 ELSE in[d]
  BY DEF IsTensor, ReduceValid
<1>2. DOMAIN out.dims = DOMAIN in /\ DOMAIN c = DOMAIN in  BY <1>1 DEF IsCoordinate
<1>3. extents = [j \in DOMAIN dims |-> in[dims[j]]]  BY DEF ReducedExtents
<1>4. \A j \in DOMAIN dims : dims[j] \in DOMAIN in /\ in[dims[j]] \in Nat \ {0}
  <2> TAKE j \in DOMAIN dims
  <2>1. dims[j] \in DOMAIN in  BY <1>1 DEF ToSet
  <2>2. \A d \in DOMAIN in : in[d] # 0  BY DEF IsTensor
  <2>3. \A d \in DOMAIN in : in[d] \in Nat
    <3> HIDE DEF in
    <3> QED BY <1>1
  <2> HIDE DEF in, dims
  <2> QED BY <2>1, <2>2, <2>3
<1>5. extents \in Seq(Nat) /\ \A j \in DOMAIN extents : extents[j] # 0
  <2>1. PICK n \in Nat : DOMAIN dims = 1 .. n  BY LenProperties
  <2>2. extents = [j \in 1 .. n |-> in[dims[j]]] /\ \A j \in 1 .. n : in[dims[j]] \in Nat \ {0}
    BY <1>3, <1>4, <2>1
  <2> HIDE DEF extents, dims, in
  <2>3. extents \in [1 .. n -> Nat]  BY <2>2
  <2> QED BY <2>1, <2>2, <2>3, FunctionIsSeq
<1>6. r \in Nat
  <2>1. Volume(extents) \in Nat  BY <1>5, PositiveVolume
  <2> QED BY <2>1
<1>7. IsCoordinate(u, extents)  BY <1>5, <1>6, UnravelIsCoordinate
<1> HIDE DEF u, extents
<1>8. ASSUME NEW d \in DOMAIN in
      PROVE  (IF d \in ToSet(dims) THEN u[CHOOSE j \in DOMAIN dims : dims[j] = d] ELSE c[d]) \in 0 .. in[d] - 1
  <2>1. CASE d \in ToSet(dims)
    <3>1. \E j \in DOMAIN dims : dims[j] = d  BY <2>1 DEF ToSet
    <3>2. PICK j \in DOMAIN dims : dims[j] = d /\ j = CHOOSE x \in DOMAIN dims : dims[x] = d  BY <3>1
    <3>3. u[j] \in 0 .. extents[j] - 1  BY <1>3, <1>7, <3>2 DEF IsCoordinate
    <3> QED BY <1>3, <2>1, <3>2, <3>3
  <2>2. CASE d \notin ToSet(dims)
    <3>1. c[d] \in 0 .. out.dims[d] - 1  BY <1>2 DEF IsCoordinate
    <3> QED BY <1>1, <2>2, <3>1
  <2> QED BY <2>1, <2>2
<1> QED BY <1>2, <1>8 DEF IsCoordinate, ReduceSource, u, extents

\* Every offset below the sum of the parts' extents is in one of them.
LEMMA PartOfOffset ==
  ASSUME NEW N \in Nat, NEW n \in [1 .. N -> Nat], NEW x \in 0 .. SumOf(n) - 1
  PROVE  \E k \in 1 .. N : LeadingSum(n, k - 1) <= x /\ x < LeadingSum(n, k)
<1>1. /\ LeadingSum(n, 0) = 0 /\ LeadingSum(n, N) = SumOf(n)
      /\ \A k \in 0 .. N : LeadingSum(n, k) \in Int
  <2>1. n \in [1 .. N -> Int]  OBVIOUS
  <2> QED BY <2>1, LeadingSums
<1>2. SumOf(n) \in Nat  BY SumOfNats
<1> DEFINE S == {k \in 0 .. N : x < LeadingSum(n, k)}
<1>3. N \in S  BY <1>1, <1>2
<1>4. S \in SUBSET Nat /\ S # {}  BY <1>3
<1>5. PICK k \in S : \A j \in S : k <= j
  <2> HIDE DEF S
  <2> QED BY <1>4, LeastNatural
<1>6. k # 0  BY <1>1, <1>2
<1>7. k \in 1 .. N /\ k - 1 \in 0 .. N /\ k - 1 \notin S  BY <1>5, <1>6
<1>8. LeadingSum(n, k - 1) <= x  BY <1>1, <1>2, <1>7
<1> QED BY <1>7, <1>8

LEMMA ConcatenateReads ==
  ASSUME NEW node, NEW N \in Nat, DOMAIN node.ins = 1 .. N, NEW ts, ts = [j \in 1 .. N |-> refTensors[node.ins[j]]],
         \A j \in 1 .. N : IsTensor(ts[j]), NEW out, IsTensor(out), ConcatenateValid(node, ts, out),
         node.attr \in Int, NEW c, IsCoordinate(c, out.dims)
  PROVE  /\ ConcatenatePart(node, c) \in 1 .. N
         /\ IsCoordinate(ConcatenateSource(node, c), ts[ConcatenatePart(node, c)].dims)
<1> DEFINE dim == node.attr
           first == ts[1].dims
           n == [j \in 1 .. N |-> ts[j].dims[dim]]
           x == c[dim]
<1>1. /\ ts # <<>> /\ dim \in DOMAIN first
      /\ \A t \in ToSet(ts) \cup {out} : Len(t.dims) = Len(first)
      /\ \A t \in ToSet(ts) \cup {out}, d \in DOMAIN first : d # dim => t.dims[d] = first[d]
      /\ out.dims[dim] = SumOf([k \in DOMAIN ts |-> ts[k].dims[dim]])
  BY DEF ConcatenateValid
<1>2. DOMAIN ts = 1 .. N /\ \A j \in 1 .. N : ts[j] \in ToSet(ts) /\ ts[j] = refTensors[node.ins[j]]
  BY DEF ToSet
<1>3. N # 0
  <2> SUFFICES ASSUME N = 0 PROVE FALSE  OBVIOUS
  <2>1. ts = <<>>  BY EmptySeq
  <2> QED BY <1>1, <2>1
<1>4. 1 \in 1 .. N  BY <1>3
<1>5. first \in Seq(Nat) /\ out.dims \in Seq(Nat) /\ \A j \in 1 .. N : ts[j].dims \in Seq(Nat)
  BY <1>4 DEF IsTensor
<1>6. DOMAIN out.dims = DOMAIN first /\ DOMAIN c = DOMAIN first /\ \A j \in 1 .. N : DOMAIN ts[j].dims = DOMAIN first
  <2>1. Len(out.dims) = Len(first) /\ \A j \in 1 .. N : Len(ts[j].dims) = Len(first)  BY <1>1, <1>2
  <2>2. \A s \in Seq(Nat) : DOMAIN s = 1 .. Len(s)  OBVIOUS
  <2> QED BY <1>5, <2>1, <2>2 DEF IsCoordinate
<1>7. n \in [1 .. N -> Nat]
  <2>1. ASSUME NEW j \in 1 .. N PROVE ts[j].dims[dim] \in Nat
    <3>1. ts[j].dims \in Seq(Nat) /\ dim \in DOMAIN ts[j].dims  BY <1>1, <1>5, <1>6
    <3> QED BY <3>1, ElementOfSeq, LenProperties
  <2> QED BY <2>1
<1>8. out.dims[dim] = SumOf(n)  BY <1>1, <1>2
<1>9. \A d \in DOMAIN first : c[d] \in 0 .. out.dims[d] - 1  BY <1>6 DEF IsCoordinate
<1>10. x \in 0 .. SumOf(n) - 1  BY <1>1, <1>8, <1>9
<1>11. \A k \in 1 .. N : PartStart(node, k) = LeadingSum(n, k - 1)
  <2> TAKE k \in 1 .. N
  <2>1. \A j \in 1 .. k - 1 : n[j] = refTensors[node.ins[j]].dims[node.attr]  BY <1>2
  <2>2. [j \in 1 .. k - 1 |-> refTensors[node.ins[j]].dims[node.attr]] = [j \in 1 .. k - 1 |-> n[j]]
    <3> HIDE DEF n
    <3> QED BY <2>1
  <2> QED BY <2>2 DEF PartStart, LeadingSum
<1>12. /\ \A k \in 0 .. N : LeadingSum(n, k) \in Int
       /\ \A k \in 1 .. N : LeadingSum(n, k) = LeadingSum(n, k - 1) + n[k]
  <2> HIDE DEF n
  <2>1. n \in [1 .. N -> Int]  BY <1>7
  <2> QED BY <2>1, LeadingSums
<1> DEFINE In(k) == PartStart(node, k) <= x /\ x < PartStart(node, k) + n[k]
<1>13. \E k \in 1 .. N : In(k)
  <2> HIDE DEF n, x
  <2>1. PICK k \in 1 .. N : LeadingSum(n, k - 1) <= x /\ x < LeadingSum(n, k)  BY <1>7, <1>10, PartOfOffset
  <2> QED BY <1>11, <1>12, <2>1
<1> DEFINE k == ConcatenatePart(node, c)
<1>14. k = CHOOSE j \in 1 .. N : In(j)
  <2>1. \A j \in 1 .. N : In(j) <=> PartStart(node, j) <= c[node.attr]
                                     /\ c[node.attr] < PartStart(node, j) + refTensors[node.ins[j]].dims[node.attr]
    BY <1>2
  <2> HIDE DEF In
  <2> QED BY <2>1, Zenon DEF ConcatenatePart
<1>15. k \in 1 .. N /\ In(k)
  <2> HIDE DEF In, k
  <2> QED BY <1>13, <1>14
<1>16. PartStart(node, k) \in Int
  <2>1. k - 1 \in 0 .. N  BY <1>15
  <2> HIDE DEF n, k
  <2> QED BY <1>11, <1>12, <1>15, <2>1
<1>17. x - PartStart(node, k) \in 0 .. ts[k].dims[dim] - 1
  <2>1. n[k] = ts[k].dims[dim] /\ n[k] \in Nat  BY <1>7, <1>15
  <2>2. x \in Int  BY <1>7, <1>10, SumOfNats
  <2> HIDE DEF n, k, x
  <2> QED BY <1>15, <1>16, <2>1, <2>2
<1>18. \A d \in DOMAIN ts[k].dims : d # dim => c[d] \in 0 .. ts[k].dims[d] - 1
  <2>1. ts[k] \in ToSet(ts) /\ DOMAIN ts[k].dims = DOMAIN first  BY <1>2, <1>6, <1>15
  <2> HIDE DEF k, first
  <2>2. \A d \in DOMAIN first : d # dim => ts[k].dims[d] = first[d] /\ out.dims[d] = first[d]
    <3> DEFINE all == ToSet(ts) \cup {out}
    <3>1. ts[k] \in all /\ out \in all  BY <2>1
    <3>2. \A t \in all, d \in DOMAIN first : d # dim => t.dims[d] = first[d]  BY <1>1
    <3> HIDE DEF all
    <3> QED BY <3>1, <3>2
  <2> QED BY <1>9, <2>1, <2>2
<1>19. ts[k].dims \in Seq(Nat) /\ DOMAIN c = DOMAIN ts[k].dims  BY <1>5, <1>6, <1>15
<1> HIDE DEF k, x, n
<1>20. IsCoordinate(Replaced(c, dim, x - PartStart(node, k)), ts[k].dims)
  BY <1>17, <1>18, <1>19, ReplacedCoordinate
<1> QED BY <1>15, <1>20 DEF ConcatenateSource, k, x

\* An accepted node, over the tensors of its operands.
LEMMA AcceptedNode ==
  ASSUME IsGraph(graph), TensorsOf(refTensors), NEW k \in 1 .. Len(graph.ops), NodeAccepted(refTensors, k)
  PROVE  LET op == graph.ops[k]
             ts == OperandTensors(refTensors, k)
             out == refTensors[NumArgs(graph) + k]
         IN  \E N \in Nat :
               /\ DOMAIN op.ins = 1 .. N /\ ts = [j \in 1 .. N |-> refTensors[op.ins[j]]] /\ Len(ts) = N
               /\ ts \in Seq(ToSet(ts))
               /\ N \in OperandCounts(op.op) /\ IsAttribute(op.op, op.attr) /\ NodeValid(op, ts, out)
               /\ op.op # "concatenate" => N = NumOperands(op.op)
               /\ IsTensor(out) /\ \A j \in 1 .. N : IsTensor(ts[j])
               /\ \A t \in ToSet(ts) \cup {out} : ValidTensor(t)
<1> DEFINE op == graph.ops[k]
           shapes == [j \in DOMAIN op.ins |-> TensorShape(op.ins[j])]
           ts == OperandTensors(refTensors, k)
           out == refTensors[NumArgs(graph) + k]
<1>1. /\ shapes \in Seq(Seq(Nat)) /\ Len(shapes) = Len(op.ins) /\ op.shape \in Seq(Nat)
      /\ ts \in Seq(ToSet(ts)) /\ HaveShapes(ts, out, shapes, op.shape)
  BY OperandsOfNode DEF NodeAccepted
<1>2. Len(op.ins) \in Nat /\ Len(op.ins) \in OperandCounts(op.op) /\ IsAttribute(op.op, op.attr)
  <2>1. IsOperation(graph, NumArgs(graph) + k) /\ Op(graph, NumArgs(graph) + k) = op  BY GraphParts
  <2>2. op.ins \in Seq(1 .. NumArgs(graph) + k - 1)  BY OperandsDefined
  <2> QED BY <2>1, <2>2 DEF IsOperation
<1>3. PICK N \in Nat : N = Len(op.ins) /\ DOMAIN op.ins = 1 .. N
  BY OperandsDefined, LenProperties
<1>4. ts = [j \in 1 .. N |-> refTensors[op.ins[j]]] /\ DOMAIN shapes = 1 .. N
  BY <1>3 DEF OperandTensors
<1>5. NodeValid(op, ts, out)  BY DEF NodeAccepted
<1> HIDE DEF op, shapes, ts, out
<1>6. Len(ts) = N  BY <1>1, <1>4, LenProperties
<1>7. /\ op.op # "concatenate" => N = NumOperands(op.op)
      /\ \A t \in ToSet(ts) \cup {out} : ValidTensor(t)
  BY <1>5, <1>6 DEF NodeValid
<1>8. NoneEmpty(shapes, op.shape)  BY <1>1, <1>7, TensorsValid
<1>9. IsTensor(out)  BY <1>1, <1>8 DEF HaveShapes, NoneEmpty, IsTensor
<1>10. ASSUME NEW j \in 1 .. N PROVE IsTensor(ts[j])
  <2>1. shapes[j] \in Seq(Nat)  BY <1>1, <1>4, ElementOfSeq, LenProperties
  <2>2. ts[j].dims = shapes[j] /\ \A d \in DOMAIN shapes[j] : ts[j].strides[d] \in Nat /\ shapes[j][d] # 0
    BY <1>1, <1>4, <1>8 DEF HaveShapes, NoneEmpty
  <2> QED BY <2>1, <2>2 DEF IsTensor
<1>11. /\ DOMAIN op.ins = 1 .. N /\ ts = [j \in 1 .. N |-> refTensors[op.ins[j]]] /\ Len(ts) = N
       /\ ts \in Seq(ToSet(ts))
       /\ N \in OperandCounts(op.op) /\ IsAttribute(op.op, op.attr) /\ NodeValid(op, ts, out)
       /\ op.op # "concatenate" => N = NumOperands(op.op)
       /\ IsTensor(out) /\ \A j \in 1 .. N : IsTensor(ts[j])
       /\ \A t \in ToSet(ts) \cup {out} : ValidTensor(t)
  BY <1>1, <1>2, <1>3, <1>4, <1>5, <1>6, <1>7, <1>9, <1>10
<1> QED BY <1>11, Zenon DEF op, ts, out

\* A node that the reference validates, and that reads its N operands at the index of its result.
ReadsAtItsIndex(op, N, ts, out) ==
  /\ N \in Nat /\ ts \in Seq(ToSet(ts)) /\ Len(ts) = N
  /\ NodeValid(op, ts, out) /\ \A t \in ToSet(ts) \cup {out} : ValidTensor(t)
  /\ N \in OperandCounts(op.op) /\ (op.op # "concatenate" => N = NumOperands(op.op))
  /\ op.op \notin {"splat", "matmul", "concatenate", "slice", "broadcast", "transpose", "reduce"}

\* A node that reads its operands at the index of its result has operands of the result's size.
LEMMA SameElements ==
  ASSUME NEW op, NEW N, NEW ts, NEW out, ReadsAtItsIndex(op, N, ts, out)
  PROVE  \A j \in 1 .. N : Elements(ts[j]) = Elements(out)
<1> SUFFICES ASSUME NEW j \in 1 .. N PROVE Elements(ts[j]) = Elements(out)  OBVIOUS
<1> N \in Nat /\ ts \in Seq(ToSet(ts)) /\ Len(ts) = N  BY DEF ReadsAtItsIndex
<1> NodeValid(op, ts, out) /\ \A t \in ToSet(ts) \cup {out} : ValidTensor(t)  BY DEF ReadsAtItsIndex
<1> N \in OperandCounts(op.op) /\ (op.op # "concatenate" => N = NumOperands(op.op))  BY DEF ReadsAtItsIndex
<1> op.op \notin {"splat", "matmul", "concatenate", "slice", "broadcast", "transpose", "reduce"}
  BY DEF ReadsAtItsIndex
<1>1. op.op \in Elementwise \cup Others  BY Arity
<1>2. CASE op.op \in Elementwise
  <2> DEFINE all == Append(ts, out)
  <2>1. SameShape(all)
    <3>1. op.op = "softplus_fwd" => op.attr # 0
      BY <1>2 DEF NodeValid, ParametricUnaryPointwise, ParametricUnaryValid
    <3> QED BY <1>2, <3>1, PointwiseChecks
  <2>2. all[j] = ts[j] /\ all[N + 1] = out /\ DOMAIN all = 1 .. N + 1
    <3>1. PICK E : ts \in Seq(E)  OBVIOUS
    <3>2. DOMAIN all = 1 .. Len(ts) + 1 /\ all[Len(ts) + 1] = out /\ \A m \in 1 .. Len(ts) : all[m] = ts[m]
      BY <3>1
    <3> HIDE DEF all
    <3> QED BY <3>2
  <2>3. j \in 1 .. N + 1 /\ N + 1 \in 1 .. N + 1  OBVIOUS
  <2> HIDE DEF all
  <2>4. all[j].dims = all[N + 1].dims  BY <2>1, <2>2, <2>3 DEF SameShape
  <2> QED BY <2>2, <2>4 DEF Elements
<1>3. CASE op.op = "reshape"
  <2>1. N = 1 /\ ReshapeValid(op, ts, out)  BY <1>3, Arity, OtherChecks
  <2>2. j = 1  BY <2>1
  <2> QED BY <2>1, <2>2 DEF ReshapeValid, Elements
<1>4. CASE op.op \in {"constant", "iota"}
  <2>1. N = NumOperands(op.op)  BY <1>4
  <2>2. NumOperands(op.op) = 0
    BY <1>4 DEF NumOperands, UnaryPointwise, BinaryPointwise, ParametricUnaryPointwise, ParametricBinaryPointwise
  <2> QED BY <2>1, <2>2
<1> QED BY <1>1, <1>2, <1>3, <1>4 DEF Others

\* An accepted node reads and writes inside of its tensors.
LEMMA AccessesOfNode ==
  ASSUME IsGraph(graph), TensorsOf(refTensors), NEW k \in 1 .. Len(graph.ops), NodeAccepted(refTensors, k),
         NEW i \in Elements(refTensors[NumArgs(graph) + k])
  PROVE  /\ HoldsLinear(refTensors[NumArgs(graph) + k], i)
         /\ OperandsHold(graph.ops[k], refTensors[NumArgs(graph) + k], i)
<1> DEFINE op == graph.ops[k]
           ts == OperandTensors(refTensors, k)
           out == refTensors[NumArgs(graph) + k]
           c == Unravel(i, out.dims)
<1>1. PICK N \in Nat :
         /\ DOMAIN op.ins = 1 .. N /\ ts = [j \in 1 .. N |-> refTensors[op.ins[j]]] /\ Len(ts) = N
         /\ ts \in Seq(ToSet(ts))
         /\ N \in OperandCounts(op.op) /\ IsAttribute(op.op, op.attr) /\ NodeValid(op, ts, out)
         /\ op.op # "concatenate" => N = NumOperands(op.op)
         /\ IsTensor(out) /\ \A j \in 1 .. N : IsTensor(ts[j])
         /\ \A t \in ToSet(ts) \cup {out} : ValidTensor(t)
  BY AcceptedNode, Zenon
<1> HIDE DEF op, ts
<1>2. HoldsLinear(out, i) /\ IsCoordinate(c, out.dims)  BY <1>1, ElementHeld
<1> HIDE DEF out
<1>3. \A j \in 1 .. N : ts[j] = refTensors[op.ins[j]]  BY <1>1
<1>4. op.op # "concatenate" => Len(ts) = NumOperands(op.op)  BY <1>1
<1>5. op.op \in {"slice", "reshape", "broadcast", "transpose", "reduce", "splat"} =>
         N = 1 /\ IsTensor(ts[1]) /\ ts[1] = refTensors[op.ins[1]]
  <2>1. op.op \in {"slice", "reshape", "broadcast", "transpose", "reduce", "splat"} => N = 1  BY <1>1, Arity
  <2> QED BY <1>1, <1>3, <2>1
<1> HIDE DEF c
<1>6. CASE op.op = "splat"
  <2>1. Volume(ts[1].dims) = 1  BY <1>1, <1>4, <1>6, OtherChecks DEF SplatValid
  <2>2. 0 \in Elements(ts[1])  BY <2>1 DEF Elements
  <2>3. HoldsLinear(ts[1], 0)  BY <1>5, <1>6, <2>2, ElementHeld
  <2>4. OperandsHold(op, out, i)  BY <1>5, <1>6, <2>3 DEF OperandsHold
  <2> QED BY <1>2, <2>4 DEF op, out
<1>7. CASE op.op = "matmul"
  <2>1. N = 2 /\ MatmulValid(op, ts, out)  BY <1>1, <1>4, <1>7, OtherChecks, Arity
  <2>2. /\ IsTensor(ts[1]) /\ ts[1] = refTensors[op.ins[1]]
        /\ IsTensor(ts[2]) /\ ts[2] = refTensors[op.ins[2]]
    BY <1>1, <1>3, <2>1
  <2>3. \A m \in 0 .. ts[1].dims[Len(out.dims)] - 1 :
          /\ Holds(ts[1], Replaced(c, Len(out.dims), m))
          /\ Holds(ts[2], Replaced(c, Len(out.dims) - 1, m))
    BY <1>1, <1>2, <2>1, <2>2, MatmulReads, CoordinateHeld
  <2>4. OperandsHold(op, out, i)  BY <1>7, <2>2, <2>3 DEF OperandsHold, c
  <2> QED BY <1>2, <2>4 DEF op, out
<1>8. CASE op.op = "concatenate"
  <2>1. ConcatenateValid(op, ts, out) /\ op.attr \in Int
    BY <1>1, <1>8, OtherChecks DEF IsAttribute
  <2>2. /\ ConcatenatePart(op, c) \in 1 .. N
        /\ IsCoordinate(ConcatenateSource(op, c), ts[ConcatenatePart(op, c)].dims)
    BY <1>1, <1>2, <2>1, ConcatenateReads
  <2>3. Holds(ts[ConcatenatePart(op, c)], ConcatenateSource(op, c))
    BY <1>1, <2>2, CoordinateHeld
  <2>4. Holds(refTensors[op.ins[ConcatenatePart(op, c)]], ConcatenateSource(op, c))
    BY <1>3, <2>2, <2>3
  <2>5. OperandsHold(op, out, i)  BY <1>8, <2>4 DEF OperandsHold, c
  <2> QED BY <1>2, <2>5 DEF op, out
<1>9. CASE op.op = "slice"
  <2>1. SliceValid(op, ts, out) /\ {op.attr.starts, op.attr.limits, op.attr.strides} \subseteq Seq(Int)
    BY <1>1, <1>4, <1>9, OtherChecks DEF IsAttribute
  <2>2. Holds(ts[1], SliceSource(op, c))  BY <1>1, <1>2, <1>5, <1>9, <2>1, SliceReads, CoordinateHeld
  <2>3. OperandsHold(op, out, i)  BY <1>5, <1>9, <2>2 DEF OperandsHold, c
  <2> QED BY <1>2, <2>3 DEF op, out
<1>10. CASE op.op = "broadcast"
  <2>1. BroadcastValid(op, ts, out)  BY <1>1, <1>4, <1>10, OtherChecks
  <2>2. Holds(ts[1], BroadcastSource(op, c))  BY <1>1, <1>2, <1>5, <1>10, <2>1, BroadcastReads, CoordinateHeld
  <2>3. OperandsHold(op, out, i)  BY <1>5, <1>10, <2>2 DEF OperandsHold, c
  <2> QED BY <1>2, <2>3 DEF op, out
<1>11. CASE op.op = "transpose"
  <2>1. TransposeValid(op, ts, out) /\ op.attr \in Seq(Int)
    BY <1>1, <1>4, <1>11, OtherChecks DEF IsAttribute
  <2>2. Holds(ts[1], TransposeSource(op, c))  BY <1>1, <1>2, <1>5, <1>11, <2>1, TransposeReads, CoordinateHeld
  <2>3. OperandsHold(op, out, i)  BY <1>5, <1>11, <2>2 DEF OperandsHold, c
  <2> QED BY <1>2, <2>3 DEF op, out
<1>12. CASE op.op = "reduce"
  <2>1. ReduceValid(op, ts, out) /\ op.attr.dims \in Seq(Int)
    BY <1>1, <1>4, <1>12, OtherChecks DEF IsAttribute
  <2>2. \A r \in 0 .. Volume(ReducedExtents(op)) - 1 : Holds(ts[1], ReduceSource(op, c, r))
    BY <1>1, <1>2, <1>5, <1>12, <2>1, ReduceReads, CoordinateHeld
  <2>3. OperandsHold(op, out, i)  BY <1>5, <1>12, <2>2 DEF OperandsHold, c
  <2> QED BY <1>2, <2>3 DEF op, out
<1>13. CASE op.op \notin {"splat", "matmul", "concatenate", "slice", "broadcast", "transpose", "reduce"}
  <2>0. ReadsAtItsIndex(op, N, ts, out)  BY <1>1, <1>13 DEF ReadsAtItsIndex
  <2>1. \A j \in 1 .. N : Elements(ts[j]) = Elements(out)  BY <2>0, SameElements
  <2>2. \A j \in 1 .. N : HoldsLinear(ts[j], i)
    <3> i \in Elements(out)  BY DEF out
    <3> QED BY <1>1, <2>1, ElementHeld
  <2>3. \A j \in DOMAIN op.ins : HoldsLinear(refTensors[op.ins[j]], i)  BY <1>1, <1>3, <2>2
  <2>4. OperandsHold(op, out, i)  BY <1>13, <2>3 DEF OperandsHold
  <2> QED BY <1>2, <2>4 DEF op, out
<1> QED BY <1>6, <1>7, <1>8, <1>9, <1>10, <1>11, <1>12, <1>13

\* The nodes to compute are accepted, over the tensors there are.
LEMMA AccessesFollow == AgreementInv => NodesStayInTensors
<1> SUFFICES ASSUME AgreementInv, refStatus = "executing", NEW k \in refComputed + 1 .. refNodes,
                    NEW i \in Elements(refTensors[NumArgs(graph) + k])
             PROVE  /\ HoldsLinear(refTensors[NumArgs(graph) + k], i)
                    /\ OperandsHold(graph.ops[k], refTensors[NumArgs(graph) + k], i)
  BY DEF NodesStayInTensors
<1>1. graph \in Graphs /\ IsGraph(graph)  BY GraphsAssumption DEF AgreementInv
<1>2. /\ TensorsOf(refTensors) /\ refNodes \in 0 .. Len(graph.ops) /\ refComputed \in 0 .. refNodes
      /\ \A n \in 1 .. refNodes : NodeAccepted(refTensors, n)
  BY DEF AgreementInv, ReferenceTensors, ReferenceNodes
<1>3. Len(graph.ops) \in Nat  BY <1>1, GraphParts
<1>4. k \in 1 .. refNodes /\ k \in 1 .. Len(graph.ops)  BY <1>2, <1>3
<1> QED BY <1>1, <1>2, <1>4, AccessesOfNode

\* Whatever the graph, every node that the reference interpreter computes (ReferenceNode.cpp)
\* finds its elements in the tensors it was given: the assertions of getStorageIndex
\* (SimplifiedTensor.cpp) hold, and the kernels that go without them stay in the allocation.
THEOREM ReferenceStaysInTensors == VerifierSpec => []NodesStayInTensors
BY AgreementInvHolds, AccessesFollow, PTL
=============================================================================
