--------------------------- MODULE ReferenceGraph ---------------------------
(***************************************************************************)
(* The reference interpreter: a node per operation of the graph, tensors   *)
(* in host memory addressed through strides, nodes validated, then         *)
(* computed one after the other (lib/Reference).                           *)
(***************************************************************************)
EXTENDS TensorGraph, ReferencePointwise

VARIABLES refTensors,                \* getOrCreateTensor's map: value -> dims, strides
          refMemory,                 \* host memory of each tensor: address -> term
          refNodes,                  \* nodes created (buildFromMLIR)
          refComputed,               \* nodes computed (execute)
          refStatus                  \* "building", "executing", "done", "failed"

refVars == <<refTensors, refMemory, refNodes, refComputed, refStatus>>

(***************************************************************************)
(* Tensors                                                                 *)
(***************************************************************************)
\* A scalar argument becomes a tensor of one element.
TensorShape(v) == IF IsArg(graph, v) /\ IsScalar(graph, v) THEN <<1>> ELSE ShapeOf(graph, v)

CreateTensor(dims, strides) == [dims |-> dims, strides |-> StridesOf(dims, strides)]

GetOrCreate(tensors, v, strides) ==
    IF v \in DOMAIN tensors THEN tensors
    ELSE [w \in DOMAIN tensors \cup {v} |->
            IF w = v THEN CreateTensor(TensorShape(v), strides) ELSE tensors[w]]

StorageIndex(t, coord) == Dot(coord, t.strides)
LinearStorageIndex(t, i) == StorageIndex(t, Unravel(i, t.dims))
Elements(t) == 0 .. Volume(t.dims) - 1
Storage(t) ==
    0 .. Dot([d \in DOMAIN t.dims |-> t.dims[d] - 1], t.strides)

ValidTensor(t) == \A d \in DOMAIN t.dims : t.dims[d] > 0 /\ t.strides[d] >= 0

\* Several elements may share an address (a stride of 0): the last one stays.
Filled(t, old, elements) ==
    [a \in Storage(t) |->
        LET here == {i \in Elements(t) : LinearStorageIndex(t, i) = a}
        IN  IF here = {} THEN old[a] ELSE elements[Max(here)]]

(***************************************************************************)
(* Nodes.  For each class: what validate() checks, given the tensors of    *)
(* the operands and of the result, and the element it computes.            *)
(***************************************************************************)
SameShape(ts) == \A i, j \in DOMAIN ts : ts[i].dims = ts[j].dims

PointwiseValid(node, ins, out) == SameShape(Append(ins, out))
ParametricUnaryValid(node, ins, out) ==
    PointwiseValid(node, ins, out) /\ (node.op = "softplus_fwd" => node.attr # 0)
CompareValid(node, ins, out) == SameShape(Append(ins, out))
SelectValid(node, ins, out)  == SameShape(Append(ins, out))
ConvertValid(node, ins, out) == SameShape(Append(ins, out))

NumOperands(op) ==
    CASE op \in {"constant", "iota"} -> 0
      [] op \in UnaryPointwise \cup ParametricUnaryPointwise \cup
               {"splat", "reshape", "broadcast", "convert", "reduce", "slice", "transpose"} -> 1
      [] op \in BinaryPointwise \cup ParametricBinaryPointwise \cup {"matmul", "cmp"} -> 2
      [] op = "binary_select" -> 3

SplatValid(node, ins, out) == Volume(ins[1].dims) = 1
IotaValid(node, ins, out) == node.attr \in DOMAIN out.dims
ReshapeValid(node, ins, out) == Volume(ins[1].dims) = Volume(out.dims)

MatmulValid(node, ins, out) ==
    LET a == ins[1].dims  b == ins[2].dims  c == out.dims  n == Len(c)
    IN  /\ n \in {2, 3} /\ Len(a) = n /\ Len(b) = n
        /\ n = 3 => a[1] = b[1] /\ c[1] = a[1]
        /\ a[n] = b[n - 1]
        /\ c[n - 1] = a[n - 1] /\ c[n] = b[n]

ConcatenateValid(node, ins, out) ==
    LET dim == node.attr  first == ins[1].dims
    IN  /\ ins # <<>> /\ dim \in DOMAIN first
        /\ \A t \in ToSet(ins) \cup {out} : Len(t.dims) = Len(first)
        /\ \A t \in ToSet(ins) \cup {out}, d \in DOMAIN first : d # dim => t.dims[d] = first[d]
        /\ out.dims[dim] = SumOf([k \in DOMAIN ins |-> ins[k].dims[dim]])

SliceValid(node, ins, out) ==
    LET in == ins[1].dims  s == node.attr
    IN  /\ \A seq \in {out.dims, s.starts, s.limits, s.strides} : Len(seq) = Len(in)
        /\ \A d \in DOMAIN in :
              /\ 0 <= s.starts[d] /\ s.starts[d] <= s.limits[d] /\ s.limits[d] <= in[d]
              /\ s.strides[d] > 0
              /\ out.dims[d] = IF s.limits[d] > s.starts[d]
                               THEN 1 + (s.limits[d] - 1 - s.starts[d]) \div s.strides[d]
                               ELSE 0

BroadcastValid(node, ins, out) ==
    LET in == ins[1].dims
        Expanded(d) == in[d] # out.dims[d]
    IN  /\ Len(in) = Len(out.dims)
        /\ \A d \in DOMAIN in : Expanded(d) => in[d] = 1 /\ out.dims[d] > 1
        /\ \E d \in DOMAIN in : Expanded(d)

TransposeValid(node, ins, out) ==
    LET in == ins[1].dims  perm == node.attr
    IN  /\ Len(perm) = Len(in) /\ Len(out.dims) = Len(in)
        /\ ToSet(perm) = DOMAIN in
        /\ \A d \in DOMAIN in : out.dims[d] = in[perm[d]]

ReduceValid(node, ins, out) ==
    LET in == ins[1].dims  dims == node.attr.dims
    IN  /\ Len(out.dims) = Len(in) /\ dims # <<>>
        /\ ToSet(dims) \subseteq DOMAIN in /\ IsInjective(dims)
        /\ \A d \in DOMAIN in : out.dims[d] = IF d \in ToSet(dims) THEN 1 ELSE in[d]

NodeValid(node, ins, out) ==
    /\ node.op # "concatenate" => Len(ins) = NumOperands(node.op)
    /\ \A t \in ToSet(ins) \cup {out} : ValidTensor(t)
    /\ CASE node.op = "constant"    -> TRUE
         [] node.op = "splat"       -> SplatValid(node, ins, out)
         [] node.op = "iota"        -> IotaValid(node, ins, out)
         [] node.op = "matmul"      -> MatmulValid(node, ins, out)
         [] node.op = "concatenate" -> ConcatenateValid(node, ins, out)
         [] node.op = "slice"       -> SliceValid(node, ins, out)
         [] node.op = "reshape"     -> ReshapeValid(node, ins, out)
         [] node.op = "broadcast"   -> BroadcastValid(node, ins, out)
         [] node.op = "transpose"   -> TransposeValid(node, ins, out)
         [] node.op = "reduce"      -> ReduceValid(node, ins, out)
         [] node.op = "convert"     -> ConvertValid(node, ins, out)
         [] node.op = "cmp"         -> CompareValid(node, ins, out)
         [] node.op = "binary_select" -> SelectValid(node, ins, out)
         [] node.op \in ParametricUnaryPointwise -> ParametricUnaryValid(node, ins, out)
         [] OTHER                   -> PointwiseValid(node, ins, out)

Stored(v, coord) == refMemory[v][StorageIndex(refTensors[v], coord)]
StoredAt(v, i)   == refMemory[v][LinearStorageIndex(refTensors[v], i)]

MatmulElement(node, c) ==
    LET n == Len(c)
        a == node.ins[1]
        lhs(k) == Stored(a, Replaced(c, n, k))
        rhs(k) == Stored(node.ins[2], Replaced(c, n - 1, k))
    IN  Reduced("add", [k \in 1 .. refTensors[a].dims[n] |-> Mul(lhs(k - 1), rhs(k - 1))])

\* The operand that holds the coordinate, and the coordinate in it.
PartStart(node, k) == SumOf([j \in 1 .. k - 1 |-> refTensors[node.ins[j]].dims[node.attr]])
ConcatenatePart(node, c) ==
    CHOOSE k \in DOMAIN node.ins :
        /\ PartStart(node, k) <= c[node.attr]
        /\ c[node.attr] < PartStart(node, k) + refTensors[node.ins[k]].dims[node.attr]
ConcatenateSource(node, c) ==
    Replaced(c, node.attr, c[node.attr] - PartStart(node, ConcatenatePart(node, c)))
ConcatenateElement(node, c) == Stored(node.ins[ConcatenatePart(node, c)], ConcatenateSource(node, c))

SliceSource(node, c) == [d \in DOMAIN c |-> node.attr.starts[d] + c[d] * node.attr.strides[d]]
SliceElement(node, c) == Stored(node.ins[1], SliceSource(node, c))

\* Mutant: operands of one element along a dimension are not repeated along it.
BroadcastSourceUnrepeated(node, c) == c

BroadcastSource(node, c) == [d \in DOMAIN c |-> IF refTensors[node.ins[1]].dims[d] = 1 THEN 0 ELSE c[d]]
BroadcastElement(node, c) == Stored(node.ins[1], BroadcastSource(node, c))

TransposeSource(node, c) == [d \in DOMAIN c |-> c[CHOOSE o \in DOMAIN c : node.attr[o] = d]]
TransposeElement(node, c) == Stored(node.ins[1], TransposeSource(node, c))

\* The flat sweep index over the reduced dimensions, the last listed fastest.
ReducedExtents(node) ==
    [j \in DOMAIN node.attr.dims |-> refTensors[node.ins[1]].dims[node.attr.dims[j]]]
ReduceSource(node, c, r) ==
    LET dims == node.attr.dims
        u == Unravel(r, ReducedExtents(node))
    IN  [d \in DOMAIN c |-> IF d \in ToSet(dims) THEN u[CHOOSE j \in DOMAIN dims : dims[j] = d] ELSE c[d]]
ReduceElement(node, c) ==
    LET size == Volume(ReducedExtents(node))
        At(r) == Stored(node.ins[1], ReduceSource(node, c, r))
        elements == [r \in 1 .. size |-> Prologue(node.attr.mode, At(r - 1))]
    IN  Epilogue(node.attr.mode, size, Reduced(node.attr.mode, elements))

(* Pointwise nodes *)
UnaryElement(node, i)   == EvaluateUnaryPointwise(node.op, StoredAt(node.ins[1], i))
ConvertElement(node, i) == Converted(StoredAt(node.ins[1], i))
ParametricUnaryElement(node, i) ==
    EvaluateParametricUnaryPointwise(node.op, StoredAt(node.ins[1], i), IntTerm(node.attr))
BinaryElement(node, i)  == EvaluateBinaryPointwise(node.op, StoredAt(node.ins[1], i), StoredAt(node.ins[2], i))
ParametricBinaryElement(node, i) ==
    EvaluateParametricBinaryPointwise(node.op, StoredAt(node.ins[1], i), StoredAt(node.ins[2], i), IntTerm(node.attr))
CompareElement(node, i) == EvaluateComparator(node.attr, StoredAt(node.ins[1], i), StoredAt(node.ins[2], i))
SelectElement(node, i)  == Select(StoredAt(node.ins[1], i), StoredAt(node.ins[2], i), StoredAt(node.ins[3], i))

Element(node, out, i) ==
    LET c == Unravel(i, out.dims)
    IN  CASE node.op = "constant"    -> IntTerm(node.attr)
          [] node.op = "splat"       -> StoredAt(node.ins[1], 0)
          [] node.op = "iota"        -> IntTerm(c[node.attr])
          [] node.op = "matmul"      -> MatmulElement(node, c)
          [] node.op = "concatenate" -> ConcatenateElement(node, c)
          [] node.op = "slice"       -> SliceElement(node, c)
          [] node.op = "reshape"     -> StoredAt(node.ins[1], i)
          [] node.op = "broadcast"   -> BroadcastElement(node, c)
          [] node.op = "transpose"   -> TransposeElement(node, c)
          [] node.op = "reduce"      -> ReduceElement(node, c)
          [] node.op \in UnaryPointwise            -> UnaryElement(node, i)
          [] node.op \in ParametricUnaryPointwise  -> ParametricUnaryElement(node, i)
          [] node.op \in BinaryPointwise           -> BinaryElement(node, i)
          [] node.op \in ParametricBinaryPointwise -> ParametricBinaryElement(node, i)
          [] node.op = "convert"       -> ConvertElement(node, i)
          [] node.op = "cmp"           -> CompareElement(node, i)
          [] node.op = "binary_select" -> SelectElement(node, i)

(***************************************************************************)
(* The graph                                                               *)
(***************************************************************************)
\* Arguments first, then results in turn: a value that has a tensor keeps it.
IOTensors ==
    LET IsFirst(v, r) == graph.results[r].value = v /\ \A q \in 1 .. r - 1 : graph.results[q].value # v
        Strides(v) == IF IsArg(graph, v) THEN graph.args[v].strides
                      ELSE graph.results[CHOOSE r \in DOMAIN graph.results : IsFirst(v, r)].strides
    IN  [v \in 1 .. NumArgs(graph) \cup {r.value : r \in ToSet(graph.results)} |->
            CreateTensor(TensorShape(v), Strides(v))]

RefInit ==
    /\ refTensors = <<>> /\ refMemory = <<>>
    /\ refNodes = 0 /\ refComputed = 0
    /\ refStatus = "building"

CreateIOTensor ==
    /\ refStatus = "building" /\ refTensors = <<>>
    /\ refTensors' = IOTensors
    /\ refMemory' = [v \in DOMAIN IOTensors |->
                        [a \in Storage(IOTensors[v]) |-> IF IsArg(graph, v) THEN InputTerm(v, a) ELSE Zero]]
    /\ refStatus' = IF graph.ops = <<>> THEN "done" ELSE "building"
    /\ UNCHANGED <<graph, refNodes, refComputed>>

CreateNode ==
    /\ refStatus = "building" /\ refTensors # <<>> /\ refNodes < Len(graph.ops)
    /\ LET node == graph.ops[refNodes + 1]
           v == NumArgs(graph) + refNodes + 1
           tensors == GetOrCreate(refTensors, v, <<>>)
           ins == [k \in DOMAIN node.ins |-> tensors[node.ins[k]]]
       IN  /\ refTensors' = tensors
           /\ refMemory' = [w \in DOMAIN tensors |->
                  IF w \in DOMAIN refMemory THEN refMemory[w] ELSE [a \in Storage(tensors[w]) |-> Zero]]
           /\ IF NodeValid(node, ins, tensors[v])
              THEN /\ refNodes' = refNodes + 1
                   /\ refStatus' = IF refNodes + 1 = Len(graph.ops) THEN "executing" ELSE "building"
              ELSE /\ refStatus' = "failed" /\ UNCHANGED refNodes
    /\ UNCHANGED <<graph, refComputed>>

\* Of the computations, only division has elements that it does not accept.
InputsValid(node, out) ==
    node.op \in {"div", "mod", "rem"} =>
        \A i \in Elements(out) : ValidIntegerDivRemInputs(node.op, StoredAt(node.ins[2], i))

ComputeNode ==
    /\ refStatus = "executing" /\ refComputed < refNodes
    /\ LET v == NumArgs(graph) + refComputed + 1
           out == refTensors[v]
           node == Op(graph, v)
       IN  IF InputsValid(node, out)
           THEN /\ refMemory' = [refMemory EXCEPT ![v] = Filled(out, @, [i \in Elements(out) |-> Element(node, out, i)])]
                /\ refComputed' = refComputed + 1
                /\ refStatus' = IF refComputed + 1 = refNodes THEN "done" ELSE "executing"
           ELSE /\ refStatus' = "failed"
                /\ UNCHANGED <<refMemory, refComputed>>
    /\ UNCHANGED <<graph, refTensors, refNodes>>

RefNext == CreateIOTensor \/ CreateNode \/ ComputeNode
=============================================================================
