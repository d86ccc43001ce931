--------------------------- MODULE VerifiedGraph ---------------------------
(***************************************************************************)
(* A graph that the reference interpreter builds and computes, and that    *)
(* the compiler verifies before its passes run.  Each decides alone which  *)
(* graphs are well formed.                                                 *)
(***************************************************************************)
EXTENDS ReferenceGraph, OpVerifiers

CONSTANT Graphs                        \* the programs
ASSUME GraphsAssumption == \A g \in Graphs : IsGraph(g)

VARIABLE compileStatus                 \* "parsed", "rejected", or a status of the compilation from "analyzing" on

verifierVars == <<graph, refVars, compileStatus>>

VerifyGraph ==
    /\ compileStatus = "parsed"
    /\ compileStatus' = IF GraphVerified(graph) THEN "analyzing" ELSE "rejected"
    /\ UNCHANGED <<graph, refVars>>

\* The passes on a verified graph.
CompileVerified ==
    /\ compileStatus \notin {"parsed", "rejected"} /\ compileStatus' \notin {"parsed", "rejected"}
    /\ UNCHANGED <<graph, refVars>>

VerifierInit == graph \in Graphs /\ RefInit /\ compileStatus = "parsed"
VerifierNext == (RefNext /\ UNCHANGED compileStatus) \/ VerifyGraph \/ CompileVerified

\* What a compilation of a graph beside its reference promises.
VerifierSpec == VerifierInit /\ [][VerifierNext]_verifierVars

(***************************************************************************)
(* What the reference interpreter does not compute although it verifies:   *)
(* reductions that drop their dimensions or have none, matmuls with an     *)
(* accumulator or with batches of batches, a softplus whose beta is 0,     *)
(* division by 0, and empty tensors.                                       *)
(***************************************************************************)
DividesByZero(op) ==
    /\ op.op \in {"div", "mod", "rem"} /\ refNodes = Len(graph.ops)
    /\ \E i \in Elements(refTensors[op.ins[2]]) : StoredAt(op.ins[2], i) = Zero

BeyondReference(op) ==
    \/ op.op = "reduce" /\ (op.attr.dims = <<>> \/ Len(op.shape) # Len(ShapeOf(graph, op.ins[1])))
    \/ op.op = "matmul" /\ (Len(op.shape) > 3 \/ Len(op.ins) # 2)
    \/ op.op = "softplus_fwd" /\ op.attr = 0
    \/ DividesByZero(op)
    \/ 0 \in ToSet(op.shape) \cup UNION {ToSet(ShapeOf(graph, in)) : in \in ToSet(op.ins)}

\* Once the reference has ended, the graphs that the verifiers reject are those
\* whose reference failed: GraphOp's verifiers and Node::validate agree otherwise.
VerifierAndReferenceAgree ==
    (/\ compileStatus # "parsed" /\ refStatus \in {"done", "failed"}
     /\ \A op \in ToSet(graph.ops) : ~BeyondReference(op)) =>
        (compileStatus = "rejected" <=> refStatus = "failed")

(***************************************************************************)
(* What the reference interpreter reads and writes.  getStorageIndex       *)
(* asserts that an index lies within its tensor; most kernels run without  *)
(* the assertion, and nothing else guards the tensor's allocation.         *)
(***************************************************************************)
IsCoordinate(c, dims) == DOMAIN c = DOMAIN dims /\ \A d \in DOMAIN dims : c[d] \in 0 .. dims[d] - 1
Holds(t, c)       == IsCoordinate(c, t.dims) /\ StorageIndex(t, c) \in Storage(t)
HoldsLinear(t, i) == i \in Elements(t) /\ LinearStorageIndex(t, i) \in Storage(t)

\* The operands hold what computing element i of the result reads.
OperandsHold(node, out, i) ==
    LET c == Unravel(i, out.dims)
        n == Len(out.dims)
        in(k) == refTensors[node.ins[k]]
    IN  CASE node.op = "splat"       -> HoldsLinear(in(1), 0)
          [] node.op = "matmul"      ->
                 \A k \in 0 .. in(1).dims[n] - 1 : Holds(in(1), Replaced(c, n, k)) /\ Holds(in(2), Replaced(c, n - 1, k))
          [] node.op = "concatenate" -> Holds(in(ConcatenatePart(node, c)), ConcatenateSource(node, c))
          [] node.op = "slice"       -> Holds(in(1), SliceSource(node, c))
          [] node.op = "broadcast"   -> Holds(in(1), BroadcastSource(node, c))
          [] node.op = "transpose"   -> Holds(in(1), TransposeSource(node, c))
          [] node.op = "reduce"      ->
                 \A r \in 0 .. Volume(ReducedExtents(node)) - 1 : Holds(in(1), ReduceSource(node, c, r))
          [] OTHER                   -> \A k \in DOMAIN node.ins : HoldsLinear(in(k), i)

\* No node that validate() accepted reads or writes outside of its tensors.
NodesStayInTensors ==
    refStatus = "executing" =>
        \A k \in refComputed + 1 .. refNodes :
            LET out == refTensors[NumArgs(graph) + k]
            IN  \A i \in Elements(out) : HoldsLinear(out, i) /\ OperandsHold(graph.ops[k], out, i)
=============================================================================
