-------------------------- MODULE Canonicalization --------------------------
(***************************************************************************)
(* Folds and canonicalization patterns of the dialect's operations         *)
(* (lib/Dialect/Canonicalization.cpp and TensorOpsCanonicalization.td), as *)
(* a rewrite of a graph's code.  An operation keeps its id.                *)
(*                                                                         *)
(* Element types are left out, and with them the merging of conversions.   *)
(***************************************************************************)
EXTENDS CodeRewriting

\* An operation that is its first operand: in is the operand's shape.
FoldsToOperand(i, in) ==
    CASE i.op = "reshape"     -> in = i.shape
      [] i.op = "transpose"   -> in = i.shape /\ \A d \in DOMAIN in : i.attr[d] = d
      [] i.op = "slice"       -> in = i.shape /\ \A d \in DOMAIN in :
                                    i.attr.starts[d] = 0 /\ i.attr.strides[d] = 1 /\ i.attr.limits[d] = in[d]
      [] i.op = "concatenate" -> in = i.shape /\ Len(i.ins) = 1
      [] i.op = "reduce"      -> ReductionFolds(in, i.shape, i.attr.dims)
      [] OTHER                -> FALSE

ComposePermutations(inner, outer) == [d \in DOMAIN outer |-> inner[outer[d]]]

ComposedStarts(inner, outer)  == [d \in DOMAIN inner.starts |-> inner.starts[d] + outer.starts[d] * inner.strides[d]]
ComposedStrides(inner, outer) == [d \in DOMAIN inner.strides |-> inner.strides[d] * outer.strides[d]]

\* One past the last element, or the start if there is none.
ComposedLimits(inner, outer) ==
    [d \in DOMAIN inner.limits |->
        LET start == ComposedStarts(inner, outer)[d]
            count == IF outer.limits[d] > outer.starts[d]
                     THEN 1 + (outer.limits[d] - 1 - outer.starts[d]) \div outer.strides[d] ELSE 0
        IN  IF count = 0 THEN start ELSE start + (count - 1) * ComposedStrides(inner, outer)[d] + 1]

CanComposeSlices(inner, outer) == \A d \in DOMAIN inner.limits : ComposedLimits(inner, outer)[d] <= inner.limits[d]

ComposedSlice(inner, outer) ==
    [starts |-> ComposedStarts(inner, outer), limits |-> ComposedLimits(inner, outer),
     strides |-> ComposedStrides(inner, outer)]

\* An operation on the result of the same one, which is its only operand.
Merged(i, inner) ==
    CASE i.op # inner.op -> i
      [] i.op \in {"reshape", "broadcast"} -> [i EXCEPT !.ins = inner.ins]
      [] i.op = "transpose" -> [i EXCEPT !.ins = inner.ins, !.attr = ComposePermutations(inner.attr, i.attr)]
      [] i.op = "slice" /\ CanComposeSlices(inner.attr, i.attr) ->
             [i EXCEPT !.ins = inner.ins, !.attr = ComposedSlice(inner.attr, i.attr)]
      [] OTHER -> i

\* An operation after its operands: s is the canonical code and the new names.
CanonicalOp(s, code, i) ==
    LET renamed == [i EXCEPT !.ins = [k \in DOMAIN i.ins |-> Renamed(s, i.ins[k])]]
        merged == IF i.ins = <<>> THEN i ELSE Merged(renamed, Definition(s.code, renamed.ins[1]))
    IN  IF i.ins # <<>> /\ FoldsToOperand(merged, OperandShapes(code, merged)[1])
        THEN [s EXCEPT !.renamed = (i.id :> merged.ins[1]) @@ @]
        ELSE [s EXCEPT !.code = Append(@, merged)]

RECURSIVE CanonicalFrom(_, _, _)
CanonicalFrom(s, code, part) ==
    IF part = <<>> THEN s ELSE CanonicalFrom(CanonicalOp(s, code, Head(part)), code, Tail(part))

\* Operations whose results nothing uses are erased, the last one first; arguments stay.
RECURSIVE WithoutDead(_, _)
WithoutDead(code, used) ==
    IF code = <<>> THEN <<>>
    ELSE IF Last(code).id \in used \/ Last(code).op = "argument"
         THEN Append(WithoutDead(Front(code), used \cup ToSet(Last(code).ins)), Last(code))
         ELSE WithoutDead(Front(code), used)

\* The code and its results, canonical.
Canonicalized(code, results) ==
    LET s == CanonicalFrom(Emitting(0), code, code)
        renamed == [r \in DOMAIN results |-> Renamed(s, results[r])]
    IN  [code |-> WithoutDead(s.code, ToSet(renamed)), results |-> renamed]
=============================================================================
