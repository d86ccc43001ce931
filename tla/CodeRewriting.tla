--------------------------- MODULE CodeRewriting ---------------------------
(***************************************************************************)
(* Dialect conversion: operations are visited in order, each is replaced   *)
(* by the ones emitted for it, and later operations use the new values.    *)
(*                                                                         *)
(* The state s is the code of the region that is emitted into, all that    *)
(* was emitted, the next id, the new values of converted operations and    *)
(* the last value.                                                         *)
(***************************************************************************)
EXTENDS TileCode

Emitting(next) == [code |-> <<>>, emitted |-> <<>>, next |-> next, renamed |-> <<>>, value |-> 0]
Renamed(s, id) == IF id \in DOMAIN s.renamed THEN s.renamed[id] ELSE id

\* An intermediate operation, and the one whose result stands for the original's.
EmitTile(s, op, ins, shape, attr) ==
    LET new == Instruction(s.next, op, ins, shape, attr)
    IN  [s EXCEPT !.code = Append(@, new), !.emitted = Append(@, new), !.next = @ + 1, !.value = s.next]
Replacing(s, i) == [s EXCEPT !.renamed = (i.id :> s.value) @@ @]
EmitUnlessType(done, s, op, shape, attr) == IF done THEN s ELSE EmitTile(s, op, <<s.value>>, shape, attr)

\* A reduction of unit dimensions to its own type folds to its operand, whatever its mode.
ReductionFolds(in, out, dims) == in = out /\ \A d \in ToSet(dims) : in[d] = 1
=============================================================================
