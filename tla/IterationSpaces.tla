-------------------------- MODULE IterationSpaces --------------------------
(***************************************************************************)
(* Iteration space discovery (lib/Transform/DiscoverIterationSpaceInfo):   *)
(* the dimensions of a graph's iteration spaces, the space each value is   *)
(* computed in, and the map from a value's dimensions to the space's.      *)
(*                                                                         *)
(* A map is a sequence: the iteration dimension of each tensor dimension.  *)
(* Values without a map are not in the domain of the maps.                 *)
(***************************************************************************)
EXTENDS LayoutAlgebra

VARIABLE spaces                      \* what was discovered: rank, ids, maps; or Failed

IdentityMap(rank) == [d \in 1 .. rank |-> d]
FilteredIdentity(rank, dims) == SelectSeq(IdentityMap(rank), LAMBDA d : d \notin dims)
Dropped(op) == IF Len(op.shape) = Rank(graph, op.ins[1]) THEN {} ELSE ToSet(op.attr.dims)

(***************************************************************************)
(* The operations' iteration space interface                               *)
(***************************************************************************)
NumIterSpaceDims(op) ==
    CASE op.op = "matmul"                -> Len(op.shape) + 1
      [] op.op \in {"splat", "constant"} -> Len(op.shape)
      [] OTHER                           -> Rank(graph, op.ins[1])

\* A is (..., m, k), B is (..., k, n), the result and the accumulator (..., m, n).
MatmulInput(k, rank) ==
    CASE k = 1 -> FilteredIdentity(rank, {rank - 1})
      [] k = 2 -> FilteredIdentity(rank, {rank - 2, rank - 1, rank}) \o <<rank, rank - 1>>
      [] OTHER -> FilteredIdentity(rank, {rank})

CanonicalInput(op, k, rank) ==
    CASE op.op = "matmul" -> MatmulInput(k, rank)
      [] op.op = "splat"  -> <<>>
      [] OTHER -> IF rank = Rank(graph, op.ins[k]) THEN IdentityMap(rank) ELSE Failed

ReduceOutput(op, rank) == IF rank = Rank(graph, op.ins[1]) THEN FilteredIdentity(rank, Dropped(op)) ELSE Failed

CanonicalOutput(op, rank) ==
    CASE op.op = "matmul" -> FilteredIdentity(rank, {rank})
      [] op.op = "reduce" -> ReduceOutput(op, rank)
      [] OTHER -> IF rank = Len(op.shape) THEN IdentityMap(rank) ELSE Failed

InferMatmulInput(k, map, rank) ==
    CASE k = 1 -> Replaced(map, Len(map), rank)
      [] k = 2 -> Replaced(map, Len(map) - 1, rank)
      [] OTHER -> map

\* A dropped dimension comes back at its own position.
InferReduceInput(op, map, rank) ==
    IF Dropped(op) = {} THEN map
    ELSE IF rank # Rank(graph, op.ins[1]) \/ Len(map) # Len(op.shape) THEN Failed
    ELSE [d \in 1 .. rank |-> IF d \in Dropped(op) THEN d ELSE map[Cardinality((1 .. d) \ Dropped(op))]]

InferInput(op, k, map, rank) ==
    CASE op.op = "matmul" -> InferMatmulInput(k, map, rank)
      [] op.op = "reduce" -> InferReduceInput(op, map, rank)
      [] OTHER -> IF Len(map) = Rank(graph, op.ins[k]) THEN map ELSE Failed

InferMatmulOutput(op, maps) ==
    IF {op.ins[1], op.ins[2]} \subseteq DOMAIN maps
    THEN Replaced(maps[op.ins[1]], Len(maps[op.ins[1]]), Last(maps[op.ins[2]]))
    ELSE Failed

InferReduceOutput(op, maps) ==
    IF op.ins[1] \notin DOMAIN maps THEN Failed
    ELSE LET map == maps[op.ins[1]]
             kept == SelectSeq(IdentityMap(Len(map)), LAMBDA d : d \notin Dropped(op))
         IN  [j \in DOMAIN kept |-> map[kept[j]]]

\* By default the map of the first operand that has one.
InferOutput(op, maps) ==
    LET known == {k \in DOMAIN op.ins : op.ins[k] \in DOMAIN maps}
    IN  CASE op.op = "matmul" -> InferMatmulOutput(op, maps)
          [] op.op = "reduce" -> InferReduceOutput(op, maps)
          [] op.op = "splat"  -> IdentityMap(Len(op.shape))
          [] OTHER -> IF known = {} THEN Failed ELSE maps[op.ins[Min(known)]]

\* The input of a splat is a scalar: it needs no map.
HasInputMap(op, k, maps) == op.op = "splat" \/ op.ins[k] \in DOMAIN maps

(***************************************************************************)
(* The dimensions, and the ids of the iteration spaces                     *)
(***************************************************************************)
DiscoveredRank == Max({0} \cup {NumIterSpaceDims(op) : op \in ToSet(graph.ops)})

\* The iteration dimensions that an operand defines, or has an extent in.
DefinedInputs(op, defined) ==
    LET map(k) == CanonicalInput(op, k, NumIterSpaceDims(op))
    IN  UNION {{map(k)[d] : d \in {d \in DOMAIN map(k) :
                                      d \in defined[op.ins[k]] \/ ShapeOf(graph, op.ins[k])[d] > 1}} :
                  k \in DOMAIN op.ins}

DefinedOutputs(op, inputs) ==
    LET map == CanonicalOutput(op, NumIterSpaceDims(op))
    IN  {d \in DOMAIN op.shape : op.shape[d] > 1 \/ map[d] \in inputs}

\* A broadcast that expands a unit dimension which was defined before.
IsTransition(op, inputs) ==
    op.op = "broadcast" /\ \E d \in inputs : ShapeOf(graph, op.ins[1])[d] = 1 /\ op.shape[d] > 1

\* The space of the last operand that an operation computes.
InputSpace(op, ids) ==
    LET computed == {k \in DOMAIN op.ins : ~IsArg(graph, op.ins[k])}
    IN  IF computed = {} THEN 0 ELSE ids[op.ins[Max(computed)]]

SpaceOf(s, op, inputs) ==
    LET transition == IsTransition(op, inputs)
    IN  [ids |-> Append(s.ids, IF transition THEN s.current + 1 ELSE InputSpace(op, s.ids)),
         defined |-> Append(s.defined, DefinedOutputs(op, inputs)),
         current |-> IF transition THEN s.current + 1 ELSE s.current]

RECURSIVE PropagateIds(_, _)
PropagateIds(s, ops) ==
    IF ops = <<>> THEN s.ids
    ELSE PropagateIds(SpaceOf(s, Head(ops), DefinedInputs(Head(ops), s.defined)), Tail(ops))

IterSpaceIds ==
    PropagateIds([ids |-> [a \in 1 .. NumArgs(graph) |-> 0],
                  defined |-> [a \in 1 .. NumArgs(graph) |-> {}], current |-> 0], graph.ops)

\* Conversions are looked through.
RECURSIVE ConvertedFrom(_)
ConvertedFrom(v) == IF ~IsArg(graph, v) /\ Op(graph, v).op = "convert" THEN ConvertedFrom(Op(graph, v).ins[1]) ELSE v

ArgumentIds(a, ids) ==
    LET users == {v \in Values(graph) : ~IsArg(graph, v) /\ \E i \in ToSet(Op(graph, v).ins) : ConvertedFrom(i) = a}
    IN  IF users = {} THEN {0} ELSE {ids[v] : v \in users}

(***************************************************************************)
(* The maps                                                                *)
(***************************************************************************)
RECURSIVE MapInputs(_, _, _, _)
MapInputs(maps, op, k, map) ==
    IF k > Len(op.ins) THEN maps
    ELSE IF HasInputMap(op, k, maps) THEN MapInputs(maps, op, k + 1, map)
    ELSE LET inferred == InferInput(op, k, map, DiscoveredRank)
         IN  IF inferred = Failed THEN Failed ELSE MapInputs((op.ins[k] :> inferred) @@ maps, op, k + 1, map)

\* From the values' map, or the canonical one, to the operands; the last operation first.
RECURSIVE PropagateBackwards(_, _)
PropagateBackwards(maps, v) ==
    IF maps = Failed \/ IsArg(graph, v) THEN maps
    ELSE LET map == IF v \in DOMAIN maps THEN maps[v] ELSE CanonicalOutput(Op(graph, v), DiscoveredRank)
         IN  IF map = Failed THEN PropagateBackwards(maps, v - 1)
             ELSE PropagateBackwards(MapInputs((v :> map) @@ maps, Op(graph, v), 1, map), v - 1)

RECURSIVE CanonicalInputs(_, _, _)
CanonicalInputs(maps, op, k) ==
    IF k > Len(op.ins) THEN maps
    ELSE LET map == CanonicalInput(op, k, DiscoveredRank)
         IN  IF HasInputMap(op, k, maps) \/ map = Failed THEN CanonicalInputs(maps, op, k + 1)
             ELSE CanonicalInputs((op.ins[k] :> map) @@ maps, op, k + 1)

RECURSIVE PropagateForward(_, _)
PropagateForward(maps, v) ==
    IF maps = Failed \/ v \notin Values(graph) THEN maps
    ELSE LET known == CanonicalInputs(maps, Op(graph, v), 1)
             map == InferOutput(Op(graph, v), known)
         IN  PropagateForward(IF v \in DOMAIN known \/ map = Failed THEN known ELSE (v :> map) @@ known, v + 1)

RECURSIVE PropagateMaps(_)
PropagateMaps(maps) ==
    LET next == PropagateForward(PropagateBackwards(maps, Cardinality(Values(graph))), NumArgs(graph) + 1)
    IN  IF next = Failed THEN Failed
        ELSE IF DOMAIN next = DOMAIN maps THEN maps ELSE PropagateMaps(next)

\* Without operations, the arguments map to the minor dimensions.
MaxRank(values) == Max({Rank(graph, v) : v \in values})
DefaultMaps ==
    [v \in Values(graph) |->
        [d \in 1 .. Rank(graph, v) |-> MaxRank(Values(graph)) - Rank(graph, v) + d]]

(***************************************************************************)
(* The pass.  Every tensor needs a map.                                    *)
(***************************************************************************)
Unsupported == \E op \in ToSet(graph.ops) : op.op = "concatenate"

Discovered ==
    LET maps == IF graph.ops = <<>> THEN DefaultMaps ELSE PropagateMaps([v \in {} |-> <<>>])
        ids == IterSpaceIds
    IN  IF Unsupported \/ maps = Failed THEN Failed
        ELSE IF \E v \in Values(graph) : ~IsScalar(graph, v) /\ v \notin DOMAIN maps THEN Failed
        ELSE [rank |-> IF graph.ops = <<>> THEN MaxRank(Values(graph)) ELSE DiscoveredRank, maps |-> maps,
              ids |-> [v \in Values(graph) |-> IF IsArg(graph, v) THEN ArgumentIds(v, ids) ELSE {ids[v]}]]
=============================================================================
