------------------------------ MODULE TileCode ------------------------------
(***************************************************************************)
(* The code of one tile, as grid formation emits it, and what it computes. *)
(*                                                                         *)
(* An instruction has an id, by which later instructions use its result,   *)
(* operands, a tile shape, attributes and regions: code with block         *)
(* arguments that ends in a yield.  Id 0 is the constant index 0.          *)
(***************************************************************************)
EXTENDS OpVerifiers, CudaTilePointwise

Instruction(id, op, ins, shape, attr) ==
    [id |-> id, op |-> op, ins |-> ins, shape |-> shape, attr |-> attr, regions |-> <<>>]
Region(args, code, yield) == [args |-> args, code |-> code, yield |-> yield]
WithRegions(instruction, regions) == [instruction EXCEPT !.regions = regions]

\* Every instruction of the code, those of regions included.
RECURSIVE AllInstructions(_)
AllInstructions(code) ==
    FlattenSeq([k \in DOMAIN code |->
        FlattenSeq([r \in DOMAIN code[k].regions |-> AllInstructions(code[k].regions[r].code)]) \o <<code[k]>>])

Definition(code, id) ==
    LET found == SelectSeq(AllInstructions(code), LAMBDA i : i.id = id)
    IN  IF found = <<>> THEN Instruction(id, "argument", <<>>, <<>>, "none") ELSE found[1]

\* Operand types, those of the values that regions yield appended.  The value
\* that a loop carries has the type of the loop's result.
OperandShapes(code, i) ==
    LET carriedBy(id) == {l \in ToSet(AllInstructions(code)) : l.op = "for" /\ l.regions[1].args[2] = id}
        shape(id) == IF carriedBy(id) # {} THEN (CHOOSE l \in carriedBy(id) : TRUE).shape ELSE Definition(code, id).shape
    IN  [k \in DOMAIN i.ins |-> shape(i.ins[k])] \o [r \in DOMAIN i.regions |-> shape(i.regions[r].yield)]

UsedIds(code) ==
    UNION {ToSet(i.ins) \cup {r.yield : r \in ToSet(i.regions)} : i \in ToSet(AllInstructions(code))}

\* No use of a value outside of the region that defines it, or before it.
RECURSIVE UsesDominated(_, _)
UsesDominated(code, visible) ==
    \A k \in DOMAIN code :
        LET seen == visible \cup {code[j].id : j \in 1 .. k - 1}
        IN  /\ ToSet(code[k].ins) \subseteq seen
            /\ \A r \in ToSet(code[k].regions) :
                  /\ UsesDominated(r.code, seen \cup ToSet(r.args))
                  /\ r.yield \in seen \cup ToSet(r.args) \cup {i.id : i \in ToSet(r.code)}

(***************************************************************************)
(* Values of tiles: a term per element, in row-major order.                *)
(***************************************************************************)
Tile(shape, At(_)) ==
    [shape |-> shape, at |-> <<>> \o [i \in 1 .. Volume(shape) |-> At(Unravel(i - 1, shape))]]
At(tile, c) == tile.at[1 + Dot(c, RowMajor(tile.shape))]

\* The element of a view at a coordinate, unless the tile overhangs the view.
InView(view, c)  == \A d \in DOMAIN c : c[d] < view.sizes[d]
Address(view, c) == view.offset + Dot(c, view.strides)

LoadedTile(i, index, memory) ==
    LET Position(c) == [d \in DOMAIN c |-> index[d] * i.shape[d] + c[d]]
    IN  Tile(i.shape, LAMBDA c :
            IF ~InView(i.attr.view, Position(c)) THEN i.attr.padding
            ELSE IF Address(i.attr.view, Position(c)) \in DOMAIN memory[i.attr.arg]
            THEN memory[i.attr.arg][Address(i.attr.view, Position(c))]
            ELSE Undefined)

\* The writes of a store: result, address and term.
StoredTile(i, tile, index) ==
    LET Position(c) == [d \in DOMAIN c |-> index[d] * tile.shape[d] + c[d]]
        coords == {Unravel(k - 1, tile.shape) : k \in DOMAIN tile.at}
    IN  {<<i.attr.result, Address(i.attr.view, Position(c)), At(tile, c)>> :
            c \in {c \in coords : InView(i.attr.view, Position(c))}}

ReducedTile(i, tile) ==
    LET extents == [j \in DOMAIN i.attr.dims |-> tile.shape[i.attr.dims[j]]]
        At0(c, r) == At(tile, [d \in DOMAIN c |->
                        IF Contains(i.attr.dims, d) THEN r[CHOOSE j \in DOMAIN i.attr.dims : i.attr.dims[j] = d]
                        ELSE c[d]])
        Term(t) == IF i.attr.prologueApplied THEN t ELSE Prologue(i.attr.mode, t)
    IN  Tile(i.shape, LAMBDA c : Epilogue(i.attr.mode, i.attr.extent,
            Reduced(i.attr.mode, [r \in 1 .. Volume(extents) |-> Term(At0(c, Unravel(r - 1, extents)))])))

\* A reduction of one dimension, which it removes.
ReducedLine(i, tile) ==
    LET dim == i.attr.dim
        Element(c, r) == At(tile, SubSeq(c, 1, dim - 1) \o <<r - 1>> \o SubSeq(c, dim, Len(c)))
    IN  Tile(i.shape, LAMBDA c : Reduced(i.attr.mode, [r \in 1 .. tile.shape[dim] |-> Element(c, r)]))

\* [B,] M x K times [B,] K x N, added to an accumulator if there is one.
MatmulTile(i, tiles) ==
    LET n == Len(i.shape)
        terms(c) == [k \in 1 .. tiles[1].shape[n] |->
                        Mul(At(tiles[1], Replaced(c, n, k - 1)), At(tiles[2], Replaced(c, n - 1, k - 1)))]
    IN  Tile(i.shape, LAMBDA c :
            Reduced("add", (IF Len(tiles) = 3 THEN <<At(tiles[3], c)>> ELSE <<>>) \o terms(c)))

\* Whether the element lies inside the contraction in each masked dimension.
Masked(i, index, c) ==
    \A m \in DOMAIN i.attr.masks :
        LET mask == i.attr.masks[m]
        IN  index[m] * mask.tile + c[mask.dim] < mask.extent

RECURSIVE Run(_, _, _)

\* A loop carries one value from step to step; its arguments are both.
RECURSIVE Iterated(_, _, _, _, _)
Iterated(i, env, memory, step, carried) ==
    LET body == i.regions[1]
        inside == (body.args[1] :> step) @@ (body.args[2] :> carried) @@ env
    IN  IF step = i.attr THEN carried
        ELSE Iterated(i, env, memory, step + 1, Run(body.code, inside, memory)[body.yield])

ValueOf(i, env, memory) ==
    LET in == [k \in DOMAIN i.ins |-> env[i.ins[k]]]
        Moved(Source(_)) == Tile(i.shape, LAMBDA c : At(in[1], Source(c)))
        Chosen(r) == Run(r.code, env, memory)[r.yield]
    IN  CASE i.op = "index_sub"        -> in[1] - i.attr
          [] i.op = "coordinate" -> (in[1] \div i.attr.below) % i.attr.count
          [] i.op = "load"       -> LoadedTile(i, in, memory)
          [] i.op = "store"      -> StoredTile(i, in[1], Tail(in))
          [] i.op = "constant"   -> Tile(i.shape, LAMBDA c : i.attr)
          [] i.op \in {"splat", "scalar"} -> Tile(i.shape, LAMBDA c : memory[i.attr][0])
          [] i.op = "iota"       -> Tile(i.shape, LAMBDA c : IntTerm(c[i.attr]))
          [] i.op = "offset"     -> Tile(i.shape, LAMBDA c : IntTerm(Dot(in, i.attr)))
          [] i.op = "reshape"    -> [shape |-> i.shape, at |-> in[1].at]
          [] i.op \in {"slice", "extract"} -> Moved(LAMBDA c : c)
          [] i.op = "broadcast"  -> Moved(LAMBDA c : [d \in DOMAIN c |-> IF in[1].shape[d] = 1 THEN 0 ELSE c[d]])
          [] i.op = "transpose"  -> Moved(LAMBDA c : [d \in DOMAIN c |-> c[CHOOSE o \in DOMAIN c : i.attr[o] = d]])
          [] i.op = "reduce"     -> ReducedTile(i, in[1])
          [] i.op \in {"matmul", "mma"} -> MatmulTile(i, in)
          [] i.op = "tile_reduce" -> ReducedLine(i, in[1])
          [] i.op = "select"     -> Tile(i.shape, LAMBDA c : IF Masked(i, Tail(in), c) THEN At(in[1], c) ELSE i.attr.neutral)
          [] i.op = "prologue"   -> Tile(i.shape, LAMBDA c : Prologue(i.attr, At(in[1], c)))
          [] i.op = "accumulate" -> Tile(i.shape, LAMBDA c : Reduced(i.attr, <<At(in[1], c), At(in[2], c)>>))
          [] i.op = "epilogue"   -> Tile(i.shape, LAMBDA c : Epilogue(i.attr.mode, i.attr.extent, At(in[1], c)))
          [] i.op = "if"         -> IF in[1] < i.attr THEN Chosen(i.regions[1]) ELSE Chosen(i.regions[2])
          [] i.op = "for"        -> Iterated(i, env, memory, 0, in[1])
          [] OTHER               -> Tile(i.shape, LAMBDA c : LowerPointwise(i.op, [k \in DOMAIN in |-> At(in[k], c)], i.attr))

Run(code, env, memory) ==
    FoldLeft(LAMBDA e, i : (i.id :> ValueOf(i, e, memory)) @@ e, env, code)

\* What a tile writes: code, and the values of its coordinates.
Writes(code, env, memory) ==
    LET after == Run(code, env, memory)
    IN  UNION {after[i.id] : i \in {i \in ToSet(code) : i.op = "store"}}

(***************************************************************************)
(* The operations' verifiers on the code of a tile, after each pass.       *)
(***************************************************************************)
\* A coordinate is the constant 0 or a value, never a negative constant.
ViewOperandsVerified(view, tile, indices) ==
    /\ Len(view.sizes) = Len(tile) /\ Len(indices) = Len(tile)
    /\ view.offset >= 0 /\ \A d \in DOMAIN view.strides : view.strides[d] > 0

TileOpVerified(i, ins) ==
    CASE i.op = "load"      -> ViewOperandsVerified(i.attr.view, i.shape, i.ins)
      [] i.op = "store"     -> ViewOperandsVerified(i.attr.view, ins[1], Tail(i.ins))
      [] i.op = "reshape"   -> ReshapeVerified(ins[1], i.shape)
      [] i.op = "broadcast" -> BroadcastVerified(ins[1], i.shape)
      [] i.op = "transpose" -> TransposeVerified(ins[1], i.shape, i.attr)
      [] i.op = "slice"     -> \A d \in DOMAIN i.shape : i.shape[d] <= ins[1][d]
      [] i.op = "reduce"    -> ReduceVerified(ins[1], i.shape, i.attr.dims)
      [] i.op = "matmul"    -> MatmulVerified(ins, i.shape)
      [] i.op = "iota"      -> IotaVerified(i.shape, i.attr)
      [] i.op \in {"for", "if"} -> \A k \in DOMAIN ins : k > 1 \/ i.op = "for" => ins[k] = i.shape
      [] i.op = "select"    -> ins[1] = i.shape
      [] i.op \in {"constant", "splat", "offset", "index_sub"} -> TRUE
      [] OTHER              -> PointwiseVerified(ins, i.shape)

TileCodeVerified(code) ==
    \A i \in ToSet(AllInstructions(code)) : TileOpVerified(i, OperandShapes(code, i))
=============================================================================
