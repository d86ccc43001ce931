------------------------------- MODULE TileGrid -------------------------------
(***************************************************************************)
(* How many blocks a compiled kernel is launched with, and what they do.   *)
(* The grid is decided three times: by the compiler passes FormGrid and    *)
(* StaticPersistence, which shape the kernel; by computeStaticGridSize or  *)
(* computeTileBasedGrid, which size its launch for the interpreter host    *)
(* target; and by the native launch wrapper.  Nothing but these            *)
(* computations agreeing makes every tile be processed, once.              *)
(***************************************************************************)
EXTENDS Shapes, FiniteSets, FiniteSetsExt

CONSTANTS
  Requests, \* what is compiled
  Extents,  \* the runtime extents of a dynamic dimension
  MaxI32,   \* INT32_MAX
  MaxI64    \* INT64_MAX

\* A graph and the options it is compiled with: the shape of the output tensor
\* that drives the grid, the iteration space its reshape normalizes to, the
\* tile sizes, static persistence, and whether the host target is native.
IsRequest(r) ==
  /\ DOMAIN r = {"outShape", "iterShape", "tile", "persistent", "smCount",
                 "occupancy", "native"}
  /\ r.outShape \in Seq(Nat \cup {Dynamic}) /\ r.iterShape \in Seq(Nat \cup {Dynamic})
  /\ r.tile \in Seq(Nat \ {0})
  /\ Len(r.iterShape) = Len(r.tile)
  /\ Len(DynamicDims(r.outShape)) = Len(DynamicDims(r.iterShape))
  /\ {r.persistent, r.native} \subseteq BOOLEAN
  /\ {r.smCount, r.occupancy} \subseteq Int

ASSUME RequestAssumption == \A r \in Requests : IsRequest(r)
ASSUME WidthAssumption == MaxI32 \in Nat \ {0} /\ MaxI64 \in Nat /\ MaxI32 < MaxI64 /\ Extents \subseteq 0 .. MaxI32

VARIABLES
  request,  \* what is compiled
  phase,    \* "source", "rejected", "compiled", "running"
  kernel,   \* the outlined kernel: its serial loop and the grid limit
  metadata, \* the grid part of KernelMetadata
  total, bound, loop, grid, cursor, written \* one launch, see GridStride

launchVars == <<total, bound, loop, grid, cursor, written>>
vars == <<request, phase, kernel, metadata, launchVars>>

Device == INSTANCE GridStride WITH Totals <- Nat, Grids <- Nat \ {0}

CeilDiv(a, b) == (a + b - 1) \div b
IsDynamic(shape) == DynamicDims(shape) # <<>>

\* Index values are i32 on the device: constants are truncated, products wrap.
ToI32(n) == LET w == n % (2 * (MaxI32 + 1)) IN IF w > MaxI32 THEN w - 2 * (MaxI32 + 1) ELSE w

Nothing == [loop |-> FALSE, static |-> TRUE, limit |-> 0]
NoMetadata == [runtimeGrid |-> FALSE, staticGrid |-> 1, gridShape |-> <<>>,
               gridShapeDimMapping |-> <<>>]

Init ==
  /\ request \in Requests
  /\ phase = "source"
  /\ kernel = Nothing
  /\ metadata = NoMetadata
  /\ total = 0 /\ bound = 0 /\ loop = FALSE /\ grid = 0
  /\ cursor = <<>> /\ written = {}

-----------------------------------------------------------------------------
(* Compilation.                                                            *)

StaticCounts(r) == [i \in DOMAIN r.tile |-> CeilDiv(r.iterShape[i], r.tile[i])]

\* formGrid multiplies the counts from the left; while both operands are
\* static, an overflow of the 64-bit product is an error.
FormGridOverflows(r) ==
  LET static == SelectInSeq(r.iterShape, LAMBDA d : d = Dynamic)
      prefix == IF static = 0 THEN Len(r.iterShape) ELSE static - 1
  IN \E n \in 1 .. prefix : Product(SubSeq(StaticCounts(r), 1, n)) > MaxI64

PersistenceRejected(r) ==
  \/ r.smCount < 1
  \/ r.occupancy < 1
  \/ r.smCount * r.occupancy > MaxI32

\* Mutant: only a static grid gets the serial loop.
FormStaticPersistenceStatic(r) ==
  [loop   |-> /\ r.persistent /\ ~IsDynamic(r.iterShape)
              /\ Product(StaticCounts(r)) > r.smCount * r.occupancy,
   static |-> ~IsDynamic(r.iterShape),
   limit  |-> r.smCount * r.occupancy]

\* formStaticPersistence: a static grid within the limit stays as it is.
FormStaticPersistence(r) ==
  [loop   |-> /\ r.persistent
              /\ IsDynamic(r.iterShape) \/ Product(StaticCounts(r)) > r.smCount * r.occupancy,
   static |-> ~IsDynamic(r.iterShape),
   limit  |-> r.smCount * r.occupancy]

\* The product of the tile counts, saturated at MaxI32; the first zero and the
\* first saturation end the loop over the dimensions.
SaturatedProduct(counts) ==
  LET step(acc, c) ==
        CASE acc.done -> acc
          [] ~acc.done /\ c = 0 -> [value |-> 0, done |-> TRUE]
          [] ~acc.done /\ c > 0 /\ c > MaxI32 \div acc.value -> [value |-> MaxI32, done |-> TRUE]
          [] OTHER -> [value |-> acc.value * c, done |-> FALSE]
  IN FoldLeft(step, [value |-> 1, done |-> FALSE], counts).value

\* Mutant: the grid of a persistent kernel is not limited.
ClampPersistentNever(r, tiles) == tiles

ClampPersistent(r, tiles) ==
  IF r.persistent /\ r.smCount > 0 /\ r.occupancy > 0
  THEN Min({tiles, r.smCount * r.occupancy}) ELSE tiles

ComputeStaticGridSize(r) ==
  Min({ClampPersistent(r, SaturatedProduct(StaticCounts(r))), MaxI32})

\* Mutant: a dimension of the iteration space is sized by the output dimension
\* of the same number, as if no dimension were merged.
GridShapeDimMappingIdentity(r) ==
  [i \in DOMAIN r.iterShape |-> IF r.iterShape[i] = Dynamic THEN i ELSE 0]

\* configureLayoutPropGridMetadata: the k-th dynamic dimension of the iteration
\* space is sized by the k-th dynamic dimension of the output tensor.
GridShapeDimMapping(r) ==
  LET ordinal(i) == Cardinality({j \in 1 .. i : r.iterShape[j] = Dynamic})
  IN [i \in DOMAIN r.iterShape |->
        IF r.iterShape[i] = Dynamic THEN DynamicDims(r.outShape)[ordinal(i)] ELSE 0]

ConfigureGridMetadata(r) ==
  [runtimeGrid |-> IsDynamic(r.outShape),
   staticGrid  |-> IF IsDynamic(r.outShape) THEN 1 ELSE ComputeStaticGridSize(r),
   gridShape   |-> r.iterShape,
   gridShapeDimMapping |-> GridShapeDimMapping(r)]

Compile ==
  /\ phase = "source"
  /\ IF FormGridOverflows(request) \/ (request.persistent /\ PersistenceRejected(request))
     THEN phase' = "rejected" /\ UNCHANGED <<kernel, metadata>>
     ELSE /\ phase' = "compiled"
          /\ kernel' = FormStaticPersistence(request)
          /\ metadata' = ConfigureGridMetadata(request)
  /\ UNCHANGED <<request, launchVars>>

-----------------------------------------------------------------------------
(* Launch.                                                                 *)

\* The runtime shapes the output tensor of a request may have.
RuntimeShapes(r) ==
  LET dims == {i \in DOMAIN r.outShape : r.outShape[i] = Dynamic}
  IN {[i \in DOMAIN r.outShape |-> IF i \in dims THEN e[i] ELSE r.outShape[i]] :
        e \in [dims -> Extents]}

\* The kernel's own tile counts: formGrid takes the extent of a dynamic root
\* dimension from the boundary's dynamic sizes, consumed in order.
KernelCounts(r, shape) ==
  LET values == [k \in DOMAIN DynamicDims(r.outShape) |-> shape[DynamicDims(r.outShape)[k]]]
      position(i) == CHOOSE k \in DOMAIN DynamicDims(r.iterShape) : DynamicDims(r.iterShape)[k] = i
      extent(i) == IF r.iterShape[i] = Dynamic THEN values[position(i)] ELSE r.iterShape[i]
  IN [i \in DOMAIN r.tile |-> CeilDiv(extent(i), r.tile[i])]

ComputeTileBasedGrid(r, meta, shape) ==
  LET size(i) == IF meta.gridShape[i] = Dynamic
                 THEN shape[meta.gridShapeDimMapping[i]] ELSE meta.gridShape[i]
      counts == [i \in DOMAIN r.tile |-> CeilDiv(size(i), r.tile[i])]
  IN Min({ClampPersistent(r, SaturatedProduct(counts)), MaxI32})

InterpreterGrid(r, meta, shape) ==
  IF meta.runtimeGrid THEN ComputeTileBasedGrid(r, meta, shape) ELSE meta.staticGrid

\* Mutant: a dynamic grid is not limited by the tiles there are.
NativeGridUnlimited(k, tiles) ==
  CASE ~k.loop            -> tiles
    [] k.loop /\ k.static -> Max({1, k.limit})
    [] OTHER              -> Max({k.limit, 1})

\* The grid operand of the outlined launch: the upper bound of the forall.
NativeGrid(k, tiles) ==
  CASE ~k.loop            -> tiles
    [] k.loop /\ k.static -> Max({1, k.limit})
    [] OTHER              -> Max({Min({tiles, k.limit}), 1})

\* The grid the host target launches the kernel with.
HostGrid(shape) ==
  IF request.native THEN NativeGrid(kernel, Product(KernelCounts(request, shape)))
  ELSE InterpreterGrid(request, metadata, shape)

\* The wrapper rejects a grid beyond UINT32_MAX, the driver one that is zero or
\* beyond the limit of gridDim.x.
LaunchAccepts(g) == g \in 1 .. MaxI32

Launch ==
  /\ phase = "compiled"
  /\ \E shape \in RuntimeShapes(request) :
       LET tiles == Product(KernelCounts(request, shape))
           g == HostGrid(shape)
       IN /\ LaunchAccepts(g)
          /\ phase' = "running"
          /\ total' = tiles
          /\ bound' = ToI32(tiles)
          /\ loop' = kernel.loop
          /\ grid' = g
          /\ cursor' = [b \in 0 .. g - 1 |-> b]
          /\ written' = {}
  /\ UNCHANGED <<request, kernel, metadata>>

\* A block processes its next tile; grid id, loop and bound are those of the
\* launch.
ProcessTile(b) ==
  /\ phase = "running"
  /\ Device!ProcessTile(b)
  /\ UNCHANGED <<request, phase, kernel, metadata>>

\* The grid has finished; the kernel may be launched again, on other shapes.
Complete ==
  /\ phase = "running"
  /\ Device!Finished
  /\ phase' = "compiled"
  /\ total' = 0 /\ bound' = 0 /\ loop' = FALSE /\ grid' = 0
  /\ cursor' = <<>> /\ written' = {}
  /\ UNCHANGED <<request, kernel, metadata>>

Next ==
  \/ Compile
  \/ Launch
  \/ \E b \in Device!Blocks : ProcessTile(b)
  \/ Complete

\* A resident block makes progress; waiting blocks get the place of finished ones.
Fairness == WF_vars(Complete) /\ WF_vars(\E b \in Device!Blocks : ProcessTile(b))

Spec == Init /\ [][Next]_vars
FairSpec == Spec /\ Fairness

-----------------------------------------------------------------------------
(* The tile a block's index stands for.                                    *)

\* Mutant: the divisor of a dimension includes its own count.
DelinearizeOffByOne(r, counts, t) ==
  LET single(i) == r.iterShape[i] # Dynamic /\ counts[i] = 1
      tiled == {i \in DOMAIN counts : ~single(i)}
      rest(i) == t \div Product([j \in 1 .. i |-> IF single(j) THEN 1 ELSE counts[j]])
  IN [i \in DOMAIN counts |->
        CASE i \notin tiled -> 0
          [] i \in tiled /\ i = Max(tiled) -> rest(i)
          [] OTHER -> rest(i) % counts[i]]

\* delinearize: column-major; the last dimension with more than one tile takes
\* what is left of the index, and dimensions of a single tile are constant 0.
\* Only a static count can be known to be 1.
Delinearize(r, counts, t) ==
  LET single(i) == r.iterShape[i] # Dynamic /\ counts[i] = 1
      tiled == {i \in DOMAIN counts : ~single(i)}
      rest(i) == t \div Product([j \in 1 .. i - 1 |-> IF single(j) THEN 1 ELSE counts[j]])
  IN [i \in DOMAIN counts |->
        CASE i \notin tiled -> 0
          [] i \in tiled /\ i = Max(tiled) -> rest(i)
          [] OTHER -> rest(i) % counts[i]]

Tiles(counts) == {c \in [DOMAIN counts -> 0 .. MaxI32] : \A i \in DOMAIN counts : c[i] < counts[i]}

-----------------------------------------------------------------------------
(* The inductive invariant: the kernel and the metadata are those of the   *)
(* request, a launch those of some runtime shape, and its blocks have      *)
(* processed tiles of their own only, below their cursors.                 *)

CompiledInv == phase \in {"compiled", "running"} =>
  /\ kernel = FormStaticPersistence(request)
  /\ metadata = ConfigureGridMetadata(request)
  /\ request.persistent => ~PersistenceRejected(request)

LaunchedInv == phase = "running" =>
  \E shape \in RuntimeShapes(request) :
    /\ total = Product(KernelCounts(request, shape))
    /\ bound = ToI32(total)
    /\ loop = kernel.loop
    /\ grid = HostGrid(shape) /\ LaunchAccepts(grid)

\* Not every launch is valid, see LaunchIsValid: an invalid one still gives no
\* tile to two blocks.
ProgressInv == phase = "running" =>
  /\ cursor \in [Device!Blocks -> Nat] /\ written \subseteq Nat
  /\ Device!CursorInv
  /\ \A t \in written : t < cursor[t % grid]
  /\ Device!ValidLaunch => Device!WrittenInv

GridInv ==
  /\ request \in Requests
  /\ phase \in {"source", "rejected", "compiled", "running"}
  /\ CompiledInv /\ LaunchedInv /\ ProgressInv

-----------------------------------------------------------------------------
(* Properties.                                                             *)

\* Whatever host target launches it and whatever the runtime extents are, an
\* accepted launch of fewer than 2^31 tiles gives a direct kernel one block per
\* tile and a persistent one a loop up to the number of tiles.  The exception is
\* an empty space whose leading extents saturate the host's product before it
\* sees the zero: the interpreter launches blocks that have no tile.
LaunchIsValid ==
  phase = "running" /\ total <= MaxI32 =>
    Device!ValidLaunch \/ (total = 0 /\ ~loop /\ ~request.native)

\* A persistent kernel never has more blocks than the device keeps resident.
PersistentGridFits ==
  phase = "running" /\ request.persistent => grid <= request.smCount * request.occupancy

\* The interpreter and the native launch wrapper give a kernel the same grid,
\* for every runtime shape with tiles.
HostPathsAgree ==
  phase = "compiled" =>
    \A shape \in RuntimeShapes(request) :
      LET tiles == Product(KernelCounts(request, shape))
      IN tiles \in 1 .. MaxI32 =>
           NativeGrid(kernel, tiles) = InterpreterGrid(request, metadata, shape)

\* The indices of the tiles stand for the tiles: the delinearized index runs
\* once through every tile of the iteration space, for every runtime shape.
IndicesAreTiles ==
  phase = "compiled" =>
    \A shape \in RuntimeShapes(request) :
      LET counts == KernelCounts(request, shape)
          tiles == Product(counts)
      IN tiles <= MaxI32 =>
           {Delinearize(request, counts, t) : t \in 0 .. tiles - 1} = Tiles(counts)

\* When a launch has finished, every tile was processed and no other index.
AllTilesProcessed ==
  phase = "running" /\ total <= MaxI32 /\ (total > 0 \/ loop \/ request.native) =>
    Device!AllTilesProcessed

\* No tile is processed twice.
EachTileOnce ==
  [][phase = "running" /\ phase' = "running" =>
       \A b \in Device!Blocks : cursor'[b] # cursor[b] => cursor[b] \notin written]_vars

\* Every launch finishes: no block loops forever.
LaunchFinishes == phase = "running" ~> phase = "compiled"

\* KernelLaunchHelpers.h:184 promises ceil(shape[i] / tileSize[i]) blocks per
\* dimension, flattened into gridDimX.
GridIsTileCount == phase = "running" /\ ~request.persistent => grid = total
=============================================================================
