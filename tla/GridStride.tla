------------------------------ MODULE GridStride ------------------------------
(***************************************************************************)
(* The device half of one kernel launch: the blocks of a one-dimensional   *)
(* grid process the flattened tiles of the iteration space.  OutlineKernel *)
(* makes the block id the induction variable of the forall, so a direct    *)
(* kernel processes tile blockId; StaticPersistence wraps the body in      *)
(*   scf.for tile = blockId to bound step gridDim                          *)
(* Blocks run in any order and any interleaving.                           *)
(***************************************************************************)
EXTENDS Naturals

CONSTANTS
  Totals, \* tile counts a launch may have
  Grids   \* grid sizes a launch may have

ASSUME CountAssumption == Totals \subseteq Nat /\ Grids \subseteq Nat \ {0}

VARIABLES
  total,   \* the tiles of the iteration space
  bound,   \* the upper bound the serial loop compares with
  loop,    \* the kernel is persistent: it has the serial loop
  grid,    \* gridDim.x
  cursor,  \* cursor[b]: the tile block b processes next
  written  \* the tiles some block has processed

strideVars == <<total, bound, loop, grid, cursor, written>>

Blocks == 0 .. grid - 1

\* Mutant: the loop ends one tile early.
RunningShort(b) == IF loop THEN cursor[b] + 1 < bound ELSE cursor[b] = b

\* The code of a direct kernel has no test: a block always processes its tile.
Running(b) == IF loop THEN cursor[b] < bound ELSE cursor[b] = b

Finished == \A b \in Blocks : ~Running(b)

\* What makes a launch correct: a direct kernel has one block per tile, a
\* persistent one loops up to the number of tiles.
ValidLaunch == IF loop THEN bound = total ELSE grid = total

Init ==
  /\ total \in Totals
  /\ bound = total
  /\ grid \in Grids
  /\ loop \in BOOLEAN
  /\ ValidLaunch
  /\ cursor = [b \in Blocks |-> b]
  /\ written = {}

\* Mutant: the loop steps by the block's id.
ProcessTileStepBlock(b) ==
  /\ Running(b)
  /\ written' = written \cup {cursor[b]}
  /\ cursor' = [cursor EXCEPT ![b] = @ + b]
  /\ UNCHANGED <<total, bound, loop, grid>>

ProcessTile(b) ==
  /\ Running(b)
  /\ written' = written \cup {cursor[b]}
  /\ cursor' = [cursor EXCEPT ![b] = @ + grid]
  /\ UNCHANGED <<total, bound, loop, grid>>

Next == \E b \in Blocks : ProcessTile(b)

Spec == Init /\ [][Next]_strideVars

-----------------------------------------------------------------------------

\* No two iterations, of the same block or of different ones, process the same
\* tile: an in-place update or a reduction into the output runs once.
EachTileOnce == [][\A b \in Blocks : cursor'[b] # cursor[b] => cursor[b] \notin written]_strideVars

\* When every block has finished, every tile has been processed, and nothing
\* outside the iteration space.
AllTilesProcessed == Finished => written = 0 .. total - 1

-----------------------------------------------------------------------------
(* The inductive invariant: block b owns the tiles congruent to b modulo   *)
(* the grid, and has processed those below its cursor.                     *)

StrideTypeOK ==
  /\ total \in Nat
  /\ bound \in Nat
  /\ loop \in BOOLEAN
  /\ grid \in Nat \ {0}
  /\ cursor \in [Blocks -> Nat]
  /\ written \subseteq Nat

CursorInv == \A b \in Blocks :
  /\ cursor[b] % grid = b
  /\ ~loop => cursor[b] \in {b, b + grid}

WrittenInv == written = {t \in 0 .. total - 1 : t < cursor[t % grid]}

StrideInv == StrideTypeOK /\ ValidLaunch /\ CursorInv /\ WrittenInv
=============================================================================
