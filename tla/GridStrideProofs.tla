--------------------------- MODULE GridStrideProofs ---------------------------
(***************************************************************************)
(* Every valid launch processes every tile exactly once, for every number  *)
(* of tiles and every grid size.                                           *)
(***************************************************************************)
EXTENDS GridStride, DataLemmas, TLAPS

\* Every block starts at its own index.
LEMMA InitEstablishes == Init => StrideInv
<1> SUFFICES ASSUME Init PROVE StrideInv  OBVIOUS
<1>1. StrideTypeOK  BY CountAssumption DEF Init, StrideTypeOK, Blocks
<1>2. ValidLaunch   BY DEF Init
<1>3. CursorInv
  <2> SUFFICES ASSUME NEW b \in Blocks PROVE cursor[b] % grid = b /\ (~loop => cursor[b] \in {b, b + grid})
    BY DEF CursorInv
  <2>1. cursor[b] = b  BY DEF Init
  <2> QED BY <1>1, <2>1, SmallMod DEF StrideTypeOK, Blocks
<1>4. WrittenInv
  <2>0. total \in Nat /\ grid \in Nat \ {0}  BY <1>1 DEF StrideTypeOK
  <2> SUFFICES ASSUME NEW t \in 0 .. total - 1 PROVE ~(t < cursor[t % grid])
    BY DEF WrittenInv, Init
  <2>1. t % grid \in Blocks /\ t % grid <= t
    <3>1. t \in Nat  BY <2>0
    <3>2. PICK q \in Nat, r \in 0 .. grid - 1 : r = t % grid /\ t = grid * q + r  BY <2>0, <3>1, DivMod
    <3>3. grid * q \in Nat  BY <2>0, SMT
    <3> QED BY <2>0, <3>2, <3>3, SMT DEF Blocks
  <2>2. cursor[t % grid] = t % grid  BY <2>1 DEF Init
  <2> QED BY <2>0, <2>1, <2>2, SMT DEF Blocks
<1> QED BY <1>1, <1>2, <1>3, <1>4 DEF StrideInv

\* A block that runs is at a tile of the iteration space.
LEMMA RunningInRange ==
  ASSUME StrideInv, NEW b \in Blocks, Running(b)
  PROVE  cursor[b] < total
<1>1. CASE loop   BY <1>1 DEF StrideInv, ValidLaunch, Running
<1>2. CASE ~loop  BY <1>2, SMT DEF StrideInv, StrideTypeOK, ValidLaunch, Running, Blocks
<1> QED BY <1>1, <1>2

\* A processed tile moves its block to the next tile of its residue class.
LEMMA StepPreserves == StrideInv /\ [Next]_strideVars => StrideInv'
<1> SUFFICES ASSUME StrideInv, [Next]_strideVars PROVE StrideInv'  OBVIOUS
<1>1. CASE UNCHANGED strideVars
  BY <1>1 DEF strideVars, StrideInv, StrideTypeOK, ValidLaunch, CursorInv, WrittenInv, Blocks
<1>2. ASSUME NEW b \in Blocks, ProcessTile(b) PROVE StrideInv'
  <2>1. /\ total' = total /\ bound' = bound /\ loop' = loop /\ grid' = grid
        /\ Blocks' = Blocks
        /\ cursor' = [cursor EXCEPT ![b] = @ + grid]
        /\ written' = written \cup {cursor[b]}
    BY <1>2 DEF ProcessTile, Blocks
  <2>2. /\ grid \in Nat \ {0} /\ total \in Nat
        /\ cursor \in [Blocks -> Nat] /\ cursor[b] \in Nat
    BY DEF StrideInv, StrideTypeOK
  <2>3. cursor[b] % grid = b         BY DEF StrideInv, CursorInv
  <2>4. cursor[b] < total            BY <1>2, RunningInRange DEF ProcessTile
  <2>5. StrideTypeOK'
    <3>1. cursor[b] + grid \in Nat   BY <2>2, SMT
    <3>2. cursor' \in [Blocks -> Nat]  BY <2>1, <2>2, <3>1
    <3> QED BY <2>1, <2>2, <3>2 DEF StrideInv, StrideTypeOK
  <2>6. ValidLaunch'                 BY <2>1 DEF StrideInv, ValidLaunch
  <2>7. CursorInv'
    <3> SUFFICES ASSUME NEW c \in Blocks
                 PROVE cursor'[c] % grid = c /\ (~loop => cursor'[c] \in {c, c + grid})
      BY <2>1 DEF CursorInv
    <3>1. CASE c # b
      BY <2>1, <2>2, <3>1 DEF StrideInv, CursorInv
    <3>2. CASE c = b
      <4>1. cursor'[c] = cursor[b] + grid      BY <2>1, <2>2, <3>2
      <4>2. (cursor[b] + grid) % grid = b      BY <2>2, <2>3, ModStep
      <4>3. ~loop => cursor[b] = b             BY <1>2 DEF ProcessTile, Running
      <4> QED BY <3>2, <4>1, <4>2, <4>3
    <3> QED BY <3>1, <3>2
  <2>8. WrittenInv'
    <3>9. cursor[b] \in 0 .. total - 1  BY <2>2, <2>4
    <3>8. written \subseteq 0 .. total - 1  BY DEF StrideInv, WrittenInv
    <3> SUFFICES ASSUME NEW t \in 0 .. total - 1
                 PROVE t \in written' <=> t < cursor'[t % grid]
      BY <2>1, <3>8, <3>9 DEF WrittenInv
    <3>7. t \in Nat /\ t < total  BY <2>2
    <3>0. t % grid \in Blocks  BY <2>2, <3>7, DivMod DEF Blocks
    <3>1. t \in written <=> t < cursor[t % grid]  BY DEF StrideInv, WrittenInv
    <3>2. CASE t = cursor[b]
      <4>1. cursor'[t % grid] = t + grid  BY <2>1, <2>2, <2>3, <3>2
      <4> QED BY <2>1, <2>2, <3>7, <3>2, <4>1, SMT
    <3>3. CASE t # cursor[b] /\ t % grid # b
      BY <2>1, <2>2, <3>0, <3>1, <3>3
    <3>4. CASE t # cursor[b] /\ t % grid = b
      <4>1. cursor'[t % grid] = cursor[b] + grid  BY <2>1, <2>2, <3>4
      <4>2. t < cursor[b] + grid => t < cursor[b]
        BY <2>2, <2>3, <3>4, <3>7, ModWindow, SMT
      <4> QED BY <2>1, <2>2, <3>1, <3>4, <3>7, <4>1, <4>2, SMT
    <3> QED BY <3>2, <3>3, <3>4
  <2> QED BY <2>5, <2>6, <2>7, <2>8 DEF StrideInv
<1> QED BY <1>1, <1>2 DEF Next

\* The invariant of a launch: every block owns its residue class of tiles and
\* has processed exactly the ones below its cursor.
THEOREM StrideInvariant == Spec => []StrideInv
<1> QED BY InitEstablishes, StepPreserves, PTL DEF Spec

\* A persistent or direct launch processes every tile of the iteration space,
\* and no other index, whatever the order in which its blocks run.
THEOREM LaunchProcessesAllTiles == Spec => []AllTilesProcessed
<1>1. StrideInv => AllTilesProcessed
  <2> SUFFICES ASSUME StrideInv, Finished PROVE written = 0 .. total - 1
    BY DEF AllTilesProcessed
  <2>1. /\ grid \in Nat \ {0} /\ total \in Nat /\ written \subseteq Nat
        /\ cursor \in [Blocks -> Nat]
    BY DEF StrideInv, StrideTypeOK
  <2>2. ASSUME NEW t \in written PROVE t \in 0 .. total - 1
    BY <2>1, <2>2, SMT DEF StrideInv, WrittenInv
  <2>3. ASSUME NEW t \in 0 .. total - 1 PROVE t \in written
    <3>1. t \in Nat /\ t < total       BY <2>1, <2>3, SMT
    <3> DEFINE b == t % grid
    <3>2. b \in Blocks                 BY <2>1, <3>1, DivMod DEF Blocks
    <3>3. ~Running(b)                  BY <3>2 DEF Finished
    <3>4. t < cursor[b]
      <4>1. CASE loop
        BY <2>1, <3>1, <3>2, <3>3, <4>1, SMT DEF Running, StrideInv, ValidLaunch
      <4>2. CASE ~loop
        <5>1. cursor[b] = b + grid
          BY <3>2, <3>3, <4>2 DEF Running, StrideInv, CursorInv
        <5>2. grid = total             BY <4>2 DEF StrideInv, ValidLaunch
        <5> QED BY <2>1, <3>1, <3>2, <5>1, <5>2, SMT DEF Blocks
      <4> QED BY <4>1, <4>2
    <3> QED BY <3>1, <3>4 DEF StrideInv, WrittenInv
  <2> QED BY <2>2, <2>3
<1> QED BY <1>1, StrideInvariant, PTL

\* No tile is processed twice, by one block or by two.
THEOREM LaunchProcessesTilesOnce == Spec => EachTileOnce
<1>1. StrideInv /\ [Next]_strideVars
        => [\A b \in Blocks : cursor'[b] # cursor[b] => cursor[b] \notin written]_strideVars
  <2> SUFFICES ASSUME StrideInv, NEW c \in Blocks, ProcessTile(c),
                      NEW b \in Blocks, cursor'[b] # cursor[b]
               PROVE  cursor[b] \notin written
    BY DEF Next
  <2>1. cursor \in [Blocks -> Nat]  BY DEF StrideInv, StrideTypeOK
  <2>2. b = c                       BY <2>1 DEF ProcessTile
  <2>3. cursor[c] % grid = c        BY DEF StrideInv, CursorInv
  <2> QED BY <2>1, <2>2, <2>3, SMT DEF StrideInv, WrittenInv
<1> QED BY <1>1, StrideInvariant, PTL DEF Spec, EachTileOnce
=============================================================================
