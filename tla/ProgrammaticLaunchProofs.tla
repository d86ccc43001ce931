----------------------- MODULE ProgrammaticLaunchProofs -----------------------
(***************************************************************************)
(* Accesses of programmatically launched grids are safe and grids complete *)
(* in order, for every set of entries, of options and of CTAs.             *)
(***************************************************************************)
EXTENDS ProgrammaticLaunch, WellFoundedInduction, TLAPS

\* Every CTA that executes e waits, and performs no access before.
Synchronized(e) ==
  \E w \in DOMAIN e :
    /\ e[w].kind = "gdc_wait" /\ ~e[w].region
    /\ \A i \in DOMAIN e : e[i].kind = "access" => w \in e[i].tokens

\* e consumes at least the tokens that s was written to consume.
Refines(e, s) ==
  \A i \in DOMAIN s : i \in DOMAIN e /\ s[i].tokens \subseteq e[i].tokens

Good(a) == /\ Refines(a.code, a.source)
           /\ DOMAIN a.code \subseteq Nat
           /\ a.usesPDL => Synchronized(a.code)

----------------------------------------------------------------------------
\* The pass.

\* The insertion point is at or above every access.
LEMMA FirstAccess ==
  ASSUME NEW e, IsEntry(e), NEW i \in OfKind(e, "access")
  PROVE  WaitInsertionPoint(e) <= e[i].item
<1> DEFINE access == OfKind(e, "access")
           items  == {e[j].item : j \in access}
<1>1. items \subseteq Nat /\ e[i].item \in items
  BY DEF IsEntry, OfKind, OpType
<1> HIDE DEF items
<1>2. PICK m \in items : \A x \in items : ~ (<<x, m>> \in OpToRel(<, Nat))
  BY <1>1, NatLessThanWellFounded, WFMin
<1>3. ASSUME NEW x \in items PROVE m <= x
  <2>1. m \in Nat /\ x \in Nat
    BY <1>1
  <2>2. SUFFICES ASSUME x < m PROVE FALSE
    BY <2>1
  <2>3. <<x, m>> \in OpToRel(<, Nat)
    BY <2>1, <2>2 DEF OpToRel
  <2>4. QED
    BY <1>2, <2>3
<1>4. Min(items) \in items /\ \A x \in items : Min(items) <= x
  BY <1>2, <1>3 DEF Min
<1>5. WaitInsertionPoint(e) = Min(items)
  BY DEF WaitInsertionPoint, items
<1>6. QED
  BY <1>1, <1>4, <1>5

\* The pass keeps what an access consumes and, where it does not fail, leaves
\* an entry that waits for the preceding grid before each of its accesses.
LEMMA PassSynchronizes ==
  ASSUME NEW e, IsEntry(e)
  PROVE  /\ Refines(InsertGdcWait(e), e) /\ DOMAIN InsertGdcWait(e) \subseteq Nat
         /\ ~LeftAlone(e) => Synchronized(InsertGdcWait(e))
<1> DEFINE r == InsertGdcWait(e)
<1>1. CASE LeftAlone(e)
  BY <1>1 DEF InsertGdcWait, Refines, IsEntry
<1>2. CASE ~LeftAlone(e)
  <2>1. DOMAIN r = DOMAIN e \cup {Wait} /\ Wait \notin DOMAIN e
    BY <1>2 DEF InsertGdcWait, IsEntry, Wait
  <2>2. r[Wait] = WaitOp(e)
    BY <1>2 DEF InsertGdcWait
  <2>3. ASSUME NEW i \in DOMAIN e
        PROVE  /\ e[i] \in OpType
               /\ e[i].tokens \subseteq r[i].tokens
               /\ r[i].kind = e[i].kind
               /\ e[i].kind = "access" => Wait \in r[i].tokens
    <3>1. e[i] \in OpType /\ i # Wait
      BY <2>1, <2>3 DEF IsEntry
    <3>2. r[i] = IF i \in MemoryOps(e) THEN SetOrJoinToken(e[i]) ELSE e[i]
      BY <1>2, <2>3, <3>1 DEF InsertGdcWait
    <3>3. SetOrJoinToken(e[i]).tokens = e[i].tokens \cup {Wait}
          /\ SetOrJoinToken(e[i]).kind = e[i].kind
      BY <3>1 DEF SetOrJoinToken, OpType
    <3>4. e[i].kind = "access" => i \in MemoryOps(e)
      <4>1. SUFFICES ASSUME e[i].kind = "access" PROVE i \in MemoryOps(e)
        OBVIOUS
      <4>2. i \in OfKind(e, "access")
        BY <4>1, <2>3 DEF OfKind
      <4>3. WaitInsertionPoint(e) <= e[i].item
        BY <4>2, FirstAccess
      <4>4. QED
        BY <4>2, <4>3 DEF MemoryOps
    <3>5. QED
      BY <3>1, <3>2, <3>3, <3>4
  <2>4. Refines(r, e)
    BY <2>1, <2>3 DEF Refines
  <2>5. Synchronized(r)
    <3>1. Wait \in DOMAIN r /\ r[Wait].kind = "gdc_wait" /\ ~r[Wait].region
      BY <2>1, <2>2 DEF WaitOp
    <3>2. \A i \in DOMAIN r : r[i].kind = "access" => Wait \in r[i].tokens
      BY <2>1, <2>3, <3>1
    <3>3. QED
      BY <3>1, <3>2 DEF Synchronized
  <2>6. DOMAIN r \subseteq Nat
    BY <2>1 DEF IsEntry, Wait
  <2>7. QED
    BY <2>4, <2>5, <2>6
<1>3. QED
  BY <1>1, <1>2

\* What compile returns: PDL only for code that waits in time, and in every
\* case code that keeps the written order.
LEMMA ArtifactIsGood ==
  ASSUME NEW e \in Entries, NEW o \in Options
  PROVE  Good(Artifact(e, o))
<1> DEFINE a == Artifact(e, o)
<1>1. IsEntry(e) /\ ExplicitlySynchronized(e)
  BY EntriesAssumption
<1>2. CASE o.load # {}
  <2>1. PICK l \in o.load : l = CHOOSE x \in o.load : TRUE
    BY <1>2
  <2>2. l \in Entries
    BY OptionsAssumption DEF OptionType
  <2>3. IsEntry(l)
    BY <2>2, EntriesAssumption
  <2>4. a.source = l /\ a.code = l /\ ~a.usesPDL
    BY <1>2, <2>1 DEF Artifact
  <2>5. QED
    BY <2>3, <2>4 DEF Good, Refines, IsEntry
<1>3. CASE o.load = {}
  <2>1. a.source = e /\ a.code = Lowered(e, o)
       /\ (a.usesPDL => FrontendUsesPDL(e, o))
    BY <1>3 DEF Artifact
  <2>2. Refines(Lowered(e, o), e) /\ DOMAIN Lowered(e, o) \subseteq Nat
    <3>1. Refines(e, e) /\ DOMAIN e \subseteq Nat
      BY <1>1 DEF Refines, IsEntry
    <3>2. QED
      BY <3>1, <1>1, PassSynchronizes DEF Lowered
  <2>3. ASSUME FrontendUsesPDL(e, o) PROVE Synchronized(Lowered(e, o))
    <3>1. OfKind(Lowered(e, o), "gdc_wait") # {}
      BY <2>3 DEF FrontendUsesPDL
    <3>2. CASE OfKind(e, "gdc_wait") # {}
      <4>1. Lowered(e, o) = e
        BY <3>2 DEF Lowered, InsertGdcWait, LeftAlone
      <4>2. Synchronized(e)
        BY <3>2, <1>1 DEF ExplicitlySynchronized, Synchronized, OfKind
      <4>3. QED
        BY <4>1, <4>2
    <3>3. CASE OfKind(e, "gdc_wait") = {}
      <4>1. ~LeftAlone(e) /\ Lowered(e, o) = InsertGdcWait(e)
        BY <3>1, <3>3 DEF Lowered, InsertGdcWait, LeftAlone
      <4>2. QED
        BY <4>1, <1>1, PassSynchronizes
    <3>4. QED
      BY <3>2, <3>3
  <2>4. QED
    BY <2>1, <2>2, <2>3 DEF Good
<1>4. QED
  BY <1>2, <1>3

----------------------------------------------------------------------------
\* The stream.  What the safety of accesses rests on, besides types: the code
\* of every launched grid is good; a CTA runs all of the entry block and keeps
\* token order; a wait that was performed saw its predecessor complete; a grid
\* that is not PDL started after all before it; a complete grid has no CTA left.
GoodGrids == \A k \in Launched : Good(grids[k])

RunsEntryBlock ==
  /\ \A k \in Slots \ started, c \in CTAs : todo[k][c] = {}
  /\ \A k \in started, c \in CTAs :
       /\ todo[k][c] \subseteq DOMAIN Code(k)
       /\ \A i \in DOMAIN Code(k) : ~Code(k)[i].region => i \in todo[k][c]

TokenOrder ==
  \A k \in started, c \in CTAs : \A i \in done[k][c] :
    Code(k)[i].tokens \cap todo[k][c] \subseteq done[k][c]

Waited ==
  \A k \in started, c \in CTAs : \A i \in done[k][c] :
    Code(k)[i].kind = "gdc_wait" => k = 1 \/ k - 1 \in flushed

SerialStart ==
  \A k \in started : ~grids[k].usesPDL => \A j \in 1 .. k - 1 : j \in flushed

FlushedExited == \A k \in flushed, c \in CTAs : done[k][c] = todo[k][c]

IInv ==
  /\ TypeOK /\ GoodGrids /\ RunsEntryBlock /\ TokenOrder /\ Waited
  /\ SerialStart /\ FlushedExited /\ CompletionInOrder

LEMMA InitIInv == Init => IInv
<1> SUFFICES ASSUME Init PROVE IInv
  OBVIOUS
<1>1. Launched = {} /\ Len(grids) = 0
  BY DEF Init, Launched
<1>2. TypeOK
  BY <1>1, MaxGridsAssumption DEF Init, TypeOK
<1>3. QED
  BY <1>1, <1>2 DEF Init, IInv, GoodGrids, RunsEntryBlock, TokenOrder, Waited,
                    SerialStart, FlushedExited, CompletionInOrder

\* Launching leaves the grids that are in the stream as they are.
LEMMA LaunchIInv ==
  ASSUME IInv, NEW e \in Entries, NEW o \in Options, Launch(e, o)
  PROVE  IInv'
<1> DEFINE a == Artifact(e, o)
<1>1. /\ UNCHANGED <<started, todo, done, flushed>>
      /\ grids' = Append(grids, a) /\ Len(grids) < MaxGrids
      /\ ~CompileFails(e, o)
  BY DEF Launch
<1> HIDE DEF a
<1>2. TypeOK /\ Len(grids) \in Nat /\ Launched = 1 .. Len(grids)
  BY DEF IInv, TypeOK, Launched
<1>3. /\ Len(grids') = Len(grids) + 1
      /\ Launched' = Launched \cup {Len(grids) + 1}
      /\ \A k \in Launched : grids'[k] = grids[k]
      /\ grids'[Len(grids) + 1] = a
  BY <1>1, <1>2 DEF Launched, TypeOK
<1>4. \A k \in started : grids'[k] = grids[k] /\ Code(k)' = Code(k)
  BY <1>2, <1>3 DEF TypeOK, Code
<1>5. TypeOK'
  <2>1. a \in Artifacts /\ Artifacts' = Artifacts
    BY <1>1 DEF a, Artifacts
  <2>2. grids' \in Seq(Artifacts)
    BY <2>1, <1>1, <1>2 DEF TypeOK
  <2>3. QED
    BY <2>1, <2>2, <1>1, <1>2, <1>3, MaxGridsAssumption DEF TypeOK
<1>6. GoodGrids'
  BY <1>3, ArtifactIsGood DEF a, IInv, GoodGrids
<1>7. RunsEntryBlock' /\ TokenOrder' /\ Waited'
  BY <1>1, <1>4 DEF IInv, RunsEntryBlock, TokenOrder, Waited, Slots
<1>8. SerialStart' /\ FlushedExited' /\ CompletionInOrder'
  BY <1>1, <1>4 DEF IInv, SerialStart, FlushedExited, CompletionInOrder
<1>9. QED
  BY <1>5, <1>6, <1>7, <1>8 DEF IInv

LEMMA StartGridIInv ==
  ASSUME IInv, NEW k \in Launched, StartGrid(k)
  PROVE  IInv'
<1>1. PICK t \in [CTAs -> Executions(Code(k))] : todo' = [todo EXCEPT ![k] = t]
  BY DEF StartGrid
<1>2. /\ UNCHANGED <<grids, done, flushed>> /\ started' = started \cup {k}
      /\ k \notin started
  BY DEF StartGrid
<1>3. TypeOK /\ k \in Slots /\ Launched = 1 .. Len(grids)
  BY MaxGridsAssumption DEF IInv, TypeOK, Launched, Slots
<1>4. \A c \in CTAs : /\ t[c] \subseteq DOMAIN Code(k) /\ t[c] \subseteq Nat
                      /\ \A i \in DOMAIN Code(k) : ~Code(k)[i].region => i \in t[c]
  BY <1>1 DEF Executions, IInv, GoodGrids, Good, Code
<1>5. \A j \in Slots, c \in CTAs : todo'[j][c] = IF j = k THEN t[c] ELSE todo[j][c]
  BY <1>1, <1>3 DEF TypeOK
<1>6. \A c \in CTAs : todo[k][c] = {} /\ done[k][c] = {}
  BY <1>2, <1>3 DEF IInv, RunsEntryBlock, TypeOK
<1>7. \A j \in started : j \in Slots /\ j # k
  BY <1>2, <1>3, MaxGridsAssumption DEF TypeOK, Slots
<1>8. \A j \in started' : Code(j)' = Code(j) /\ Launched' = Launched
  BY <1>2 DEF Code, Launched
<1>9. TypeOK'
  <2>1. todo' \in [Slots -> [CTAs -> SUBSET Nat]]
    <3>1. t \in [CTAs -> SUBSET Nat]
      BY <1>4
    <3>2. QED
      BY <3>1, <1>1, <1>3 DEF TypeOK
  <2>2. \A j \in Slots, c \in CTAs : done'[j][c] \subseteq todo'[j][c]
    BY <1>2, <1>3, <1>5, <1>6 DEF TypeOK
  <2>3. flushed' \subseteq started' /\ started' \subseteq Launched'
    BY <1>2, <1>3 DEF TypeOK, Launched
  <2>4. QED
    BY <2>1, <2>2, <2>3, <1>2, <1>3 DEF TypeOK
<1>10. GoodGrids'
  BY <1>2 DEF IInv, GoodGrids, Launched
<1>11. RunsEntryBlock'
  BY <1>2, <1>3, <1>4, <1>5, <1>7, <1>8 DEF IInv, RunsEntryBlock, Slots
<1>12. TokenOrder'
  <2>1. ASSUME NEW j \in started', NEW c \in CTAs, NEW i \in done'[j][c]
        PROVE  Code(j)'[i].tokens \cap todo'[j][c] \subseteq done'[j][c]
    <3>1. done'[j][c] = done[j][c] /\ j # k /\ j \in started
      BY <1>2, <1>6, <2>1
    <3>2. todo'[j][c] = todo[j][c] /\ Code(j)' = Code(j)
      BY <1>5, <1>7, <1>8, <3>1
    <3>3. Code(j)[i].tokens \cap todo[j][c] \subseteq done[j][c]
      BY <2>1, <3>1 DEF IInv, TokenOrder
    <3>4. QED
      BY <3>1, <3>2, <3>3
  <2>2. QED
    BY <2>1 DEF TokenOrder
<1>13. Waited'
  BY <1>2, <1>3, <1>6, <1>8 DEF IInv, Waited
<1>14. SerialStart'
  BY <1>2 DEF IInv, SerialStart, StartGrid, MayStart, ProgrammaticStreamSerialization
<1>15. FlushedExited'
  BY <1>2, <1>3, <1>5, <1>7 DEF IInv, FlushedExited, TypeOK
<1>16. CompletionInOrder'
  BY <1>2 DEF IInv, CompletionInOrder
<1>17. QED
  BY <1>9, <1>10, <1>11, <1>12, <1>13, <1>14, <1>15, <1>16 DEF IInv

\* Performing an operation: its tokens were there, and a wait saw k - 1 complete.
LEMMA PerformIInv ==
  ASSUME IInv, NEW k \in Launched, NEW c \in CTAs, NEW i \in DOMAIN Code(k),
         Execute(k, c, i) \/ GdcWait(k, c, i)
  PROVE  IInv'
<1>1. /\ UNCHANGED <<grids, started, todo, flushed>>
      /\ done' = [done EXCEPT ![k][c] = @ \cup {i}]
      /\ k \in started /\ i \in todo[k][c] /\ i \notin done[k][c]
      /\ Code(k)[i].tokens \cap todo[k][c] \subseteq done[k][c]
      /\ Code(k)[i].kind = "gdc_wait" => k = 1 \/ k - 1 \in flushed
  BY DEF Execute, GdcWait, Perform, Ready
<1>2. TypeOK /\ k \in Slots
  BY MaxGridsAssumption DEF IInv, TypeOK, Launched, Slots
<1>3. \A j \in Slots, d \in CTAs :
        done'[j][d] = IF j = k /\ d = c THEN done[j][d] \cup {i} ELSE done[j][d]
  <2>1. done \in [Slots -> [CTAs -> SUBSET Nat]]
    BY <1>2 DEF TypeOK
  <2>2. \A j \in Slots : done'[j] = IF j = k THEN [done[k] EXCEPT ![c] = @ \cup {i}] ELSE done[j]
    BY <1>1, <1>2, <2>1
  <2>3. \A d \in CTAs :
          [done[k] EXCEPT ![c] = @ \cup {i}][d] = IF d = c THEN done[k][d] \cup {i} ELSE done[k][d]
    BY <1>2, <2>1
  <2>4. QED
    BY <2>2, <2>3
<1>4. \A j \in started : j \in Slots /\ Code(j)' = Code(j)
  BY <1>1, <1>2, MaxGridsAssumption DEF TypeOK, Slots, Launched, Code
<1>5. i \in Nat
  BY DEF IInv, GoodGrids, Good, Code
<1>6. TypeOK'
  <2>1. done' \in [Slots -> [CTAs -> SUBSET Nat]]
    BY <1>1, <1>2, <1>5 DEF TypeOK
  <2>2. \A j \in Slots, d \in CTAs : done'[j][d] \subseteq todo'[j][d]
    BY <1>1, <1>2, <1>3 DEF TypeOK
  <2>3. QED
    BY <2>1, <2>2, <1>1, <1>2 DEF TypeOK, Launched
<1>7. GoodGrids' /\ RunsEntryBlock' /\ SerialStart' /\ CompletionInOrder'
  BY <1>1, <1>4 DEF IInv, GoodGrids, RunsEntryBlock, SerialStart, CompletionInOrder,
                    Launched, Code, Slots
<1>8. TokenOrder'
  BY <1>1, <1>2, <1>3, <1>4 DEF IInv, TokenOrder
<1>9. Waited'
  BY <1>1, <1>2, <1>3, <1>4 DEF IInv, Waited
<1>10. FlushedExited'
  BY <1>1, <1>2, <1>3, <1>4 DEF IInv, FlushedExited, TypeOK
<1>11. QED
  BY <1>6, <1>7, <1>8, <1>9, <1>10 DEF IInv

\* A grid that completes has all before it complete: a grid that is not PDL
\* started then, and a CTA of a PDL grid has waited for the one before.
LEMMA FlushIInv ==
  ASSUME IInv, NEW k \in Launched, Flush(k)
  PROVE  IInv'
<1>1. /\ UNCHANGED <<grids, started, todo, done>> /\ flushed' = flushed \cup {k}
      /\ k \in started /\ \A c \in CTAs : done[k][c] = todo[k][c]
  BY DEF Flush, Exited
<1>2. TypeOK /\ k \in Nat /\ flushed \subseteq Nat
  BY DEF IInv, TypeOK, Launched
<1>3. TypeOK' /\ GoodGrids' /\ RunsEntryBlock' /\ TokenOrder' /\ FlushedExited'
  <2>1. TypeOK'
    <3>1. flushed \subseteq started
      BY <1>2 DEF TypeOK
    <3>2. flushed' \subseteq started'
      BY <1>1, <3>1
    <3>3. Launched' = Launched /\ Slots' = Slots
      BY <1>1 DEF Launched, Slots
    <3>4. QED
      BY <1>1, <1>2, <3>2, <3>3 DEF TypeOK
  <2>2. GoodGrids'
    BY <1>1 DEF IInv, GoodGrids, Launched
  <2>3. RunsEntryBlock'
    <3>1. RunsEntryBlock /\ Slots' = Slots /\ \A j \in started : Code(j)' = Code(j)
      BY <1>1 DEF IInv, Slots, Code
    <3>2. QED
      BY <1>1, <3>1 DEF RunsEntryBlock
  <2>4. TokenOrder'
    BY <1>1 DEF IInv, TokenOrder, Code
  <2>5. FlushedExited'
    BY <1>1 DEF IInv, FlushedExited
  <2>6. QED
    BY <2>1, <2>2, <2>3, <2>4, <2>5
<1>4. Waited' /\ SerialStart'
  BY <1>1 DEF IInv, Waited, SerialStart, Code
<1>5. \A j \in 1 .. k - 1 : j \in flushed
  <2>1. CASE ~grids[k].usesPDL
    BY <2>1, <1>1 DEF IInv, SerialStart
  <2>2. CASE grids[k].usesPDL
    <3>1. PICK w \in DOMAIN Code(k) : Code(k)[w].kind = "gdc_wait" /\ ~Code(k)[w].region
      BY <2>2 DEF IInv, GoodGrids, Good, Synchronized, Code
    <3>2. PICK c \in CTAs : TRUE
      BY CTAsAssumption
    <3>3. w \in done[k][c]
      BY <3>1, <3>2, <1>1 DEF IInv, RunsEntryBlock
    <3>4. k = 1 \/ k - 1 \in flushed
      BY <3>1, <3>2, <3>3, <1>1 DEF IInv, Waited
    <3>5. QED
      BY <3>4, <1>2 DEF IInv, CompletionInOrder
  <2>3. QED
    BY <2>1, <2>2
<1>6. CompletionInOrder'
  BY <1>1, <1>5 DEF IInv, CompletionInOrder
<1>7. QED
  BY <1>3, <1>4, <1>6 DEF IInv

LEMMA NextIInv == IInv /\ [Next]_vars => IInv'
<1> SUFFICES ASSUME IInv, [Next]_vars PROVE IInv'
  OBVIOUS
<1>1. CASE UNCHANGED vars
  BY <1>1 DEF vars, IInv, TypeOK, GoodGrids, RunsEntryBlock, TokenOrder, Waited,
              SerialStart, FlushedExited, CompletionInOrder, Launched, Code, Slots
<1>2. ASSUME NEW e \in Entries, NEW o \in Options, Launch(e, o) PROVE IInv'
  BY <1>2, LaunchIInv
<1>3. ASSUME NEW k \in Launched,
             StartGrid(k) \/ Flush(k)
             \/ \E c \in CTAs, i \in DOMAIN Code(k) : Execute(k, c, i) \/ GdcWait(k, c, i)
      PROVE  IInv'
  BY <1>3, StartGridIInv, PerformIInv, FlushIInv
<1>4. QED
  BY <1>1, <1>2, <1>3 DEF Next, Idle

\* An access was performed after its wait, whose predecessor was complete, and
\* with it every earlier grid.
LEMMA IInvSafe == IInv => SafeAccess
<1> SUFFICES ASSUME IInv, NEW k \in started, NEW c \in CTAs,
                    NEW i \in done[k][c], Code(k)[i].kind = "access"
             PROVE  \A j \in 1 .. k - 1 : j \in flushed
  BY DEF SafeAccess
<1>1. TypeOK /\ k \in Launched /\ k \in Slots /\ k \in Nat
  BY MaxGridsAssumption DEF IInv, TypeOK, Launched, Slots
<1>2. CASE ~grids[k].usesPDL
  BY <1>2 DEF IInv, SerialStart
<1>3. CASE grids[k].usesPDL
  <2>1. i \in todo[k][c] /\ i \in DOMAIN Code(k)
    BY <1>1 DEF IInv, TypeOK, RunsEntryBlock
  <2>2. PICK w \in DOMAIN Code(k) : /\ Code(k)[w].kind = "gdc_wait" /\ ~Code(k)[w].region
                                    /\ w \in Code(k)[i].tokens
    BY <1>1, <1>3, <2>1 DEF IInv, GoodGrids, Good, Synchronized, Code
  <2>3. w \in done[k][c]
    BY <2>2 DEF IInv, RunsEntryBlock, TokenOrder
  <2>4. k = 1 \/ k - 1 \in flushed
    BY <2>2, <2>3 DEF IInv, Waited
  <2>5. QED
    BY <2>4, <1>1 DEF IInv, CompletionInOrder
<1>4. QED
  BY <1>2, <1>3

LEMMA IInvOrder == IInv => WrittenOrderKept
<1> SUFFICES ASSUME IInv, NEW k \in started, NEW c \in CTAs,
                    NEW i \in done[k][c] \cap DOMAIN grids[k].source
             PROVE  grids[k].source[i].tokens \cap todo[k][c] \subseteq done[k][c]
  BY DEF WrittenOrderKept
<1>1. k \in Launched
  BY DEF IInv, TypeOK
<1>2. grids[k].source[i].tokens \subseteq Code(k)[i].tokens
  BY <1>1 DEF IInv, GoodGrids, Good, Refines, Code
<1>3. QED
  BY <1>2 DEF IInv, TokenOrder

LEMMA Invariance == Spec => []IInv
  BY InitIInv, NextIInv, PTL DEF Spec

\* The variables of a stream of PDL and serial grids keep their types.
THEOREM TypeCorrect == Spec => []TypeOK
<1>1. IInv => TypeOK
  BY DEF IInv
<1>2. QED
  BY <1>1, Invariance, PTL

\* No access of any grid overlaps an earlier grid of the stream, whatever the
\* entries, the options and the number of CTAs: the insertion of the wait, the
\* tokens, the decision for usesPDL and its loss with loaded bytecode suffice.
THEOREM AccessesAreSafe == Spec => []SafeAccess
  BY IInvSafe, Invariance, PTL

\* Grids complete in the order of their launches.
THEOREM GridsCompleteInOrder == Spec => []CompletionInOrder
<1>1. IInv => CompletionInOrder
  BY DEF IInv
<1>2. QED
  BY <1>1, Invariance, PTL

\* The written token order of every entry is kept.
THEOREM OrderIsKept == Spec => []WrittenOrderKept
  BY IInvOrder, Invariance, PTL
=============================================================================
