-------------------------- MODULE ProgrammaticLaunch --------------------------
(***************************************************************************)
(* Programmatic dependent launch (PDL).  With auto-gdc-insertion =         *)
(* conservative the compiler puts one gdc_wait_tko into a CUDA Tile entry  *)
(* and threads its token into the global-memory accesses; the artifact     *)
(* remembers usesPDL and the runtime then lets the grid start while its    *)
(* predecessor in the stream still runs.  This module has the pass, the    *)
(* compile step that decides usesPDL, the launch, and the stream that runs *)
(* the grids.  Accesses are ordered by tokens only: an access without a    *)
(* token may be performed before a wait that stands above it.              *)
(***************************************************************************)
EXTENDS Integers, Sequences, FiniteSets, FiniteSetsExt, Functions

CONSTANTS
  CTAs,      \* the CTAs of a grid
  Entries,   \* CUDA Tile entries as lowering leaves them
  Options,   \* the compile options a caller may give
  MaxGrids   \* bound: how many launches the stream sees

\* An entry is a function from the operations that matter, numbered from 1, to
\* their kind, the operation of the entry block they stand in (`item`, counted
\* from 1), whether that is in a region of it, whether an isolated operation
\* lies between, and the operations whose tokens they consume.
Kinds  == {"access", "gdc_wait", "gdc_launch_dependents", "make_token"}
OpType == [kind : Kinds, item : Nat, region : BOOLEAN, isolated : BOOLEAN,
           tokens : SUBSET Nat]

OfKind(e, kind) == {i \in DOMAIN e : e[i].kind = kind}

IsEntry(e) ==
  /\ DOMAIN e \subseteq Nat \ {0} /\ IsFiniteSet(DOMAIN e)
  /\ \A i \in DOMAIN e : e[i] \in OpType

\* The author of an entry with an explicit wait has it executed by every CTA
\* and orders every access after it; the pass leaves such an entry alone.
ExplicitlySynchronized(e) ==
  OfKind(e, "gdc_wait") # {} =>
    \E w \in OfKind(e, "gdc_wait") :
      /\ ~e[w].region
      /\ \A i \in OfKind(e, "access") : w \in e[i].tokens

\* autoGdcInsertion, the compute capability of the kernel target, the bytecode
\* version as major * 10 + minor, and what loadTileIRBCPath replaces the
\* bytecode with: at most one entry.
OptionType == [gdc : {"none", "conservative", "other"}, cc : Nat, version : Nat,
               load : SUBSET Entries]

ASSUME CTAsAssumption == CTAs # {}
ASSUME EntriesAssumption ==
  \A e \in Entries : IsEntry(e) /\ ExplicitlySynchronized(e)
ASSUME OptionsAssumption ==
  /\ Options \subseteq OptionType
  /\ \A o \in Options : Cardinality(o.load) <= 1
ASSUME MaxGridsAssumption == MaxGrids \in Nat

----------------------------------------------------------------------------
\* CudaTileInsertGdcWaitPass.

\* The inserted gdc_wait_tko.
Wait == 0

\* The operation of the entry block before which the wait is inserted: the
\* first one that is, or contains, an access.
WaitInsertionPoint(e) == Min({e[i].item : i \in OfKind(e, "access")})

\* Mutant: the wait is built at the access, in the region that holds it.
WaitOpAtAccess(e) ==
  [kind |-> "gdc_wait", item |-> WaitInsertionPoint(e),
   region |-> \E i \in OfKind(e, "access") :
                e[i].item = WaitInsertionPoint(e) /\ e[i].region,
   isolated |-> FALSE, tokens |-> {}]

WaitOp(e) ==
  [kind |-> "gdc_wait", item |-> WaitInsertionPoint(e), region |-> FALSE,
   isolated |-> FALSE, tokens |-> {}]

\* The accesses the wait dominates: the entry is a single block.
MemoryOps(e) ==
  {i \in OfKind(e, "access") : e[i].item >= WaitInsertionPoint(e)}

\* Mutants: an access that consumes a token keeps it and nothing else; the
\* wait's token replaces the one the access consumes.
SetTokenIfNone(op) ==
  IF op.tokens = {} THEN [op EXCEPT !.tokens = {Wait}] ELSE op
SetToken(op) == [op EXCEPT !.tokens = {Wait}]

\* setOrJoinToken: the wait's token alone or joined with the existing ones.
SetOrJoinToken(op) == [op EXCEPT !.tokens = @ \cup {Wait}]

\* The pass has nothing to do.
LeftAlone(e) == OfKind(e, "gdc_wait") # {} \/ OfKind(e, "access") = {}

\* Some access cannot see the wait's token: signalPassFailure.
InsertGdcWaitFails(e) ==
  /\ ~LeftAlone(e)
  /\ MemoryOps(e) = {} \/ \E i \in MemoryOps(e) : e[i].isolated

InsertGdcWait(e) ==
  IF LeftAlone(e) THEN e
  ELSE [i \in DOMAIN e \cup {Wait} |->
         IF i = Wait THEN WaitOp(e)
         ELSE IF i \in MemoryOps(e) THEN SetOrJoinToken(e[i]) ELSE e[i]]

----------------------------------------------------------------------------
\* The compiler: buildTensorToCudaTileConversionOnlyPipeline,
\* lowerTensorIRToCudaTile and CudaTileCompiler::compile.

RunsGdcPass(o) == o.gdc = "conservative" /\ o.cc >= 90

\* The module the bytecode is written from.
Lowered(e, o) == IF RunsGdcPass(o) THEN InsertGdcWait(e) ELSE e

\* Mutant: PDL is what the option asked for, not what the module does.
UsesPDLIfRequested(e, o) == RunsGdcPass(o)

\* CudaTileFrontendResult::usesPDL.
FrontendUsesPDL(e, o) ==
  o.cc >= 90 /\ OfKind(Lowered(e, o), "gdc_wait") # {}

CompileFails(e, o) ==
  \/ o.gdc = "other"
  \/ RunsGdcPass(o) /\ InsertGdcWaitFails(e)
  \/ FrontendUsesPDL(e, o) /\ o.version < 134

\* Mutant: replacing the bytecode keeps the usesPDL of what it replaced.
ArtifactKeepsPDL(e, o) ==
  [source |-> IF o.load = {} THEN e ELSE CHOOSE l \in o.load : TRUE,
   code   |-> IF o.load = {} THEN Lowered(e, o) ELSE CHOOSE l \in o.load : TRUE,
   usesPDL |-> FrontendUsesPDL(e, o)]

\* The artifact: the entry it runs, the entry that was written for it, and
\* usesPDL, which bytecode loaded from a file loses.
Artifact(e, o) ==
  LET written == IF o.load = {} THEN e ELSE CHOOSE l \in o.load : TRUE
  IN  [source  |-> written,
       code    |-> IF o.load = {} THEN Lowered(e, o) ELSE written,
       usesPDL |-> FrontendUsesPDL(e, o) /\ o.load = {}]

----------------------------------------------------------------------------
VARIABLES
  grids,    \* the artifacts launched into the stream, in order
  started,  \* the grids whose CTAs run or have run
  todo,     \* the operations each CTA of a started grid executes
  done,     \* those it has performed
  flushed   \* the grids that are complete, their writes visible

vars == <<grids, started, todo, done, flushed>>

Slots    == 1 .. MaxGrids
Launched == DOMAIN grids

Artifacts ==
  UNION {{Artifact(e, o) : o \in {p \in Options : ~CompileFails(e, p)}} : e \in Entries}

TypeOK ==
  /\ grids \in Seq(Artifacts)
  /\ Len(grids) <= MaxGrids
  /\ flushed \subseteq started /\ started \subseteq Launched
  /\ todo \in [Slots -> [CTAs -> SUBSET Nat]]
  /\ done \in [Slots -> [CTAs -> SUBSET Nat]]
  /\ \A k \in Slots, c \in CTAs : done[k][c] \subseteq todo[k][c]

Init ==
  /\ grids = <<>>
  /\ started = {}
  /\ todo = [k \in Slots |-> [c \in CTAs |-> {}]]
  /\ done = [k \in Slots |-> [c \in CTAs |-> {}]]
  /\ flushed = {}

\* Mutant: the status of the compilation is not looked at.
LaunchUnchecked(e, o) ==
  /\ Len(grids) < MaxGrids
  /\ grids' = Append(grids, Artifact(e, o))
  /\ UNCHANGED <<started, todo, done, flushed>>

\* launchCudaKernel of an artifact that compile returned, from the native host
\* code or from the grid computer.
Launch(e, o) ==
  /\ Len(grids) < MaxGrids
  /\ ~CompileFails(e, o)
  /\ grids' = Append(grids, Artifact(e, o))
  /\ UNCHANGED <<started, todo, done, flushed>>

----------------------------------------------------------------------------
\* The stream and the device.

Code(k) == grids[k].code

Exited(k) == k \in started /\ \A c \in CTAs : done[k][c] = todo[k][c]

\* Every CTA of k has exited or let the dependents go.
Triggered(k) ==
  /\ k \in started
  /\ \A c \in CTAs :
       \/ done[k][c] = todo[k][c]
       \/ \E i \in done[k][c] : Code(k)[i].kind = "gdc_launch_dependents"

\* A grid with the programmatic stream serialization attribute.
ProgrammaticStreamSerialization(k) == grids[k].usesPDL

MayStart(k) ==
  IF ProgrammaticStreamSerialization(k)
  THEN k = 1 \/ Triggered(k - 1)
  ELSE \A j \in 1 .. k - 1 : j \in flushed

\* What a CTA executes: all of the entry block, and of its regions those that
\* control flow takes.
Executions(e) ==
  {r \in SUBSET DOMAIN e :
     \A i \in DOMAIN e :
       /\ ~e[i].region => i \in r
       /\ \A j \in DOMAIN e :
            e[i].region /\ e[j].region /\ e[i].item = e[j].item => (i \in r <=> j \in r)}

StartGrid(k) ==
  /\ k \in Launched \ started
  /\ MayStart(k)
  /\ started' = started \cup {k}
  /\ \E t \in [CTAs -> Executions(Code(k))] : todo' = [todo EXCEPT ![k] = t]
  /\ UNCHANGED <<grids, done, flushed>>

\* An operation is performed once those are whose tokens it consumes.
Ready(k, c, i) ==
  /\ k \in started
  /\ i \in todo[k][c] \ done[k][c]
  /\ Code(k)[i].tokens \cap todo[k][c] \subseteq done[k][c]

Perform(k, c, i) ==
  /\ done' = [done EXCEPT ![k][c] = @ \cup {i}]
  /\ UNCHANGED <<grids, started, todo, flushed>>

\* An access, a token or a launch_dependents of CTA c of grid k.
Execute(k, c, i) ==
  /\ Ready(k, c, i)
  /\ Code(k)[i].kind # "gdc_wait"
  /\ Perform(k, c, i)

\* A gdc_wait_tko completes when the preceding grid has.
GdcWait(k, c, i) ==
  /\ Ready(k, c, i)
  /\ Code(k)[i].kind = "gdc_wait"
  /\ k = 1 \/ k - 1 \in flushed
  /\ Perform(k, c, i)

Flush(k) ==
  /\ Exited(k) /\ k \notin flushed
  /\ flushed' = flushed \cup {k}
  /\ UNCHANGED <<grids, started, todo, done>>

\* The host is done and the stream is idle.
Idle ==
  /\ Len(grids) = MaxGrids /\ flushed = Launched
  /\ UNCHANGED vars

Next ==
  \/ \E e \in Entries, o \in Options : Launch(e, o)
  \/ \E k \in Launched :
       \/ StartGrid(k)
       \/ \E c \in CTAs, i \in DOMAIN Code(k) : Execute(k, c, i) \/ GdcWait(k, c, i)
       \/ Flush(k)
  \/ Idle

Spec == Init /\ [][Next]_vars

----------------------------------------------------------------------------
\* Properties.

\* No CTA has performed a global-memory access while an earlier grid of the
\* stream, the predecessor or any before it, was not complete.  PDL makes this
\* the compiler's business: usesPDL, the place of the wait and every token.
SafeAccess ==
  \A k \in started, c \in CTAs :
    (\E i \in done[k][c] : Code(k)[i].kind = "access")
      => \A j \in 1 .. k - 1 : j \in flushed

\* Grids complete in launch order.  A wait is only for the grid just before, so
\* a CTA that exited without waiting would let its grid complete early and the
\* next grid's wait return before a grid further back is complete.
CompletionInOrder ==
  \A k \in flushed : \A j \in 1 .. k - 1 : j \in flushed

\* The order that lowering, or the author of a loaded bytecode, gave to the
\* operations of an entry survives the wait's token: an operation is performed
\* after those whose tokens it was written to consume.
WrittenOrderKept ==
  \A k \in started, c \in CTAs :
    \A i \in done[k][c] \cap DOMAIN grids[k].source :
      grids[k].source[i].tokens \cap todo[k][c] \subseteq done[k][c]
=============================================================================
