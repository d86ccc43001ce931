# TLA+ models of TensorIR

TensorIR compiles a graph of tensor operations (MLIR) to a CUDA Tile kernel and
launches it. This directory models the parts of it whose correctness depends on
several steps, several actors or several computations agreeing, checks the models
with TLC and proves the central properties with TLAPS.

## The system

| Part | State | Operations | Talks to |
|---|---|---|---|
| `CudaTileRuntimeKernel` | artifact, fallback cubin, `lib_`, `kernel_`, `hostModule_`, `stateMutex_` | create, initializeRuntimeState, unloadRuntimeState, checkSupport, launch | driver (`CudaApi`), native host loader, TileIR assembler |
| Launch arguments (`ArgumentPacker`, `packNativeHostArgs`, generated host code) | slots, memref descriptors, kernel parameters | pack, unpack, build parameters | `KernelMetadata`, the kernel's formals |
| Grid (FormGrid, StaticPersistence, frontend metadata, `computeTileBasedGrid`) | tile counts, grid limit, serial loop, grid metadata | form grid, make persistent, compute grid, run blocks | compiler passes to launch, through metadata |
| DSL cache and compiled kernels (Python) | cache, artifacts, `_runtime_kernel` | compile, `_get`, `_put`, flush, run, destroy | `Compiler`, `RuntimeKernel` through the bindings |
| Compiler driver (`CudaTileCompiler`, `CudaTileFrontend`, `Pipelines`, options) | invocation, cloned module, frontend result, binary | validate, canCompile, compile, analyzeModule | passes, bytecode writer, assembler |
| Verifiers and canonicalization (`TensorOps`, `Canonicalization`) | graph | verify, fold, merge | every pass |
| Layout analysis (`LayoutPropagation`, `TensorAttrs`, layout algebra) | a layout source per value; the normalized iteration space | propagate, lift, normalize | grid formation |
| Tile analysis (`TileAnalyzer`, candidates, `TileSelectionPass`) | tile size | analyze, enumerate, evaluate, select | grid formation, affine-map lowering |
| Grid formation and strip mining (`FormGrid`, `TileReductions`) | cache of made tiles, the tile's code | materialize, reuse, strip-mine | conversion |
| CUDA Tile conversion (`OutlinedComputeOps`, `PointwiseOps`) | IR | convert | driver |
| Affine-map lowering (`DiscoverIterationSpaceInfo`, `AffineMapImpl`) | iteration spaces, maps, tensor descriptors, insertion points | discover, convert | alternative to the three above |
| Linalg conversion (`TensorToLinalg`) | IR | convert | the host backend |
| Reference interpreter (`ReferenceGraph`, `ReferenceNode`) | nodes, memory | build, validate, allocate, compute | compiler tool |
| Python tracing, tools | IR | trace, parse, print | compiler |

What is hard about them: threads share a runtime kernel and a compiled kernel;
every call into the driver or the assembler may fail between two assignments;
GPU blocks run in any order; three computations of a grid and three walks over the
arguments have to agree without sharing code; extents may be dynamic, zero or
larger than the integers that carry them; cached objects outlive what they were
made from. On the compiler's side the passes form a long chain in which each
step keeps a meaning that no data structure states: a tile size that does not
divide an extent, a dimension of extent one, a permuted or broadcast layout and a
reduction of something reduced are each handled in several places that must agree. `PROJECT.json` lists these hazards with their lines.

What makes each part correct:

- runtime kernel: a launch only uses what is loaded; a call that fails leaves the
  kernel as it was, loaded or not; callers see atomic loads and unloads;
- arguments: the kernel addresses every argument as the caller's view describes it,
  or the launch is refused;
- grid: every tile is processed, exactly once, whatever computed the grid;
- cache: an artifact is usable, and of the requested code, until its user destroys it;
- graphs: a graph that verifies compiles, on each route and with each tile, to code
  that verifies and that stores what the reference interpreter computes;
- layouts: a layout reads exactly the elements that the value it describes is computed from.

## Modules

| Module | Models | Source |
|---|---|---|
| `KernelLifecycle` | what `IRuntimeKernel` promises: atomic load, unload, launch | `include/tensor_ir/Runtime/IRuntimeKernel.h` |
| `RuntimeKernel` | one kernel and its threads, one step per call that leaves the class | `lib/Runtime/CudaTileRuntimeKernel.cpp` |
| `RuntimeKernelProofs` | its theorems | |
| `GridStride` | the blocks of one launch, direct or persistent | `StaticPersistence.cpp`, `OutlineKernel.cpp` |
| `GridStrideProofs` | its theorems | |
| `Shapes` | shapes with dynamic dimensions, products and sums over them | `KernelMetadata.cpp`, `NativeHostModule.cpp` |
| `TileGrid` | compile-time and launch-time grid computations, composed with `GridStride` | `FormGrid.cpp`, `CudaTileFrontend.cpp`, `KernelLaunchHelpers.cpp`, `HostToLLVM.cpp` |
| `TileGridProofs` | its theorems | |
| `KernelArgs` | packing, unpacking and what the kernel computes from its parameters | `KernelLaunchHelpers.h`, `NativeHostModule.cpp`, `HostAbiBridge.cpp`, `HostToLLVM.cpp` |
| `KernelArgsProofs` | its theorems | |
| `DataLemmas` | lemmas of these and of `TensorGraphProofs`: induction, division, folds over shapes, concatenation | |
| `ArtifactCache` | the DSL's cache, artifacts and compiled kernels | `dsl.py`, `cuda_tile_backend.py`, `runtime.py` |
| `ArtifactCacheProofs` | its theorems | |
| `ProgrammaticLaunch` | the insertion of the GDC wait, `usesPDL` from pipeline to launch, and the stream | `CudaTileInsertGdcWait.cpp`, `Pipelines.cpp`, `CudaTileCompiler.cpp`, `CudaTileRuntimeKernel.cpp` |
| `ProgrammaticLaunchProofs` | its theorems | |
| `Terms` | the elements: symbolic terms with the algebra the comparisons need | |
| `TensorGraph` | graphs of operations | `TensorOps.td` |
| `ReferenceGraph`, `ReferencePointwise` | the reference interpreter | `lib/Reference` |
| `OpVerifiers`, `Canonicalization` | well-formed graphs, verifiers, folds and patterns | `lib/Dialect` |
| `VerifiedGraph` | a graph that the reference computes and the compiler verifies: what `CompiledGraph` refines | `TensorOps.cpp`, `lib/Reference` |
| `TensorGraphProofs` | theorems of `VerifiedGraph` | |
| `LayoutAlgebra`, `LayoutSources` | layouts, layout sources and their views | `TCutegen.cpp`, `TensorAttrs.cpp` |
| `LayoutPropagation`, `LayoutNormalization` | the analysis and the normalization of its results | `LayoutPropagation.cpp`, `TensorAttrs.cpp` |
| `TileAnalysis` | valid tiles, the pointwise baseline | `TileAnalyzer.cpp` |
| `TileCode`, `CodeRewriting` | code of a tile, what it computes, when it verifies, how it is rewritten | `TensorOps.td`, `OutlinedComputeOps.cpp` |
| `TileMaterializer` | formation of a tile's code | `FormGrid.cpp` |
| `TileReductions` | strip mining | `TileReductions.cpp` |
| `CudaTileConversion`, `CudaTilePointwise` | conversion to CUDA Tile operations | `OutlinedComputeOps.cpp`, `PointwiseOps.cpp` |
| `IterationSpaces`, `AffineMapConversion` | the affine-map route | `DiscoverIterationSpaceInfo.cpp`, `AffineMapImpl.cpp` |
| `LinalgConversion`, `LinalgPointwise` | the Linalg route | `TensorToLinalg.cpp`, `ScalarBuilder.cpp` |
| `CompiledGraph` | composes them: a graph is computed by the reference and compiled | `Pipelines.cpp` and the passes |
| `MC*` | constants and bounds for TLC | |

A definition whose name begins with another definition's and is preceded by a
comment "Mutant" is that definition with a plausible mistake; no specification
uses it. It is there to see that a property notices the mistake.

### RuntimeKernel

The variables are the members of the class, the holder of the mutex, each thread's
place in its call and the libraries the driver has loaded. Every call to the
driver, the host loader or the assembler is an action with a success and a failure
disjunct; the code between two such calls is part of the action before it. A library handle is
never handed out twice while loaded. `leaked` records the libraries whose failed
unload `initializeDeviceState` ignores (`CudaTileRuntimeKernel.cpp:138`).

`Lifecycle == INSTANCE KernelLifecycle WITH ...` maps a kernel to ready when
`kernel_` is set and its host module, if it has one, is in place.

### GridStride and TileGrid

`GridStride` is one launch: a grid, the total number of tiles and, for a persistent kernel, the
serial loop of `formStaticPersistence` with step gridDim. `TileGrid` compiles a request (the shape of the output tensor, the
normalized iteration space, tile sizes, persistence, host target) and launches it
with every runtime shape. The grid comes from the interpreter's or the native
wrapper's computation, the loop and its bound from the passes, and both feed an
instance of `GridStride`. The normalized iteration space and its correspondence
of dynamic dimensions to those of the output are inputs here.

### KernelArgs

A signature is `KernelMetadata::args`; an argument is an `Any`. A pointer is the
token `<<"address", i>>`, so that a slot in the wrong place is seen. A native launch
is three steps: pack and invoke the entry, unpack the slots into memref
descriptors, build the parameter table from them; an interpreted launch packs into
the zero-initialized table. The kernel's side is what the outlined kernel's type
conversion and `decodeMemRef` make of its formals: a static size or stride is compiled
into the tensor view, a dynamic one is an i32 formal, and a stride of a contiguous
tensor behind which a size is dynamic is an i32 product of sizes
(`OutlinedKernelImpl.cpp:332`; `computeRowMajorDynamicStrides` of the affine-map route
multiplies in i32 too), which wraps. No check of either host target is about that
product: `HostToLLVM.cpp:167-180` narrows the sizes, and returns before the strides of
an identity layout. So the two address properties hold exactly but for `ProductWraps`,
where only the low 32 bits of the view's stride reach the kernel (see Findings). An artifact without arguments and a call without any are among
the inputs.

### ArtifactCache

Objects that nothing refers to are dropped at once (reference counting), which is
what unloads a native kernel. Artifacts and wrappers are identities, so that
sharing instead of copying is visible.

### ProgrammaticLaunch

An entry keeps the operations that matter for PDL: accesses, waits, triggers and
made tokens, the operation of the entry block each stands in, whether it is in a
region, and the tokens it consumes. `Artifact` is the whole way from an entry and
the options to an artifact: the pass runs for conservative on compute capability 9.0
and up, `usesPDL` is whether the lowered module waits, and loaded bytecode resets it.
The device performs the operations of a CTA in any order the tokens allow, so a
wait orders nothing by its place; a region may be taken or not, for each CTA.
A loop body is one region taken at most once. An author's explicit wait
is assumed to be executed by every CTA and before every access
(`ExplicitlySynchronized`), since the pass leaves such an entry alone.

### CompiledGraph

One behaviour takes one program through the reference interpreter, step by step
(build, validate, allocate, compute each node), and through one of three routes of
the compiler, with an action for each pass:

- layouts: `VerifyGraph`, the steps of `LayoutPropagation` and its normalization,
  `SelectTile` (any valid tile), `FormGrid`, `TileReductions` (any reduction tile
  size of the bounds), `Convert`, `RunGrid`;
- Linalg: `VerifyGraph`, `Lower` (of the graph, or of the graph canonicalized as in
  `canonicalize,convert-tensor-to-linalg` of
  `test/Conversion/TensorToLinalg/dynamic-shapes.mlir`), `RunOnHost`;
- affine maps: `VerifyGraph`, `DiscoverIterationSpaces`, `ConvertAlongMaps` (with a
  requested or the analyzed tile), `RunAffineGrid`.

An element is a term: an input element, a number, a normalized polynomial of
terms, a function application, an extremum of a set. Additions and
multiplications commute, so the order in which a strip-mined loop accumulates does
not matter, while a missing, repeated or misplaced element does. Rounding,
overflow and NaN do not exist in terms. `Undefined` is what a load finds outside of
its buffer without padding; it must never reach a result.

A pass that reports an error leaves `Failed`, a model value, as its result. The code of a
tile is a sequence of instructions with regions. Its execution (`Run` in
`TileCode`) is the meaning of the TensorIR and CUDA Tile operations; `stores` is
the union of what the blocks store, since none reads what another one writes.

`VerifiedGraph` keeps of all this the reference, the verification and one action
for the passes after it. `VerifierSpec` is its specification, and `CompiledGraph`
refines it: no pass starts before the graph verified, none takes a rejection back,
and none touches the reference. Two invariants are about it alone:
`VerifierAndReferenceAgree`, and `NodesStayInTensors`, that a node which `validate`
accepted reads and writes inside of its tensors. The coordinates that a kernel reads
(`SliceSource`, `ReduceSource` and so on) are operators of their own for this
property; the elements are computed from the same ones.

The graphs are those that a parsed module can hold (`IsGraph`, assumed of `Graphs`
and evaluated by TLC on every program): operands and attributes are those of the
operation's definition, values are defined before they are used, strides are not
negative, and scalars are operands of splats only. Arguments that are tensors of
rank 0 are left out, since they would look like scalars here.

The reference is the specification that the compiler refines:
`CompiledMatchesReference` says that the stored elements are exactly those the
reference has. The properties before it locate an error: what a layout reads
(`LayoutReadsWhatItComputes`), what normalization preserves
(`NormalizationKeepsReads`), what the code of a tile satisfies
(`TilesDominateTheirUses`, `StagedCodeIsVerified`). `SimpleGraphsCompile` bounds
the failures: only graphs with nested contractions, concatenations or gradients of
activations may be refused after they verify.

`spaces` holds what is discovered for the affine-map route. A map is the sequence
of the iteration dimensions of a tensor's dimensions, and a value without a map is
not in its domain. The kernel's code has one tiler loop at most, so the emission
state has the loop's code and the code after it, and an instruction is placed by the
dimensions it uses (`Placed`). The iteration dimension domains that
`refineDimensionDomains` attaches are read by no later pass and are left out.

## Runs

| Run | Question | Bounds |
|---|---|---|
| `runtime_kernel` | safety, the inductive invariant, the refinement, and that every call returns | 3 threads, 2 handles (one may leak), all 4 kinds of artifact |
| `grid_stride` | every tile once | up to 9 tiles and 5 blocks: fewer, as many and more blocks than tiles, and non-multiples |
| `tile_grid` | the computations of the grid agree, launches finish (that each launch processes every tile once is `grid_stride`'s property, and the theorem `LaunchesProcessTilesOnce`) | 14 graphs of 1 to 3 dimensions with dynamic, merged, single-tile and empty dimensions; INT32_MAX is 7 and INT64_MAX is 63, so both overflows happen |
| `tile_grid_overflow` | the documented grid formula | violated: the grid saturates |
| `kernel_args` | slots and addresses | 13 signatures up to rank 3, all pairs of 60 arguments, INT32_MAX is 7 and INT64_MAX is 15, so that `<<3, 3, 3>>` has sizes within 32 bits and an outer stride beyond |
| `programmatic_launch` | PDL is safe | 3 grids (a wait is only for the predecessor, so errors show at the third), 2 CTAs, 6 entries, all options |
| `artifact_cache` | cached and returned artifacts | 2 threads, 2 kernels, 3 requests (two names of one graph, two options), 5 artifact objects |
| `compiled_kernel` | racing first runs of one kernel | 3 threads, 1 kernel, 4 runtime kernels |
| `compiled_graph` | the three routes against the reference, the reference's accesses, and the refinement of `VerifierSpec` | 94 programs of extents 1 to 7 and up to 4 dimensions, some of them ill-formed; all valid tiles (for twelve programs also tiles on the affine-map route, with a baseline of 4 elements), reduction tiles 1, 2 and 4, so that tiles divide, overhang and exceed extents |
| `compiled_graph_unit_reduction` | reductions of a unit dimension | violated: the mode is folded away |
| `compiled_graph_column_first` | a broadcast first argument on the affine-map route | violated: tiles are never stored |
| `artifact_cache_override` | the key covers the code | violated: `loadTileIRBCPath` is not part of it |

Deadlock is checked for the runtime kernel, which can always be called again, and for
the stream of `programmatic_launch`, which must become idle. A launch ends, an
argument check ends, the cache run ends when all kernels are made, and a program
ends when it is refused or has run. Types are checked where a value of
a wrong type would still be compared (`runtime_kernel`, `programmatic_launch`); elsewhere
TLC's evaluation and the properties fail on it.

The tiles requested on the affine-map route are those for which its
restrictions hold: every reduced dimension is in one tile, and no tile is cut to an
extent that is no power of two. The divergences below say what happens otherwise.

## Fairness

`RuntimeKernel!Fairness` is weak fairness of the steps of a thread inside a call:
the operating system schedules it and no callee blocks forever. Acquiring the
lock is not under fairness, and nobody must make another call. `TileGrid!Fairness`
is weak fairness of some block making a step (the hardware runs resident blocks
and replaces finished ones) and of the completion of a finished grid.

## Proofs

Every property that a run checks of the runtime kernel, the grid, the arguments, the
cache and programmatic launches is proved, but for the liveness properties, and of
the graph modules the agreement of the verifiers with the reference. Each
proof is an inductive invariant and what follows from it; the constants are
arbitrary sets, with the assumptions named below.

`RuntimeKernelProofs` proves `Spec => []IInv` for every set of threads, handles and
artifacts, and from it type correctness, the safety invariants, the action
properties `FallbackIsFinal` and `StatusTellsState` and the refinement of
`KernelLifecycle`. `IInv` adds to the invariants what makes them inductive: who holds
the mutex follows from where the threads are (`LockInv`), `lib_` is the one library
loaded and not leaked (`LibraryInv`), what each place inside an initialization
implies (`LoadingInv`), what holds outside (`SettledInv`), and that a launch past its
check has seen a kernel (`LaunchInv`). The assumption is that NULL is no thread and
no handle.

`GridStrideProofs` proves for every tile count and grid size that the cursor of
block b stays congruent to b modulo the grid and that exactly the tiles below
their block's cursor are processed (`StrideInv`); all tiles exactly once follows.
The assumptions are that counts are naturals and a grid is not empty.

`TileGridProofs` proves that the launches of compiled kernels are launches that
`GridStrideProofs` speaks of, and the other safety properties of `TileGrid`. `GridInv`
says that the kernel and the metadata are those of the request, that a launch is that
of some runtime shape, and that no block has processed a tile of another one, which
also holds beyond the 32-bit range where `StrideInv` does not. On it rests the
agreement of the three grid computations: the host's saturating loop returns the
product when that fits (`SaturatedProduct`), the k-th dynamic dimension of the
iteration space has the same extent through the metadata's mapping and through the
kernel's own operands, and the limits of both sides coincide. For `IndicesAreTiles`, a
tile count is a mixed-radix number: the digits of an index are a tile, every tile has
an index, and dimensions of a single tile do not take part. Assumed: requests are
well-formed (`RequestAssumption`), INT32_MAX is positive and below INT64_MAX, and
runtime extents fit into 32 bits.

`KernelArgsProofs` proves the four properties of `KernelArgs` for every signature and
all operands. `ArgsInv`: what each step of a launch leaves is a function of the
signature and the arguments. The table of a launch is then a concatenation of parts,
one per argument, each a pointer followed by sizes and strides; `FlattenAt` places
part i at the sum of the lengths before it, which is `EntryOffset` for the native
slots and `FormalOffset` for the parameters, and the ordinal of a dynamic dimension is its
place in the part. For views that were accepted, narrowing to 32 bits changes
nothing, and the strides the kernel computes for a contiguous tensor are the view's
wherever the dimension advances and the product fits into 32 bits; beyond, they are
its low 32 bits. Assumed: descriptors are what `TensorArgDesc::create`
accepts (`SignatureAssumption`), operands are well-formed `Any`s
(`OperandAssumption`), and INT32_MAX is at most INT64_MAX.

`DataLemmas` has what these two proofs and the one of graphs share. The induction theorems of the library
take a predicate as a parameter, which the provers cannot instantiate. Here
induction is over a set that holds 0 and the successors of its elements, and a fold
is unfolded along a step function, which are both first-order; both are derived from
the well-foundedness of the naturals.

`ProgrammaticLaunchProofs` proves `SafeAccess`, `CompletionInOrder`,
`WrittenOrderKept` and the types for every set of entries, options and CTAs and
every number of grids. Two lemmas about the compiler come first: the pass leaves an
entry that waits before each access and keeps its tokens (`PassSynchronizes`), and
an artifact with `usesPDL` has such an entry (`ArtifactIsGood`). The invariant of
the stream adds that a performed wait saw its predecessor complete (`Waited`), that
token order holds (`TokenOrder`), and that completion is in order, which turns
"the predecessor is complete" into "all before are". Assumed: a grid has a CTA, and
an author's explicit wait is one (`ExplicitlySynchronized`).

`ArtifactCacheProofs` proves the five properties of `ArtifactCache` for every set of
threads, kernels, requests and objects, in layers. `CacheInv`: every artifact object
has one owner among the threads, the cache entries and the kernels, so that what one
of them destroys or drops is nobody else's; `CachedIsUsable` and `ReturnedIsUsable`
follow. `CodeInv`: every object holds the code its owner asked for. It is inductive
when equal keys mean equal code (`KeysTellCode`), and `CachePut` is the one step that
needs this; without requests that load their bytecode from a file the key has this
property (`NoOverridesKeysTellCode`), with them `artifact_cache_override` refutes it.
`RunInv`: the runtime kernels that a kernel and its runs refer to were loaded from that
kernel's code, and a run that passed `RequireNative` holds its own; `LaunchUsesOwnKernel`
follows. `AliveInv`: these runtime kernels are shared with no other kernel and are
alive until their user destroys them, from which the action property
`OnlyUsersDestroy` follows. Assumed: NULL is none of the objects and no code.

`TensorGraphProofs` proves `VerifierAndReferenceAgree` for every set of well-formed
graphs: any number of operations, of any rank, extents, strides and attributes. The
verifiers of `TensorOps.cpp` and the `validate` functions of `ReferenceNode.cpp` are
written separately, over different data (types there; tensors that the interpreter has
created so far here), and differ in form: in bounds of slices, in how a concatenated
extent or a reduced shape is compared. `NodeAgrees` shows, operation by operation,
that for nonempty tensors of the right shapes both ask the same; the notable cases
are slices, where a nonempty result is what makes a limit exceed its start, and
reductions, where a result of the operand's rank cannot be the one with dropped
dimensions. What is left is that the tensors have these shapes whenever a
node is built, for which `AgreementInv` is needed: the interpreter creates tensors of
arguments and results first and the others on demand, with the shape of their value and
strides that are not negative (`ReferenceTensors`); the nodes built so far
are valid, and stay so when tensors are added (`ReferenceNodes`); a failed reference
stopped at an invalid node, or computed a quotient by 0 (`ReferenceEnds`); and the
compiler's status tells whether the graph verifies (`CompilerVerifies`). Assumed:
`GraphsAssumption`. That `CompiledGraph` implements `VerifierSpec` is checked by TLC.

From the same invariant follows `NodesStayInTensors`, for every such graph: the nodes
to compute are valid (`ReferenceNodes`), and the element indices, coordinates and
addresses of a valid node are those of its tensors. `CoordinateHeld` is the argument
for addresses: a scalar product with strides that are not negative is between 0 and that
of the last coordinate, which is what `getSizeInBytes` allocates. The coordinates take
an argument per class: a slice's last step is at most its limit less one, a
transposition reaches every dimension, the digits of a reduction's sweep index are
below the reduced extents, and every offset along a concatenated dimension is in one
of the parts (`PartOfOffset`). The checks of `NodeValid` are all used: the theorem
says that they suffice for the assertions of `getStorageIndex` and for
`matmulKernel`, which has none. Integers are unbounded here: 64-bit overflow of
an address, which `getSizeInBytes` refuses, is left out.

Not proved, only model-checked:

- Liveness (`CallsReturn`, `LaunchFinishes`): it needs fairness and ENABLED, which the
  provers do not reason about.
- The other invariants of `CompiledGraph` and its refinement of `VerifierSpec`: the
  algorithms of the passes are RECURSIVE operators over layouts and code, and no
  theorem can be checked in a module that reaches one. What they compute for every input
  would also take induction over data.

## Findings

Four runs end in a violation on purpose: the code does something else than a
comment, a header or the README says. `PROJECT.json` quotes both sides.

The models, and the reading they took, showed more divergences, which no run states
on its own:

- Affine-map route. A requested tile smaller than a reduced extent makes each block
  reduce only its part, and `avg` divides by the tile's extent. A tile above an
  extent that is no power of two is cut to the extent, which no tile type has, and
  the analyzer refuses reductions of such extents. Several iteration spaces with
  different tile counts decode the block id differently. Constants and splats that
  a matmul's prologue uses are inserted after its loop. `matmul(x, x)` has one map
  for both operands. The accumulator operand of a matmul is dropped although
  `TensorOps.td:849` says `C = Acc + A * B`. Zero padding is not neutral under a
  prologue such as `exp`. Two matmuls share one loop. A requested tile shorter than
  the rank is filled up by the conversion but not for the grid. Persistent matmuls
  are refused by a rank check of `isValidTileSize`. `calculatePersistentGridSizeForGraph`
  (`TileAnalyzer.cpp:479`) emits an error for a count that is not positive and goes on.
- Reductions. The reference's `max` and `amax` use `std::max`
  (`ReferenceNode.cpp:1219`), which drops NaNs that `TensorOps.td:558` propagates;
  so do its pointwise `max` and `min` for a NaN in the first operand.
  `getIdentity` returns 0 for `amax` where its comment says -infinity.
- Strip mining. A reduction tile size of 1 fails for nested reductions although
  `Options.td:107` accepts any positive power of two, and an outer contraction of an
  extent that is no power of two fails at conversion.
- Grid formation. A tile that splits a concatenated dimension fails, and the
  candidates may contain one: the dimension is not fixed under a reduction, and
  swapping candidates moves it. `materializeIota` ignores the offset of a slice.
- Tile selection. The comment at `TileSelectionPass.cpp:47` calls a tile that exceeds the
  shape an error; `isValidTile` allows the next power of two.
- Pointwise. Linalg's floating-point `mod` is `a - floor(a/b)*b`, a NaN for an
  infinite divisor where `TensorOps.td:255` says otherwise. The softplus of CUDA
  Tile and Linalg overflows where the reference's does not. Gradients of
  activations verify, but the CUDA Tile conversion refuses them.
- The reference is narrower than the verifiers: it wants reduced dimensions kept,
  matmuls of rank 2 or 3 without an accumulator, no softplus with beta 0, no empty
  tensors, and only some integer widths
  (`BeyondReference` lists what matters here).
- Launch grid. An empty iteration space whose leading extents saturate the product is
  launched with INT32_MAX blocks, or the persistent limit, by the interpreter: the loop of
  `KernelLaunchHelpers.cpp:81` leaves before it sees the zero (`LaunchIsValid` names the
  case, and `computeStaticGridSize` has it too).
- A contiguous tensor of dynamic sizes with more than 2^31 - 1 elements behind its first
  dimension: every size passes the checks, and the kernel's stride, a product in i32,
  wraps (`f32[?,?,65536]` of 2 by 40000). `packNativeHostArgs` has the product in 64
  bits and tests it against INT64_MAX only (`ProductWraps`).
- `checkSupport` of a native kernel reports a shape or stride mismatch as an error,
  where `TensorIR.h:343` says `A constraint mismatch succeeds with supported=false`; and
  `KernelLaunchHelpers.h:67` promises strict packing that `:112` does not do.

## Assumed of code outside the repository

CPython's reference counts free an object when its last reference goes, and
threads switch between bytecodes; CUDA runs every block of an accepted grid once,
in any order; `griddepcontrol.wait` returns when the preceding grid of
the stream is complete, and a grid without the PDL attribute starts when all before
it are; the driver rejects an empty grid and one beyond gridDim.x; `cuda_tile`
loops count in i32 without wrapping within the range checked here.

## Not modelled

- In the graph modules: dynamic extents and the polynomials for them, `scan_slice`
  sources, reductions with several results or a user's region, the contraction
  operation, element types with their rounding, saturation and NaNs, and the type
  verifiers. Canonicalization leaves out the merging of converts and the constant
  folding of splats, Linalg the upstream fusion and bufferization passes.
- Affine-map route: static persistence, several matmuls, and results that are
  computed inside the loop (the conversion puts their stores into it).
- Tile candidates: their enumeration and cost evaluation order the valid tiles;
  every valid tile is checked instead.
- Options and invocation validation, the artifact codec, the command line, the
  override language and the runtime-context arguments: stateless checks and
  translations that a test enumerates as well.
- Python tracing: it builds the graphs that are programs here.
- The option generator and the CUDA API table.
- `RuntimeKernel` has one device, so a cubin assembled for another one is not seen.

What is checked by TLC only, and why, ends the section on proofs.
