---------------------------- MODULE ArtifactCache ----------------------------
(***************************************************************************)
(* The Python DSL's artifact cache and compiled kernels, used by several   *)
(* Python threads.  The interpreter may switch threads between any two     *)
(* bytecodes, and packing the arguments of a launch calls back into        *)
(* __dlpack__; a step is what a thread does between two reads or writes of *)
(* shared objects.  An Artifact is a wrapper around a reference counted    *)
(* native artifact, and copy.copy makes another wrapper of the same one.   *)
(***************************************************************************)
EXTENDS Naturals, FiniteSets

CONSTANTS
  Threads,  \* Python threads
  Requests, \* what the threads compile
  Kernels,  \* the CudaTileCompiledKernel objects
  Wrappers, \* the Artifact objects
  Runtimes, \* the RuntimeKernel objects
  NULL      \* None

\* A request: the module (its graph's code and its name), the compile options,
\* and the debug option load_tileir_bc_path (NULL: not given).
IsRequest(r) == DOMAIN r = {"graph", "name", "options", "loadPath"}

ASSUME RequestAssumption == \A r \in Requests : IsRequest(r)
ASSUME NullAssumption == NULL \notin Kernels \cup Wrappers \cup Runtimes \cup Requests

VARIABLES
  pc,       \* where each thread is
  request,  \* what a compiling thread compiles
  program,  \* the local `program`, an Artifact
  wrapped,  \* _native of each Artifact: the code it holds, or NULL
  cache,    \* ArtifactCache._artifacts: key -> Artifact
  compiled, \* each kernel: the request it was compiled for, and its artifact
  attribute,\* _runtime_kernel of each kernel
  target,   \* the kernel a thread runs
  local,    \* the RuntimeKernel a running thread has fetched or loaded
  held,     \* the native kernel a thread holds a reference to
  code,     \* the code each RuntimeKernel was loaded from (NULL: not in use)
  alive,    \* the RuntimeKernels that have not been destroyed
  destroyed,\* the kernels whose artifact or runtime kernel a user destroyed
  raised    \* what each thread's last run raised

compileVars == <<request, program, wrapped, cache, compiled>>
runVars == <<attribute, target, local, held, code, alive>>
runVarsButHeld == <<attribute, target, local, code, alive>>
vars == <<pc, compileVars, runVars, destroyed, raised>>

\* Mutant: the compile options are not part of the key.
CacheKeyNoOptions(r) == <<r.graph>>

\* calculateCacheKey: the printed module with every graph named "graph", and
\* the options with default debug options.
CacheKey(r) == <<r.graph, r.options>>

\* CudaTileCompiler::compile: TileIR bytecode that load_tileir_bc_path names
\* replaces what the module compiles to.
CodeFor(r) == IF r.loadPath # NULL THEN <<"file", r.loadPath>> ELSE <<r.graph, r.options>>

\* Compiled code is not None.
ASSUME CodeAssumption == \A r \in Requests : CodeFor(r) # NULL

Keys == {CacheKey(r) : r \in Requests}
NoKernel == [request |-> NULL, artifact |-> NULL]

Init ==
  /\ pc = [t \in Threads |-> "idle"]
  /\ request = [t \in Threads |-> NULL]
  /\ program = [t \in Threads |-> NULL]
  /\ wrapped = [w \in Wrappers |-> NULL]
  /\ cache = [k \in Keys |-> NULL]
  /\ compiled = [k \in Kernels |-> NoKernel]
  /\ attribute = [k \in Kernels |-> NULL]
  /\ target = [t \in Threads |-> NULL]
  /\ local = [t \in Threads |-> NULL]
  /\ held = [t \in Threads |-> NULL]
  /\ code = [r \in Runtimes |-> NULL]
  /\ alive = {}
  /\ destroyed = {}
  /\ raised = [t \in Threads |-> "nothing"]

Goto(t, label) == pc' = [pc EXCEPT ![t] = label]

\* The objects something refers to: reference counting drops the others at once.
UsedWrappers ==
  {w \in Wrappers : \/ \E t \in Threads : program[t] = w
                    \/ \E k \in Keys : cache[k] = w
                    \/ \E k \in Kernels : compiled[k].artifact = w}

UsedRuntimes ==
  {r \in Runtimes : \/ \E k \in Kernels : attribute[k] = r
                    \/ \E t \in Threads : local[t] = r \/ held[t] = r}

DropWrappers == wrapped' = [w \in Wrappers |-> IF w \in UsedWrappers' THEN wrapped[w] ELSE NULL]

DropRuntimes ==
  /\ code' = [r \in Runtimes |-> IF r \in UsedRuntimes' THEN code[r] ELSE NULL]
  /\ alive' = alive \cap UsedRuntimes'

-----------------------------------------------------------------------------
(* compile_cuda_tile.                                                      *)

FreeWrappers == Wrappers \ UsedWrappers

\* copy.copy(w) and Artifact(native): a new wrapper, as good as any other.
NewWrapper == CHOOSE w \in FreeWrappers : TRUE

Compile(t) ==
  /\ pc[t] = "idle"
  /\ \E k \in Kernels : compiled[k] = NoKernel
  /\ \E r \in Requests : request' = [request EXCEPT ![t] = r]
  /\ Goto(t, "get")
  /\ UNCHANGED <<program, wrapped, cache, compiled, runVars, destroyed, raised>>

\* Mutant: _get returns the cached artifact itself.
CacheGetShares(t) ==
  LET cached == cache[CacheKey(request[t])]
  IN /\ pc[t] = "get"
     /\ program' = [program EXCEPT ![t] = cached]
     /\ Goto(t, IF cached = NULL THEN "compile" ELSE "wrap")
     /\ UNCHANGED <<request, wrapped, cache, compiled, runVars, destroyed, raised>>

\* _get: a copy of the cached artifact.
CacheGet(t) ==
  LET cached == cache[CacheKey(request[t])]
  IN /\ pc[t] = "get"
     /\ IF cached = NULL
        THEN Goto(t, "compile") /\ UNCHANGED <<program, wrapped>>
        ELSE /\ FreeWrappers # {}
             /\ program' = [program EXCEPT ![t] = NewWrapper]
             /\ wrapped' = [wrapped EXCEPT ![NewWrapper] = wrapped[cached]]
             /\ Goto(t, "wrap")
     /\ UNCHANGED <<request, cache, compiled, runVars, destroyed, raised>>

\* nv_tensor_ir.compile; it may raise.
CompileProgram(t) ==
  /\ pc[t] = "compile"
  /\ \/ /\ FreeWrappers # {}
        /\ program' = [program EXCEPT ![t] = NewWrapper]
        /\ wrapped' = [wrapped EXCEPT ![NewWrapper] = CodeFor(request[t])]
        /\ Goto(t, "put")
        /\ UNCHANGED request
     \/ /\ Goto(t, "idle")
        /\ request' = [request EXCEPT ![t] = NULL]
        /\ UNCHANGED <<program, wrapped>>
  /\ UNCHANGED <<cache, compiled, runVars, destroyed, raised>>

\* Mutant: _put keeps the artifact the caller has.
CachePutShares(t) ==
  /\ pc[t] = "put"
  /\ cache' = [cache EXCEPT ![CacheKey(request[t])] = program[t]]
  /\ Goto(t, "wrap")
  /\ UNCHANGED <<request, program, compiled, runVars, destroyed, raised>>
  /\ DropWrappers

\* _put: a copy goes into the cache, over what another thread may have put
\* there, which is dropped.
CachePut(t) ==
  /\ pc[t] = "put"
  /\ FreeWrappers # {}
  /\ cache' = [cache EXCEPT ![CacheKey(request[t])] = NewWrapper]
  /\ wrapped' = [w \in Wrappers |->
                   CASE w = NewWrapper -> wrapped[program[t]]
                     [] w = cache[CacheKey(request[t])] -> NULL
                     [] OTHER -> wrapped[w]]
  /\ Goto(t, "wrap")
  /\ UNCHANGED <<request, program, compiled, runVars, destroyed, raised>>

\* CudaTileCompiledKernel(program, ...) is returned.
WrapKernel(t) ==
  /\ pc[t] = "wrap"
  /\ \E k \in Kernels :
       /\ compiled[k] = NoKernel
       /\ compiled' = [compiled EXCEPT ![k] = [request |-> request[t], artifact |-> program[t]]]
  /\ program' = [program EXCEPT ![t] = NULL]
  /\ request' = [request EXCEPT ![t] = NULL]
  /\ Goto(t, "idle")
  /\ UNCHANGED <<wrapped, cache, runVars, destroyed, raised>>

\* ArtifactCache.flush.
Flush ==
  /\ cache' = [k \in Keys |-> NULL]
  /\ UNCHANGED <<pc, request, program, compiled, runVars, destroyed, raised>>
  /\ DropWrappers

-----------------------------------------------------------------------------
(* Artifact.destroy and RuntimeKernel.destroy, by whoever holds the kernel. *)

DestroyArtifact(k) ==
  /\ compiled[k] # NoKernel
  /\ wrapped' = [wrapped EXCEPT ![compiled[k].artifact] = NULL]
  /\ destroyed' = destroyed \cup {k}
  /\ UNCHANGED <<pc, request, program, cache, compiled, runVars, raised>>

DestroyRuntime(k) ==
  /\ attribute[k] # NULL
  /\ alive' = alive \ {attribute[k]}
  /\ destroyed' = destroyed \cup {k}
  /\ UNCHANGED <<pc, compileVars, attribute, target, local, held, code, raised>>

-----------------------------------------------------------------------------
(* CudaTileCompiledKernel.run and RuntimeKernel.launch.                    *)

\* The run of a thread ends: its locals go out of scope.
EndRun(t, error) ==
  /\ Goto(t, "idle")
  /\ raised' = [raised EXCEPT ![t] = error]
  /\ local' = [local EXCEPT ![t] = NULL]
  /\ held' = [held EXCEPT ![t] = NULL]
  /\ target' = [target EXCEPT ![t] = NULL]
  /\ UNCHANGED attribute
  /\ DropRuntimes

\* run tests whether the kernel has a usable runtime kernel.
Run(t) ==
  /\ pc[t] = "idle"
  /\ \E k \in Kernels :
       /\ compiled[k] # NoKernel
       /\ target' = [target EXCEPT ![t] = k]
       /\ Goto(t, IF attribute[k] \in alive THEN "fetch" ELSE "load")
  /\ raised' = [raised EXCEPT ![t] = "nothing"]
  /\ UNCHANGED <<compileVars, attribute, local, held, code, alive, destroyed>>

\* _require_native of the kernel's artifact.
CanLoad(k) == wrapped[compiled[k].artifact] # NULL

\* Artifact.load: raises for a destroyed artifact, and when the kernel cannot be
\* initialized; the runtime kernel has its own copy of the artifact.
Load(t) ==
  LET native == wrapped[compiled[target[t]].artifact]
  IN /\ pc[t] = "load"
     /\ \/ /\ CanLoad(target[t])
           /\ UsedRuntimes # Runtimes
           /\ LET new == CHOOSE r \in Runtimes \ UsedRuntimes : TRUE
              IN /\ code' = [code EXCEPT ![new] = native]
                 /\ alive' = alive \cup {new}
                 /\ local' = [local EXCEPT ![t] = new]
           /\ Goto(t, "store")
           /\ UNCHANGED <<attribute, target, held, raised>>
        \/ EndRun(t, IF CanLoad(target[t]) THEN "load_failed" ELSE "destroyed")
     /\ UNCHANGED <<compileVars, destroyed>>

\* Mutant: run destroys the runtime kernel it replaces.
StoreRuntimeDestroys(t) ==
  /\ pc[t] = "store"
  /\ attribute' = [attribute EXCEPT ![target[t]] = local[t]]
  /\ local' = [local EXCEPT ![t] = NULL]
  /\ Goto(t, "fetch")
  /\ UNCHANGED held
  /\ alive' = (alive \ {attribute[target[t]]}) \cap UsedRuntimes'
  /\ code' = [r \in Runtimes |-> IF r \in UsedRuntimes' THEN code[r] ELSE NULL]
  /\ UNCHANGED <<compileVars, target, destroyed, raised>>

\* self._runtime_kernel = ...; the one it replaces is dropped.
StoreRuntime(t) ==
  /\ pc[t] = "store"
  /\ attribute' = [attribute EXCEPT ![target[t]] = local[t]]
  /\ local' = [local EXCEPT ![t] = NULL]
  /\ Goto(t, "fetch")
  /\ UNCHANGED held
  /\ DropRuntimes
  /\ UNCHANGED <<compileVars, target, destroyed, raised>>

\* self._runtime_kernel is read again, for its method launch.
FetchRuntime(t) ==
  /\ pc[t] = "fetch"
  /\ local' = [local EXCEPT ![t] = attribute[target[t]]]
  /\ Goto(t, "require")
  /\ UNCHANGED <<compileVars, attribute, target, held, code, alive, destroyed, raised>>

\* Mutant: launch keeps no reference to the native kernel.
RequireNativeUnheld(t) ==
  /\ pc[t] = "require"
  /\ IF local[t] \in alive
     THEN Goto(t, "workspace") /\ UNCHANGED <<runVars, raised>>
     ELSE EndRun(t, "destroyed")
  /\ UNCHANGED <<compileVars, destroyed>>

\* launch: native = self._require_native() raises when destroyed.  A destroy
\* between its test and its read of _native gives None instead, and the
\* workspace query that follows raises.
RequireNative(t) ==
  /\ pc[t] = "require"
  /\ IF local[t] \in alive
     THEN /\ held' = [held EXCEPT ![t] = local[t]]
          /\ Goto(t, "workspace")
          /\ UNCHANGED <<runVarsButHeld, raised>>
     ELSE EndRun(t, "destroyed")
  /\ UNCHANGED <<compileVars, destroyed>>

\* self.query_workspace_size requires the native kernel once more; a destroy
\* between its test and its read makes it call a method of None.
QueryWorkspace(t) ==
  /\ pc[t] = "workspace"
  /\ IF local[t] \in alive
     THEN Goto(t, "launch") /\ UNCHANGED <<runVars, raised>>
     ELSE \E error \in {"destroyed", "attribute_error"} : EndRun(t, error)
  /\ UNCHANGED <<compileVars, destroyed>>

\* native.launch: the arguments are packed, calling back into Python, and the
\* kernel is enqueued.
NativeLaunch(t) ==
  /\ pc[t] = "launch"
  /\ \E error \in {"nothing", "launch_failed"} : EndRun(t, error)
  /\ UNCHANGED <<compileVars, destroyed>>

-----------------------------------------------------------------------------

Next ==
  \/ \E t \in Threads :
       \/ Compile(t) \/ CacheGet(t) \/ CompileProgram(t) \/ CachePut(t) \/ WrapKernel(t)
       \/ Run(t) \/ Load(t) \/ StoreRuntime(t) \/ FetchRuntime(t)
       \/ RequireNative(t) \/ QueryWorkspace(t) \/ NativeLaunch(t)
  \/ \E k \in Kernels : DestroyArtifact(k) \/ DestroyRuntime(k)
  \/ Flush

Spec == Init /\ [][Next]_vars

-----------------------------------------------------------------------------
(* Properties.                                                             *)

\* A native kernel is unloaded with its last reference: the ones of a wrapper
\* that is in use and not destroyed, and the ones threads hold.
Loaded(r) ==
  \/ /\ r \in alive
     /\ (\E k \in Kernels : attribute[k] = r) \/ (\E t \in Threads : local[t] = r)
  \/ \E t \in Threads : held[t] = r

\* README.md: a returned artifact may be destroyed without affecting the cached
\* one, so what is in the cache is never destroyed.
CachedIsUsable == \A k \in Keys : cache[k] # NULL => wrapped[cache[k]] # NULL

\* A kernel's artifact is usable until its own user destroys it: flushing the
\* cache, overwriting an entry, or destroying another kernel built from the same
\* cached artifact does not invalidate it.
ReturnedIsUsable ==
  \A k \in Kernels : compiled[k] # NoKernel /\ k \notin destroyed => wrapped[compiled[k].artifact] # NULL

\* Whatever other threads compile, put and flush meanwhile, the kernel a thread
\* gets runs the code of what it asked to compile (the key distinguishes what
\* compiles differently).
CodeMatchesRequest ==
  \A k \in Kernels : compiled[k] # NoKernel =>
    wrapped[compiled[k].artifact] \in {NULL, CodeFor(compiled[k].request)}

\* A thread inside the native launch uses a kernel that stays loaded, of the
\* code of the compiled kernel it runs, even when another thread replaces or
\* destroys the runtime kernel.
LaunchUsesOwnKernel ==
  \A t \in Threads : pc[t] \in {"workspace", "launch"} =>
    /\ Loaded(local[t])
    /\ code[local[t]] = CodeFor(compiled[target[t]].request)

\* Two threads that run the same kernel for the first time may both load it,
\* but neither of them fails because of that: run only finds something
\* destroyed when a user destroyed it.
OnlyUsersDestroy ==
  [][\A t \in Threads : target[t] # NULL /\ raised'[t] \in {"destroyed", "attribute_error"}
       => target[t] \in destroyed]_vars
=============================================================================
