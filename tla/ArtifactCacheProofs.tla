------------------------- MODULE ArtifactCacheProofs -------------------------
(***************************************************************************)
(* Proofs about the artifact cache, for any number of threads, kernels,    *)
(* wrappers and runtime kernels.  Three layers: every wrapper has one      *)
(* owner, so that what is destroyed or dropped is never someone else's     *)
(* (CacheInv); when the cache key tells what compiles differently, every   *)
(* wrapper holds the code its owner asked for (CodeInv); and a run keeps   *)
(* the runtime kernel of its own compiled kernel (RunInv).                 *)
(***************************************************************************)
EXTENDS ArtifactCache, TLAPS

Labels == {"idle", "get", "compile", "put", "wrap", "fetch", "load", "store",
           "require", "workspace", "launch"}
Compiling == {"get", "compile", "put", "wrap"}
Running == {"fetch", "load", "store", "require", "workspace", "launch"}
Codes == {CodeFor(r) : r \in Requests}

TypeOK ==
  /\ pc \in [Threads -> Labels]
  /\ request \in [Threads -> Requests \cup {NULL}]
  /\ program \in [Threads -> Wrappers \cup {NULL}]
  /\ wrapped \in [Wrappers -> Codes \cup {NULL}]
  /\ cache \in [Keys -> Wrappers \cup {NULL}]
  /\ compiled \in [Kernels -> [request : Requests, artifact : Wrappers] \cup {NoKernel}]
  /\ attribute \in [Kernels -> Runtimes \cup {NULL}]
  /\ target \in [Threads -> Kernels \cup {NULL}]
  /\ local \in [Threads -> Runtimes \cup {NULL}]
  /\ held \in [Threads -> Runtimes \cup {NULL}]
  /\ code \in [Runtimes -> Codes \cup {NULL}]
  /\ alive \subseteq Runtimes
  /\ destroyed \subseteq Kernels

\* A compiling thread has a request; from its compilation on, it has an artifact.
CompilingHasProgram ==
  \A t \in Threads :
    /\ pc[t] \in Compiling => request[t] \in Requests
    /\ pc[t] \in {"put", "wrap"} => program[t] \in Wrappers /\ wrapped[program[t]] # NULL

\* What a thread runs has been compiled.
RunsCompiled ==
  \A t \in Threads :
    pc[t] \in Running => target[t] \in Kernels /\ compiled[target[t]] # NoKernel

\* No two threads, cache entries and kernels share a wrapper.
OneOwner ==
  /\ \A t, u \in Threads : program[t] # NULL /\ program[t] = program[u] => t = u
  /\ \A k, l \in Keys : cache[k] # NULL /\ cache[k] = cache[l] => k = l
  /\ \A k, l \in Kernels :
       compiled[k] # NoKernel /\ compiled[k].artifact = compiled[l].artifact => k = l
  /\ \A t \in Threads, k \in Keys : program[t] # NULL => program[t] # cache[k]
  /\ \A t \in Threads, k \in Kernels : program[t] # NULL => program[t] # compiled[k].artifact
  /\ \A k \in Keys, l \in Kernels : cache[k] # NULL => cache[k] # compiled[l].artifact

CacheInv ==
  /\ TypeOK
  /\ CompilingHasProgram
  /\ RunsCompiled
  /\ OneOwner
  /\ CachedIsUsable
  /\ ReturnedIsUsable

\* Equal keys mean equal code.
KeysTellCode == \A r, s \in Requests : CacheKey(r) = CacheKey(s) => CodeFor(r) = CodeFor(s)

\* What a thread has compiled, and what the cache holds, is the code of its request.
CodeInv ==
  /\ \A t \in Threads : pc[t] \in {"put", "wrap"} => wrapped[program[t]] = CodeFor(request[t])
  /\ \A r \in Requests : cache[CacheKey(r)] # NULL => wrapped[cache[CacheKey(r)]] = CodeFor(r)
  /\ CodeMatchesRequest

\* Each runtime kernel a kernel or a thread refers to has the code of the kernel.
RunInv ==
  /\ \A k \in Kernels : attribute[k] # NULL =>
       compiled[k] # NoKernel /\ code[attribute[k]] = CodeFor(compiled[k].request)
  /\ \A t \in Threads : local[t] # NULL =>
       pc[t] \in Running /\ code[local[t]] = CodeFor(compiled[target[t]].request)
  /\ \A t \in Threads : pc[t] \in {"workspace", "launch"} => local[t] # NULL /\ held[t] = local[t]

Errors == {"nothing", "destroyed", "load_failed", "launch_failed", "attribute_error"}

\* The runtime kernels of different compiled kernels are different.
OneKernel ==
  /\ \A k, l \in Kernels : attribute[k] # NULL /\ attribute[k] = attribute[l] => k = l
  /\ \A t \in Threads, k \in Kernels : local[t] # NULL /\ local[t] = attribute[k] => target[t] = k
  /\ \A t, u \in Threads : local[t] # NULL /\ local[t] = local[u] => target[t] = target[u]

\* Until its user destroys a kernel, its runtime kernels are alive.
AliveInv ==
  /\ raised \in [Threads -> Errors]
  /\ \A t \in Threads : target[t] # NULL => pc[t] \in Running /\ raised[t] = "nothing"
  /\ \A t \in Threads : local[t] # NULL => pc[t] \in Running
  /\ \A t \in Threads : pc[t] = "fetch" => attribute[target[t]] # NULL
  /\ \A t \in Threads : pc[t] \in {"store", "require", "workspace"} => local[t] # NULL
  /\ OneKernel
  /\ \A k \in Kernels \ destroyed : attribute[k] # NULL => attribute[k] \in alive
  /\ \A t \in Threads : local[t] # NULL /\ target[t] \notin destroyed => local[t] \in alive

-----------------------------------------------------------------------------
(* Every wrapper has one owner.                                            *)

\* A wrapper that copy.copy or Artifact(native) makes is nobody else's.
LEMMA NewWrapperIsFree ==
  ASSUME FreeWrappers # {}
  PROVE  /\ NewWrapper \in Wrappers
         /\ \A t \in Threads : program[t] # NewWrapper
         /\ \A k \in Keys : cache[k] # NewWrapper
         /\ \A k \in Kernels : compiled[k].artifact # NewWrapper
  BY DEF NewWrapper, FreeWrappers, UsedWrappers

\* A request is not None, so that a kernel that is compiled is not NoKernel.
LEMMA CompiledIsKernel ==
  ASSUME NEW r \in Requests, NEW w
  PROVE  [request |-> r, artifact |-> w] # NoKernel
  BY NullAssumption DEF NoKernel

\* The code of a request is code, and has a name of its own.
LEMMA CodeOfRequest ==
  ASSUME NEW r \in Requests
  PROVE  CodeFor(r) \in Codes /\ CodeFor(r) # NULL /\ CacheKey(r) \in Keys
  BY CodeAssumption DEF Codes, Keys

LEMMA CacheInvInit == Init => CacheInv
  <1> SUFFICES ASSUME Init PROVE CacheInv
    OBVIOUS
  <1>1. TypeOK
    BY DEF Init, TypeOK, Labels, NoKernel
  <1>2. CompilingHasProgram /\ RunsCompiled
    BY DEF Init, CompilingHasProgram, RunsCompiled, Compiling, Running
  <1>3. OneOwner
    BY DEF Init, OneOwner, NoKernel
  <1>4. CachedIsUsable /\ ReturnedIsUsable
    BY DEF Init, CachedIsUsable, ReturnedIsUsable
  <1> QED
    BY <1>1, <1>2, <1>3, <1>4 DEF CacheInv

\* A step of run touches neither the cache nor any wrapper.
RunStep(t) ==
  \/ Run(t) \/ Load(t) \/ StoreRuntime(t) \/ FetchRuntime(t)
  \/ RequireNative(t) \/ QueryWorkspace(t) \/ NativeLaunch(t)

LEMMA DropRuntimesTyped ==
  ASSUME TypeOK, DropRuntimes
  PROVE  code' \in [Runtimes -> Codes \cup {NULL}] /\ alive' \subseteq Runtimes
  BY DEF TypeOK, DropRuntimes

LEMMA EndRunTyped ==
  ASSUME TypeOK, NEW t \in Threads, NEW error, EndRun(t, error)
  PROVE  /\ pc' = [pc EXCEPT ![t] = "idle"]
         /\ attribute' \in [Kernels -> Runtimes \cup {NULL}]
         /\ target' \in [Threads -> Kernels \cup {NULL}]
         /\ local' \in [Threads -> Runtimes \cup {NULL}]
         /\ held' \in [Threads -> Runtimes \cup {NULL}]
         /\ code' \in [Runtimes -> Codes \cup {NULL}]
         /\ alive' \subseteq Runtimes
  BY DropRuntimesTyped DEF TypeOK, EndRun, Goto

\* Artifact.load either makes a runtime kernel that nobody refers to, or raises.
LEMMA LoadCases ==
  ASSUME NEW t \in Threads, Load(t)
  PROVE  /\ pc[t] = "load"
         /\ UNCHANGED <<compileVars, destroyed>>
         /\ \/ /\ wrapped[compiled[target[t]].artifact] # NULL
               /\ \E new \in Runtimes \ UsedRuntimes :
                    /\ code' = [code EXCEPT ![new] = wrapped[compiled[target[t]].artifact]]
                    /\ alive' = alive \cup {new}
                    /\ local' = [local EXCEPT ![t] = new]
               /\ Goto(t, "store")
               /\ UNCHANGED <<attribute, target, held, raised>>
            \/ \E error : EndRun(t, error)
  <1> DEFINE free == CHOOSE r \in Runtimes \ UsedRuntimes : TRUE
  <1>1. UsedRuntimes # Runtimes => free \in Runtimes \ UsedRuntimes
    BY DEF UsedRuntimes
  <1> QED
    BY <1>1 DEF Load, CanLoad

LEMMA RunStepFrame ==
  ASSUME CacheInv, NEW t \in Threads, RunStep(t)
  PROVE  /\ TypeOK'
         /\ UNCHANGED <<compileVars, destroyed>>
         /\ pc[t] \notin Compiling
         /\ \E label \in Labels \ Compiling : pc' = [pc EXCEPT ![t] = label]
  <1> USE DEF Compiling
  <1>0. TypeOK /\ RunsCompiled
    BY DEF CacheInv
  <1>1. CASE Run(t)
    <2>1. PICK k \in Kernels : target' = [target EXCEPT ![t] = k]
      BY <1>1 DEF Run
    <2>2. PICK label \in {"fetch", "load"} : pc' = [pc EXCEPT ![t] = label]
      BY <1>1 DEF Run, Goto
    <2>3. /\ pc[t] = "idle"
          /\ UNCHANGED <<compileVars, attribute, local, held, code, alive, destroyed>>
      BY <1>1 DEF Run
    <2>4. pc' \in [Threads -> Labels] /\ target' \in [Threads -> Kernels \cup {NULL}]
      BY <1>0, <2>1, <2>2 DEF TypeOK, Labels
    <2>5. TypeOK'
      BY <1>0, <2>3, <2>4 DEF TypeOK, compileVars
    <2> QED
      BY <2>2, <2>3, <2>5 DEF Labels
  <1>2. CASE Load(t)
    <2>1. pc[t] = "load" /\ UNCHANGED <<compileVars, destroyed>>
      BY <1>2, LoadCases
    <2>2. CASE \E error : EndRun(t, error)
      BY <1>0, <2>1, <2>2, EndRunTyped DEF TypeOK, Labels, compileVars
    <2>3. CASE ~ \E error : EndRun(t, error)
      <3>1. PICK new \in Runtimes \ UsedRuntimes :
              /\ code' = [code EXCEPT ![new] = wrapped[compiled[target[t]].artifact]]
              /\ alive' = alive \cup {new}
              /\ local' = [local EXCEPT ![t] = new]
        BY <1>2, <2>3, LoadCases
      <3>2. /\ wrapped[compiled[target[t]].artifact] # NULL
            /\ pc' = [pc EXCEPT ![t] = "store"]
            /\ UNCHANGED <<attribute, target, held>>
        BY <1>2, <2>3, LoadCases DEF Goto
      <3>3. wrapped[compiled[target[t]].artifact] \in Codes
        BY <1>0, <2>1, <3>2 DEF TypeOK, RunsCompiled, Running
      <3> QED
        BY <1>0, <2>1, <3>1, <3>2, <3>3 DEF TypeOK, Labels, compileVars
    <2> QED
      BY <2>2, <2>3
  <1>3. CASE StoreRuntime(t)
    <2>1. /\ pc[t] = "store"
          /\ pc' = [pc EXCEPT ![t] = "fetch"]
          /\ attribute' = [attribute EXCEPT ![target[t]] = local[t]]
          /\ local' = [local EXCEPT ![t] = NULL]
          /\ UNCHANGED <<compileVars, target, held, destroyed>>
      BY <1>3 DEF StoreRuntime, Goto
    <2>2. code' \in [Runtimes -> Codes \cup {NULL}] /\ alive' \subseteq Runtimes
      BY <1>0, <1>3, DropRuntimesTyped DEF StoreRuntime
    <2>3. pc' \in [Threads -> Labels] /\ attribute' \in [Kernels -> Runtimes \cup {NULL}]
      BY <1>0, <2>1 DEF TypeOK, Labels
    <2>4. local' \in [Threads -> Runtimes \cup {NULL}]
      BY <1>0, <2>1 DEF TypeOK
    <2>5. TypeOK'
      BY <1>0, <2>1, <2>2, <2>3, <2>4 DEF TypeOK, compileVars
    <2> QED
      BY <2>1, <2>5 DEF Labels
  <1>4. CASE FetchRuntime(t)
    <2>1. /\ pc[t] = "fetch"
          /\ pc' = [pc EXCEPT ![t] = "require"]
          /\ local' = [local EXCEPT ![t] = attribute[target[t]]]
          /\ UNCHANGED <<compileVars, attribute, target, held, code, alive, destroyed>>
      BY <1>4 DEF FetchRuntime, Goto
    <2>2. attribute[target[t]] \in Runtimes \cup {NULL}
      BY <1>0, <2>1 DEF TypeOK, RunsCompiled, Running
    <2>3. pc' \in [Threads -> Labels] /\ local' \in [Threads -> Runtimes \cup {NULL}]
      BY <1>0, <2>1, <2>2 DEF TypeOK, Labels
    <2>4. TypeOK'
      BY <1>0, <2>1, <2>3 DEF TypeOK, compileVars
    <2> QED
      BY <2>1, <2>4 DEF Labels
  <1>5. CASE RequireNative(t)
    BY <1>0, <1>5, EndRunTyped DEF RequireNative, TypeOK, Labels, Goto, compileVars, runVarsButHeld
  <1>6. CASE QueryWorkspace(t)
    <2>1. pc[t] = "workspace" /\ UNCHANGED <<compileVars, destroyed>>
      BY <1>6 DEF QueryWorkspace
    <2>2. CASE \E error : EndRun(t, error)
      BY <1>0, <2>1, <2>2, EndRunTyped DEF TypeOK, Labels, compileVars
    <2>3. CASE pc' = [pc EXCEPT ![t] = "launch"] /\ UNCHANGED runVars
      BY <1>0, <2>1, <2>3 DEF TypeOK, Labels, compileVars, runVars
    <2> QED
      BY <1>6, <2>2, <2>3 DEF QueryWorkspace, Goto
  <1>7. CASE NativeLaunch(t)
    BY <1>0, <1>7, EndRunTyped DEF NativeLaunch, TypeOK, Labels, Goto, compileVars
  <1> QED
    BY <1>1, <1>2, <1>3, <1>4, <1>5, <1>6, <1>7 DEF RunStep

\* A run targets a compiled kernel until it ends.
LEMMA RunsCompiledRunStep ==
  ASSUME CacheInv, NEW t \in Threads, RunStep(t)
  PROVE  RunsCompiled'
  <1>1. TypeOK /\ RunsCompiled
    BY DEF CacheInv
  <1>2. UNCHANGED compiled
    BY RunStepFrame DEF compileVars
  <1>3. CASE Run(t)
    <2>1. PICK k \in Kernels : compiled[k] # NoKernel /\ target' = [target EXCEPT ![t] = k]
      BY <1>3 DEF Run
    <2>2. \A u \in Threads \ {t} : pc'[u] = pc[u]
      BY <1>1, <1>3 DEF Run, Goto, TypeOK
    <2> QED
      BY <1>1, <1>2, <2>1, <2>2 DEF RunsCompiled, TypeOK
  <1>4. CASE \E error : EndRun(t, error)
    <2>1. /\ pc' = [pc EXCEPT ![t] = "idle"]
          /\ target' = [target EXCEPT ![t] = NULL]
      BY <1>4 DEF EndRun, Goto
    <2> QED
      BY <1>1, <1>2, <2>1 DEF RunsCompiled, TypeOK, Running
  <1>5. CASE pc[t] \in Running /\ UNCHANGED target /\ \E label : pc' = [pc EXCEPT ![t] = label]
    BY <1>1, <1>2, <1>5 DEF RunsCompiled, TypeOK
  <1>6. ~Run(t) /\ ~(\E error : EndRun(t, error)) =>
          pc[t] \in Running /\ UNCHANGED target
    BY LoadCases DEF RunStep, StoreRuntime, FetchRuntime, RequireNative, QueryWorkspace,
                     NativeLaunch, Running, runVars, runVarsButHeld
  <1>7. \E label : pc' = [pc EXCEPT ![t] = label]
    BY RunStepFrame
  <1> QED
    BY <1>3, <1>4, <1>5, <1>6, <1>7

LEMMA CacheInvRunStep ==
  ASSUME CacheInv, NEW t \in Threads, RunStep(t)
  PROVE  CacheInv'
  <1>1. /\ TypeOK'
        /\ UNCHANGED <<compileVars, destroyed>>
        /\ \E label \in Labels \ Compiling : pc' = [pc EXCEPT ![t] = label]
    BY RunStepFrame
  <1>2. UNCHANGED <<request, program, wrapped, cache, compiled, destroyed>>
    BY <1>1 DEF compileVars
  <1>3. \A u \in Threads : pc'[u] \in Compiling => pc'[u] = pc[u]
    BY <1>1 DEF CacheInv, TypeOK
  <1>4. CompilingHasProgram'
    BY <1>2, <1>3 DEF CacheInv, CompilingHasProgram, Compiling
  <1>5. OneOwner' /\ CachedIsUsable' /\ ReturnedIsUsable'
    BY <1>2 DEF CacheInv, OneOwner, CachedIsUsable, ReturnedIsUsable
  <1> QED
    BY <1>1, <1>4, <1>5, RunsCompiledRunStep DEF CacheInv

LEMMA CacheInvCompile ==
  ASSUME CacheInv, NEW t \in Threads, Compile(t)
  PROVE  CacheInv'
  <1> USE DEF Compiling, Running
  <1>1. /\ pc' = [pc EXCEPT ![t] = "get"]
        /\ UNCHANGED <<program, wrapped, cache, compiled, destroyed>>
        /\ UNCHANGED <<attribute, target, local, held, code, alive>>
    BY DEF Compile, Goto, runVars
  <1>2. PICK r \in Requests : request' = [request EXCEPT ![t] = r]
    BY DEF Compile
  <1>3. TypeOK'
    BY <1>1, <1>2 DEF CacheInv, TypeOK, Labels
  <1>4. CompilingHasProgram' /\ RunsCompiled'
    BY <1>1, <1>2 DEF CacheInv, TypeOK, CompilingHasProgram, RunsCompiled
  <1>5. OneOwner' /\ CachedIsUsable' /\ ReturnedIsUsable'
    BY <1>1 DEF CacheInv, OneOwner, CachedIsUsable, ReturnedIsUsable
  <1> QED
    BY <1>3, <1>4, <1>5 DEF CacheInv

\* A thread gets a wrapper nobody has, around the code c: the copy of a cached
\* artifact, or what has just been compiled.
LEMMA CacheInvNewProgram ==
  ASSUME CacheInv, NEW t \in Threads, NEW c \in Codes, c # NULL,
         NEW label \in {"put", "wrap"},
         pc[t] \in Compiling, FreeWrappers # {},
         pc' = [pc EXCEPT ![t] = label],
         program' = [program EXCEPT ![t] = NewWrapper],
         wrapped' = [wrapped EXCEPT ![NewWrapper] = c],
         UNCHANGED <<request, cache, compiled, runVars, destroyed>>
  PROVE  CacheInv'
  <1> USE NewWrapperIsFree
  <1>1. UNCHANGED <<attribute, target, local, held, code, alive>>
    BY DEF runVars
  <1>2. TypeOK'
    BY <1>1 DEF CacheInv, TypeOK, Labels
  <1>3. /\ program'[t] = NewWrapper /\ wrapped'[NewWrapper] = c
        /\ \A u \in Threads \ {t} : program'[u] = program[u] /\ pc'[u] = pc[u]
        /\ \A w \in Wrappers \ {NewWrapper} : wrapped'[w] = wrapped[w]
    BY DEF CacheInv, TypeOK
  <1>4. CompilingHasProgram'
    BY <1>3 DEF CacheInv, CompilingHasProgram, Compiling
  <1>5. RunsCompiled'
    BY <1>1, <1>3 DEF CacheInv, TypeOK, RunsCompiled, Running
  <1>6. OneOwner'
    BY <1>3 DEF CacheInv, OneOwner
  <1>7. CachedIsUsable'
    BY <1>3 DEF CacheInv, TypeOK, CachedIsUsable
  <1>8. ReturnedIsUsable'
    <2> SUFFICES ASSUME NEW k \in Kernels, compiled[k] # NoKernel, k \notin destroyed
                 PROVE  wrapped'[compiled[k].artifact] # NULL
      BY DEF ReturnedIsUsable
    <2>1. compiled[k].artifact \in Wrappers \ {NewWrapper}
      BY DEF CacheInv, TypeOK
    <2> QED
      BY <1>3, <2>1 DEF CacheInv, ReturnedIsUsable
  <1> QED
    BY <1>2, <1>4, <1>5, <1>6, <1>7, <1>8 DEF CacheInv

LEMMA CacheInvCacheGet ==
  ASSUME CacheInv, NEW t \in Threads, CacheGet(t)
  PROVE  CacheInv'
  <1> DEFINE cached == cache[CacheKey(request[t])]
  <1>1. pc[t] = "get" /\ UNCHANGED <<request, cache, compiled, runVars, destroyed>>
    BY DEF CacheGet
  <1>2. request[t] \in Requests /\ CacheKey(request[t]) \in Keys
    BY <1>1, CodeOfRequest DEF CacheInv, CompilingHasProgram, Compiling
  <1>3. CASE cached = NULL
    <2>1. pc' = [pc EXCEPT ![t] = "compile"] /\ UNCHANGED <<program, wrapped>>
      BY <1>3 DEF CacheGet, Goto
    <2>2. UNCHANGED <<attribute, target, local, held, code, alive>>
      BY <1>1 DEF runVars
    <2>3. TypeOK'
      BY <1>1, <2>1, <2>2 DEF CacheInv, TypeOK, Labels
    <2>4. CompilingHasProgram' /\ RunsCompiled'
      BY <1>1, <1>2, <2>1, <2>2 DEF CacheInv, TypeOK, CompilingHasProgram, RunsCompiled, Compiling, Running
    <2>5. OneOwner' /\ CachedIsUsable' /\ ReturnedIsUsable'
      BY <1>1, <2>1 DEF CacheInv, OneOwner, CachedIsUsable, ReturnedIsUsable
    <2> QED
      BY <2>3, <2>4, <2>5 DEF CacheInv
  <1>4. CASE cached # NULL
    <2>1. /\ FreeWrappers # {}
          /\ pc' = [pc EXCEPT ![t] = "wrap"]
          /\ program' = [program EXCEPT ![t] = NewWrapper]
          /\ wrapped' = [wrapped EXCEPT ![NewWrapper] = wrapped[cached]]
      BY <1>4 DEF CacheGet, Goto
    <2>2. wrapped[cached] # NULL /\ wrapped[cached] \in Codes
      BY <1>2, <1>4 DEF CacheInv, TypeOK, CachedIsUsable
    <2> QED
      BY <1>1, <2>1, <2>2, CacheInvNewProgram DEF Compiling
  <1> QED
    BY <1>3, <1>4

LEMMA CacheInvCompileProgram ==
  ASSUME CacheInv, NEW t \in Threads, CompileProgram(t)
  PROVE  CacheInv'
  <1>1. pc[t] = "compile" /\ UNCHANGED <<cache, compiled, runVars, destroyed>>
    BY DEF CompileProgram
  <1>2. request[t] \in Requests
    BY <1>1 DEF CacheInv, CompilingHasProgram, Compiling
  <1>3. CASE /\ FreeWrappers # {}
             /\ program' = [program EXCEPT ![t] = NewWrapper]
             /\ wrapped' = [wrapped EXCEPT ![NewWrapper] = CodeFor(request[t])]
             /\ Goto(t, "put")
             /\ UNCHANGED request
    BY <1>1, <1>2, <1>3, CodeOfRequest, CacheInvNewProgram DEF Compiling, Goto
  <1>4. CASE /\ Goto(t, "idle")
             /\ request' = [request EXCEPT ![t] = NULL]
             /\ UNCHANGED <<program, wrapped>>
    <2>1. UNCHANGED <<attribute, target, local, held, code, alive>>
      BY <1>1 DEF runVars
    <2>2. TypeOK'
      BY <1>1, <1>4, <2>1 DEF CacheInv, TypeOK, Labels, Goto
    <2>3. CompilingHasProgram' /\ RunsCompiled'
      BY <1>1, <1>4, <2>1 DEF CacheInv, TypeOK, CompilingHasProgram, RunsCompiled, Compiling, Running, Goto
    <2>4. OneOwner' /\ CachedIsUsable' /\ ReturnedIsUsable'
      BY <1>1, <1>4 DEF CacheInv, OneOwner, CachedIsUsable, ReturnedIsUsable
    <2> QED
      BY <2>2, <2>3, <2>4 DEF CacheInv
  <1> QED
    BY <1>3, <1>4 DEF CompileProgram

LEMMA CacheInvCachePut ==
  ASSUME CacheInv, NEW t \in Threads, CachePut(t)
  PROVE  CacheInv'
  <1> DEFINE key == CacheKey(request[t])
  <1> USE NewWrapperIsFree
  <1>1. /\ pc[t] = "put" /\ FreeWrappers # {}
        /\ pc' = [pc EXCEPT ![t] = "wrap"]
        /\ cache' = [cache EXCEPT ![key] = NewWrapper]
        /\ UNCHANGED <<request, program, compiled, destroyed>>
        /\ UNCHANGED <<attribute, target, local, held, code, alive>>
    BY DEF CachePut, Goto, runVars
  <1>2. /\ request[t] \in Requests /\ key \in Keys
        /\ program[t] \in Wrappers /\ wrapped[program[t]] # NULL
        /\ wrapped[program[t]] \in Codes
    BY <1>1, CodeOfRequest DEF CacheInv, TypeOK, CompilingHasProgram, Compiling
  <1>3. /\ wrapped' \in [Wrappers -> Codes \cup {NULL}]
        /\ wrapped'[NewWrapper] = wrapped[program[t]]
        /\ \A w \in Wrappers \ {NewWrapper} : w # cache[key] => wrapped'[w] = wrapped[w]
    BY <1>1, <1>2 DEF CachePut, CacheInv, TypeOK
  <1>4. /\ cache' \in [Keys -> Wrappers \cup {NULL}] /\ cache'[key] = NewWrapper
        /\ \A k \in Keys \ {key} : cache'[k] = cache[k]
    BY <1>1, <1>2 DEF CacheInv, TypeOK
  <1>5. TypeOK'
    BY <1>1, <1>3, <1>4 DEF CacheInv, TypeOK, Labels
  <1>6. CompilingHasProgram' /\ RunsCompiled'
    <2>1. \A u \in Threads : pc'[u] \in Compiling \cup Running => u = t \/ pc'[u] = pc[u]
      BY <1>1 DEF CacheInv, TypeOK
    <2>2. ASSUME NEW u \in Threads, pc'[u] \in {"put", "wrap"}
          PROVE  program'[u] \in Wrappers /\ wrapped'[program'[u]] # NULL
      <3>1. program[u] \in Wrappers /\ wrapped[program[u]] # NULL
        BY <1>1, <2>1, <2>2 DEF CacheInv, CompilingHasProgram, Compiling
      <3>2. program[u] # NewWrapper /\ program[u] # cache[key]
        BY <1>1, <1>2, <3>1, NullAssumption DEF CacheInv, OneOwner
      <3> QED
        BY <1>1, <1>3, <3>1, <3>2
    <2>3. \A u \in Threads : pc'[u] \in Compiling => request'[u] \in Requests
      BY <1>1, <1>2, <2>1 DEF CacheInv, CompilingHasProgram
    <2>4. RunsCompiled'
      BY <1>1 DEF CacheInv, TypeOK, RunsCompiled, Running
    <2> QED
      BY <2>2, <2>3, <2>4 DEF CompilingHasProgram
  <1>7. OneOwner'
    BY <1>1, <1>4 DEF CacheInv, OneOwner
  <1>8. CachedIsUsable'
    <2> SUFFICES ASSUME NEW k \in Keys, cache'[k] # NULL
                 PROVE  wrapped'[cache'[k]] # NULL
      BY DEF CachedIsUsable
    <2>1. CASE k = key
      BY <1>2, <1>3, <1>4, <2>1
    <2>2. CASE k # key
      <3>1. cache'[k] = cache[k] /\ cache[k] \in Wrappers \ {NewWrapper}
        BY <1>1, <1>4, <2>2 DEF CacheInv, TypeOK
      <3>2. cache[k] # cache[key] /\ wrapped[cache[k]] # NULL
        BY <1>2, <2>2, <3>1, NullAssumption DEF CacheInv, OneOwner, CachedIsUsable
      <3> QED
        BY <1>3, <3>1, <3>2
    <2> QED
      BY <2>1, <2>2
  <1>9. ReturnedIsUsable'
    <2> SUFFICES ASSUME NEW k \in Kernels, compiled[k] # NoKernel, k \notin destroyed
                 PROVE  wrapped'[compiled[k].artifact] # NULL
      BY <1>1 DEF ReturnedIsUsable
    <2>1. compiled[k].artifact \in Wrappers \ {NewWrapper} /\ compiled[k].artifact # cache[key]
      BY <1>1, <1>2, NullAssumption DEF CacheInv, TypeOK, OneOwner
    <2> QED
      BY <1>3, <2>1 DEF CacheInv, ReturnedIsUsable
  <1> QED
    BY <1>5, <1>6, <1>7, <1>8, <1>9 DEF CacheInv

LEMMA CacheInvWrapKernel ==
  ASSUME CacheInv, NEW t \in Threads, WrapKernel(t)
  PROVE  CacheInv'
  <1> DEFINE kernel == [request |-> request[t], artifact |-> program[t]]
  <1>1. /\ pc[t] = "wrap"
        /\ pc' = [pc EXCEPT ![t] = "idle"]
        /\ program' = [program EXCEPT ![t] = NULL]
        /\ request' = [request EXCEPT ![t] = NULL]
        /\ UNCHANGED <<wrapped, cache, destroyed>>
        /\ UNCHANGED <<attribute, target, local, held, code, alive>>
    BY DEF WrapKernel, Goto, runVars
  <1>2. PICK k \in Kernels : compiled[k] = NoKernel /\ compiled' = [compiled EXCEPT ![k] = kernel]
    BY DEF WrapKernel
  <1>3. /\ request[t] \in Requests /\ program[t] \in Wrappers /\ program[t] # NULL
        /\ wrapped[program[t]] # NULL /\ kernel # NoKernel
    BY <1>1, CompiledIsKernel, NullAssumption DEF CacheInv, CompilingHasProgram, Compiling
  <1>4. /\ compiled'[k] = kernel
        /\ \A l \in Kernels \ {k} : compiled'[l] = compiled[l]
        /\ program'[t] = NULL
        /\ \A u \in Threads \ {t} : program'[u] = program[u] /\ request'[u] = request[u]
                                    /\ pc'[u] = pc[u]
    BY <1>1, <1>2 DEF CacheInv, TypeOK
  <1>5. TypeOK'
    BY <1>1, <1>2, <1>3 DEF CacheInv, TypeOK, Labels
  <1>6. CompilingHasProgram'
    BY <1>1, <1>4 DEF CacheInv, TypeOK, CompilingHasProgram, Compiling
  <1>7. RunsCompiled'
    BY <1>1, <1>2, <1>3, <1>4 DEF CacheInv, TypeOK, RunsCompiled, Running
  <1>8. OneOwner'
    BY <1>1, <1>2, <1>3, <1>4 DEF CacheInv, OneOwner
  <1>9. CachedIsUsable' /\ ReturnedIsUsable'
    BY <1>1, <1>3, <1>4 DEF CacheInv, CachedIsUsable, ReturnedIsUsable
  <1> QED
    BY <1>5, <1>6, <1>7, <1>8, <1>9 DEF CacheInv

LEMMA CacheInvFlush ==
  ASSUME CacheInv, Flush
  PROVE  CacheInv'
  <1>1. /\ cache' = [k \in Keys |-> NULL]
        /\ UNCHANGED <<pc, request, program, compiled, destroyed>>
        /\ UNCHANGED <<attribute, target, local, held, code, alive>>
    BY DEF Flush, runVars
  <1>2. /\ wrapped' \in [Wrappers -> Codes \cup {NULL}]
        /\ \A w \in Wrappers : (\E t \in Threads : program[t] = w) => wrapped'[w] = wrapped[w]
        /\ \A w \in Wrappers : (\E k \in Kernels : compiled[k].artifact = w) => wrapped'[w] = wrapped[w]
    BY <1>1 DEF Flush, DropWrappers, UsedWrappers, CacheInv, TypeOK
  <1>3. TypeOK'
    BY <1>1, <1>2 DEF CacheInv, TypeOK
  <1>4. CompilingHasProgram' /\ RunsCompiled'
    BY <1>1, <1>2 DEF CacheInv, CompilingHasProgram, RunsCompiled
  <1>5. OneOwner'
    BY <1>1 DEF CacheInv, OneOwner
  <1>6. CachedIsUsable'
    BY <1>1 DEF CachedIsUsable
  <1>7. ReturnedIsUsable'
    <2> SUFFICES ASSUME NEW k \in Kernels, compiled[k] # NoKernel, k \notin destroyed
                 PROVE  wrapped'[compiled[k].artifact] # NULL
      BY <1>1 DEF ReturnedIsUsable
    <2>1. compiled[k].artifact \in Wrappers
      BY DEF CacheInv, TypeOK
    <2> QED
      BY <1>2, <2>1 DEF CacheInv, ReturnedIsUsable
  <1> QED
    BY <1>3, <1>4, <1>5, <1>6, <1>7 DEF CacheInv

LEMMA CacheInvDestroyArtifact ==
  ASSUME CacheInv, NEW k \in Kernels, DestroyArtifact(k)
  PROVE  CacheInv'
  <1> DEFINE w == compiled[k].artifact
  <1>1. /\ compiled[k] # NoKernel
        /\ wrapped' = [wrapped EXCEPT ![w] = NULL]
        /\ destroyed' = destroyed \cup {k}
        /\ UNCHANGED <<pc, request, program, cache, compiled>>
        /\ UNCHANGED <<attribute, target, local, held, code, alive>>
    BY DEF DestroyArtifact, runVars
  <1>2. w \in Wrappers /\ w # NULL /\ \A v \in Wrappers \ {w} : wrapped'[v] = wrapped[v]
    BY <1>1, NullAssumption DEF CacheInv, TypeOK
  <1>3. TypeOK'
    BY <1>1 DEF CacheInv, TypeOK
  <1>4. CompilingHasProgram' /\ RunsCompiled'
    BY <1>1, <1>2, NullAssumption DEF CacheInv, CompilingHasProgram, RunsCompiled, OneOwner
  <1>5. OneOwner'
    BY <1>1 DEF CacheInv, OneOwner
  <1>6. CachedIsUsable'
    BY <1>1, <1>2, NullAssumption DEF CacheInv, TypeOK, CachedIsUsable, OneOwner
  <1>7. ReturnedIsUsable'
    <2> SUFFICES ASSUME NEW l \in Kernels, compiled[l] # NoKernel, l \notin destroyed, l # k
                 PROVE  wrapped'[compiled[l].artifact] # NULL
      BY <1>1 DEF ReturnedIsUsable
    <2>1. compiled[l].artifact \in Wrappers \ {w}
      BY <1>1 DEF CacheInv, TypeOK, OneOwner
    <2> QED
      BY <1>2, <2>1 DEF CacheInv, ReturnedIsUsable
  <1> QED
    BY <1>3, <1>4, <1>5, <1>6, <1>7 DEF CacheInv

LEMMA CacheInvDestroyRuntime ==
  ASSUME CacheInv, NEW k \in Kernels, DestroyRuntime(k)
  PROVE  CacheInv'
  <1>1. /\ alive' = alive \ {attribute[k]}
        /\ destroyed' = destroyed \cup {k}
        /\ UNCHANGED <<pc, request, program, wrapped, cache, compiled>>
        /\ UNCHANGED <<attribute, target, local, held, code>>
    BY DEF DestroyRuntime, compileVars
  <1>2. TypeOK'
    BY <1>1 DEF CacheInv, TypeOK
  <1>3. CompilingHasProgram' /\ RunsCompiled' /\ OneOwner'
    BY <1>1 DEF CacheInv, CompilingHasProgram, RunsCompiled, OneOwner
  <1>4. CachedIsUsable' /\ ReturnedIsUsable'
    BY <1>1 DEF CacheInv, CachedIsUsable, ReturnedIsUsable
  <1> QED
    BY <1>2, <1>3, <1>4 DEF CacheInv

LEMMA CacheInvNext == CacheInv /\ [Next]_vars => CacheInv'
  <1> SUFFICES ASSUME CacheInv, [Next]_vars PROVE CacheInv'
    OBVIOUS
  <1>1. ASSUME NEW t \in Threads, RunStep(t) PROVE CacheInv'
    BY <1>1, CacheInvRunStep
  <1>2. ASSUME NEW t \in Threads,
               Compile(t) \/ CacheGet(t) \/ CompileProgram(t) \/ CachePut(t) \/ WrapKernel(t)
        PROVE  CacheInv'
    BY <1>2, CacheInvCompile, CacheInvCacheGet, CacheInvCompileProgram, CacheInvCachePut, CacheInvWrapKernel
  <1>3. ASSUME NEW k \in Kernels, DestroyArtifact(k) \/ DestroyRuntime(k) PROVE CacheInv'
    BY <1>3, CacheInvDestroyArtifact, CacheInvDestroyRuntime
  <1>4. CASE Flush
    BY <1>4, CacheInvFlush
  <1>5. CASE UNCHANGED vars
    BY <1>5 DEF vars, compileVars, runVars, CacheInv, TypeOK, CompilingHasProgram, RunsCompiled,
                OneOwner, CachedIsUsable, ReturnedIsUsable
  <1> QED
    BY <1>1, <1>2, <1>3, <1>4, <1>5 DEF Next, RunStep

\* Every wrapper that a thread, the cache or a kernel holds is its own, in every
\* reachable state: copy.copy in _get and _put, for any number of threads.
THEOREM CacheInvariant == Spec => []CacheInv
  <1> QED
    BY CacheInvInit, CacheInvNext, PTL DEF Spec

\* What is in the cache is never destroyed: Artifact.destroy of a returned
\* artifact does not reach the copy that ArtifactCache keeps.
THEOREM CachedStaysUsable == Spec => []CachedIsUsable
  <1>1. CacheInv => CachedIsUsable
    BY DEF CacheInv
  <1> QED
    BY <1>1, CacheInvariant, PTL

\* The artifact of a compiled kernel is usable until its own user destroys it,
\* whatever is put, flushed or destroyed elsewhere.
THEOREM ReturnedStaysUsable == Spec => []ReturnedIsUsable
  <1>1. CacheInv => ReturnedIsUsable
    BY DEF CacheInv
  <1> QED
    BY <1>1, CacheInvariant, PTL

-----------------------------------------------------------------------------
(* Every wrapper holds the code its owner asked for.                       *)

LEMMA CodeInvInit == Init => CodeInv
  BY CodeOfRequest DEF Init, CodeInv, CodeMatchesRequest

\* Steps that leave every wrapper in use as it was, and compile nothing.
LEMMA CodeInvFrame ==
  ASSUME CacheInv, CodeInv,
         UNCHANGED <<program, request, wrapped, cache, compiled>>,
         \A t \in Threads : pc'[t] \in {"put", "wrap"} => pc'[t] = pc[t]
  PROVE  CodeInv'
  BY DEF CodeInv, CodeMatchesRequest

LEMMA CodeInvNewProgram ==
  ASSUME CacheInv, CodeInv, NEW t \in Threads, NEW label, FreeWrappers # {},
         pc' = [pc EXCEPT ![t] = label],
         program' = [program EXCEPT ![t] = NewWrapper],
         wrapped' = [wrapped EXCEPT ![NewWrapper] = CodeFor(request[t])],
         UNCHANGED <<request, cache, compiled>>
  PROVE  CodeInv'
  <1> USE NewWrapperIsFree
  <1>1. /\ program'[t] = NewWrapper /\ wrapped'[NewWrapper] = CodeFor(request[t])
        /\ \A u \in Threads \ {t} : program'[u] = program[u] /\ pc'[u] = pc[u]
        /\ \A w \in Wrappers \ {NewWrapper} : wrapped'[w] = wrapped[w]
    BY DEF CacheInv, TypeOK
  <1>2. \A u \in Threads : pc'[u] \in {"put", "wrap"} => wrapped'[program'[u]] = CodeFor(request'[u])
    BY <1>1 DEF CacheInv, CompilingHasProgram, CodeInv
  <1>3. ASSUME NEW r \in Requests, cache'[CacheKey(r)] # NULL
        PROVE  wrapped'[cache'[CacheKey(r)]] = CodeFor(r)
    <2>1. cache[CacheKey(r)] \in Wrappers \ {NewWrapper}
      BY <1>3, CodeOfRequest DEF CacheInv, TypeOK
    <2> QED
      BY <1>1, <1>3, <2>1 DEF CodeInv
  <1>4. CodeMatchesRequest'
    <2> SUFFICES ASSUME NEW k \in Kernels, compiled[k] # NoKernel
                 PROVE  wrapped'[compiled[k].artifact] \in {NULL, CodeFor(compiled[k].request)}
      BY DEF CodeMatchesRequest
    <2>1. compiled[k].artifact \in Wrappers \ {NewWrapper}
      BY DEF CacheInv, TypeOK
    <2> QED
      BY <1>1, <2>1 DEF CodeInv, CodeMatchesRequest
  <1> QED
    BY <1>2, <1>3, <1>4 DEF CodeInv

LEMMA CodeInvCompile ==
  ASSUME CacheInv, CodeInv, NEW t \in Threads, Compile(t)
  PROVE  CodeInv'
  <1>1. PICK r \in Requests : request' = [request EXCEPT ![t] = r]
    BY DEF Compile
  <1>2. pc' = [pc EXCEPT ![t] = "get"] /\ UNCHANGED <<program, wrapped, cache, compiled>>
    BY DEF Compile, Goto
  <1>3. \A u \in Threads : pc'[u] \in {"put", "wrap"} => pc'[u] = pc[u] /\ request'[u] = request[u]
    BY <1>1, <1>2 DEF CacheInv, TypeOK
  <1> QED
    BY <1>2, <1>3 DEF CodeInv, CodeMatchesRequest

LEMMA CodeInvCacheGet ==
  ASSUME CacheInv, CodeInv, NEW t \in Threads, CacheGet(t)
  PROVE  CodeInv'
  <1>1. pc[t] = "get" /\ UNCHANGED <<request, cache, compiled>>
    BY DEF CacheGet
  <1>2. request[t] \in Requests
    BY <1>1 DEF CacheInv, CompilingHasProgram, Compiling
  <1>3. CASE cache[CacheKey(request[t])] = NULL
    <2>1. pc' = [pc EXCEPT ![t] = "compile"] /\ UNCHANGED <<program, wrapped>>
      BY <1>3 DEF CacheGet, Goto
    <2>2. \A u \in Threads : pc'[u] \in {"put", "wrap"} => pc'[u] = pc[u]
      BY <2>1 DEF CacheInv, TypeOK
    <2> QED
      BY <1>1, <2>1, <2>2, CodeInvFrame
  <1>4. CASE cache[CacheKey(request[t])] # NULL
    <2>1. /\ FreeWrappers # {}
          /\ pc' = [pc EXCEPT ![t] = "wrap"]
          /\ program' = [program EXCEPT ![t] = NewWrapper]
          /\ wrapped' = [wrapped EXCEPT ![NewWrapper] = wrapped[cache[CacheKey(request[t])]]]
      BY <1>4 DEF CacheGet, Goto
    <2>2. wrapped[cache[CacheKey(request[t])]] = CodeFor(request[t])
      BY <1>2, <1>4 DEF CodeInv
    <2> QED
      BY <1>1, <2>1, <2>2, CodeInvNewProgram
  <1> QED
    BY <1>3, <1>4

LEMMA CodeInvCompileProgram ==
  ASSUME CacheInv, CodeInv, NEW t \in Threads, CompileProgram(t)
  PROVE  CodeInv'
  <1>1. UNCHANGED <<cache, compiled>>
    BY DEF CompileProgram
  <1>2. CASE /\ FreeWrappers # {}
             /\ program' = [program EXCEPT ![t] = NewWrapper]
             /\ wrapped' = [wrapped EXCEPT ![NewWrapper] = CodeFor(request[t])]
             /\ Goto(t, "put")
             /\ UNCHANGED request
    BY <1>1, <1>2, CodeInvNewProgram DEF Goto
  <1>3. CASE /\ Goto(t, "idle")
             /\ request' = [request EXCEPT ![t] = NULL]
             /\ UNCHANGED <<program, wrapped>>
    <2>1. \A u \in Threads : pc'[u] \in {"put", "wrap"} => pc'[u] = pc[u] /\ request'[u] = request[u]
      BY <1>3 DEF CacheInv, TypeOK, Goto
    <2> QED
      BY <1>1, <1>3, <2>1 DEF CodeInv, CodeMatchesRequest
  <1> QED
    BY <1>2, <1>3 DEF CompileProgram

\* Only here must the key tell what compiles differently: the entry that a
\* thread puts serves every request with that key.
LEMMA CodeInvCachePut ==
  ASSUME KeysTellCode, CacheInv, CodeInv, NEW t \in Threads, CachePut(t)
  PROVE  CodeInv'
  <1> DEFINE key == CacheKey(request[t])
  <1> USE NewWrapperIsFree
  <1>1. /\ pc[t] = "put" /\ FreeWrappers # {}
        /\ pc' = [pc EXCEPT ![t] = "wrap"]
        /\ cache' = [cache EXCEPT ![key] = NewWrapper]
        /\ UNCHANGED <<request, program, compiled>>
    BY DEF CachePut, Goto
  <1>2. /\ request[t] \in Requests /\ key \in Keys
        /\ wrapped[program[t]] = CodeFor(request[t])
    BY <1>1, CodeOfRequest DEF CacheInv, CompilingHasProgram, CodeInv, Compiling
  <1>3. /\ wrapped'[NewWrapper] = wrapped[program[t]]
        /\ \A w \in Wrappers \ {NewWrapper} : w # cache[key] => wrapped'[w] = wrapped[w]
    BY <1>1, <1>2 DEF CachePut
  <1>4. /\ cache'[key] = NewWrapper
        /\ \A k \in Keys \ {key} : cache'[k] = cache[k]
    BY <1>1, <1>2 DEF CacheInv, TypeOK
  <1>5. ASSUME NEW u \in Threads, pc'[u] \in {"put", "wrap"}
        PROVE  wrapped'[program'[u]] = CodeFor(request'[u])
    <2>1. pc[u] \in {"put", "wrap"}
      BY <1>1, <1>5 DEF CacheInv, TypeOK
    <2>2. program[u] \in Wrappers /\ wrapped[program[u]] = CodeFor(request[u])
      BY <2>1 DEF CacheInv, CompilingHasProgram, CodeInv
    <2>3. program[u] # NewWrapper /\ program[u] # cache[key]
      BY <1>1, <1>2, <2>2, NullAssumption DEF CacheInv, OneOwner
    <2> QED
      BY <1>1, <1>3, <2>2, <2>3
  <1>6. ASSUME NEW r \in Requests, cache'[CacheKey(r)] # NULL
        PROVE  wrapped'[cache'[CacheKey(r)]] = CodeFor(r)
    <2>1. CASE CacheKey(r) = key
      BY <1>2, <1>3, <1>4, <2>1 DEF KeysTellCode
    <2>2. CASE CacheKey(r) # key
      <3>1. CacheKey(r) \in Keys
        BY CodeOfRequest
      <3>2. cache'[CacheKey(r)] = cache[CacheKey(r)] /\ cache[CacheKey(r)] \in Wrappers \ {NewWrapper}
        BY <1>1, <1>4, <1>6, <2>2, <3>1 DEF CacheInv, TypeOK
      <3>3. cache[CacheKey(r)] # cache[key] /\ wrapped[cache[CacheKey(r)]] = CodeFor(r)
        BY <1>2, <1>6, <2>2, <3>1, <3>2 DEF CacheInv, OneOwner, CodeInv
      <3> QED
        BY <1>3, <3>2, <3>3
    <2> QED
      BY <2>1, <2>2
  <1>7. CodeMatchesRequest'
    <2> SUFFICES ASSUME NEW k \in Kernels, compiled[k] # NoKernel
                 PROVE  wrapped'[compiled[k].artifact] \in {NULL, CodeFor(compiled[k].request)}
      BY <1>1 DEF CodeMatchesRequest
    <2>1. compiled[k].artifact \in Wrappers \ {NewWrapper} /\ compiled[k].artifact # cache[key]
      BY <1>1, <1>2, NullAssumption DEF CacheInv, TypeOK, OneOwner
    <2> QED
      BY <1>3, <2>1 DEF CodeInv, CodeMatchesRequest
  <1> QED
    BY <1>5, <1>6, <1>7 DEF CodeInv

LEMMA CodeInvWrapKernel ==
  ASSUME CacheInv, CodeInv, NEW t \in Threads, WrapKernel(t)
  PROVE  CodeInv'
  <1> DEFINE kernel == [request |-> request[t], artifact |-> program[t]]
  <1>1. /\ pc[t] = "wrap"
        /\ pc' = [pc EXCEPT ![t] = "idle"]
        /\ program' = [program EXCEPT ![t] = NULL]
        /\ request' = [request EXCEPT ![t] = NULL]
        /\ UNCHANGED <<wrapped, cache>>
    BY DEF WrapKernel, Goto
  <1>2. PICK k \in Kernels : compiled' = [compiled EXCEPT ![k] = kernel]
    BY DEF WrapKernel
  <1>3. \A l \in Kernels : compiled'[l] = IF l = k THEN kernel ELSE compiled[l]
    BY <1>2 DEF CacheInv, TypeOK
  <1>4. \A u \in Threads : pc'[u] \in {"put", "wrap"} =>
          pc'[u] = pc[u] /\ program'[u] = program[u] /\ request'[u] = request[u]
    BY <1>1 DEF CacheInv, TypeOK
  <1>5. wrapped[program[t]] = CodeFor(request[t])
    BY <1>1 DEF CodeInv
  <1>6. CodeMatchesRequest'
    BY <1>1, <1>3, <1>5 DEF CodeInv, CodeMatchesRequest
  <1> QED
    BY <1>1, <1>4, <1>6 DEF CodeInv

LEMMA CodeInvFlush ==
  ASSUME CacheInv, CodeInv, Flush
  PROVE  CodeInv'
  <1>1. cache' = [k \in Keys |-> NULL] /\ UNCHANGED <<pc, request, program, compiled>>
    BY DEF Flush
  <1>2. /\ \A w \in Wrappers : (\E t \in Threads : program[t] = w) => wrapped'[w] = wrapped[w]
        /\ \A w \in Wrappers : (\E k \in Kernels : compiled[k].artifact = w) => wrapped'[w] = wrapped[w]
    BY <1>1 DEF Flush, DropWrappers, UsedWrappers
  <1>3. \A t \in Threads : pc[t] \in {"put", "wrap"} => wrapped'[program[t]] = CodeFor(request[t])
    BY <1>2 DEF CacheInv, CompilingHasProgram, CodeInv
  <1>4. \A r \in Requests : cache'[CacheKey(r)] = NULL
    BY <1>1, CodeOfRequest
  <1>5. CodeMatchesRequest'
    <2> SUFFICES ASSUME NEW k \in Kernels, compiled[k] # NoKernel
                 PROVE  wrapped'[compiled[k].artifact] \in {NULL, CodeFor(compiled[k].request)}
      BY <1>1 DEF CodeMatchesRequest
    <2>1. compiled[k].artifact \in Wrappers
      BY DEF CacheInv, TypeOK
    <2> QED
      BY <1>2, <2>1 DEF CodeInv, CodeMatchesRequest
  <1> QED
    BY <1>1, <1>3, <1>4, <1>5 DEF CodeInv

LEMMA CodeInvDestroyArtifact ==
  ASSUME CacheInv, CodeInv, NEW k \in Kernels, DestroyArtifact(k)
  PROVE  CodeInv'
  <1> DEFINE w == compiled[k].artifact
  <1>1. /\ compiled[k] # NoKernel
        /\ wrapped' = [wrapped EXCEPT ![w] = NULL]
        /\ UNCHANGED <<pc, request, program, cache, compiled>>
    BY DEF DestroyArtifact
  <1>2. w \in Wrappers /\ wrapped'[w] = NULL /\ \A v \in Wrappers \ {w} : wrapped'[v] = wrapped[v]
    BY <1>1 DEF CacheInv, TypeOK
  <1>3. \A t \in Threads : pc[t] \in {"put", "wrap"} => wrapped'[program[t]] = CodeFor(request[t])
    BY <1>1, <1>2, NullAssumption DEF CacheInv, CompilingHasProgram, OneOwner, CodeInv
  <1>4. ASSUME NEW r \in Requests, cache[CacheKey(r)] # NULL
        PROVE  wrapped'[cache[CacheKey(r)]] = CodeFor(r)
    <2>1. CacheKey(r) \in Keys
      BY CodeOfRequest
    <2>2. cache[CacheKey(r)] \in Wrappers \ {w}
      BY <1>4, <2>1 DEF CacheInv, TypeOK, OneOwner
    <2> QED
      BY <1>2, <1>4, <2>2 DEF CodeInv
  <1>5. CodeMatchesRequest'
    <2> SUFFICES ASSUME NEW l \in Kernels, compiled[l] # NoKernel
                 PROVE  wrapped'[compiled[l].artifact] \in {NULL, CodeFor(compiled[l].request)}
      BY <1>1 DEF CodeMatchesRequest
    <2>1. compiled[l].artifact \in Wrappers
      BY DEF CacheInv, TypeOK
    <2> QED
      BY <1>2, <2>1 DEF CodeInv, CodeMatchesRequest
  <1> QED
    BY <1>1, <1>3, <1>4, <1>5 DEF CodeInv

LEMMA CodeInvNext == KeysTellCode /\ CacheInv /\ CodeInv /\ [Next]_vars => CodeInv'
  <1> SUFFICES ASSUME KeysTellCode, CacheInv, CodeInv, [Next]_vars PROVE CodeInv'
    OBVIOUS
  <1>1. ASSUME NEW t \in Threads, RunStep(t) PROVE CodeInv'
    <2>1. UNCHANGED <<program, request, wrapped, cache, compiled>>
      BY <1>1, RunStepFrame DEF compileVars
    <2>2. \A u \in Threads : pc'[u] \in {"put", "wrap"} => pc'[u] = pc[u]
      BY <1>1, RunStepFrame DEF CacheInv, TypeOK, Compiling
    <2> QED
      BY <2>1, <2>2, CodeInvFrame
  <1>2. ASSUME NEW t \in Threads,
               Compile(t) \/ CacheGet(t) \/ CompileProgram(t) \/ CachePut(t) \/ WrapKernel(t)
        PROVE  CodeInv'
    BY <1>2, CodeInvCompile, CodeInvCacheGet, CodeInvCompileProgram, CodeInvCachePut, CodeInvWrapKernel
  <1>3. ASSUME NEW k \in Kernels, DestroyArtifact(k) PROVE CodeInv'
    BY <1>3, CodeInvDestroyArtifact
  <1>4. ASSUME NEW k \in Kernels, DestroyRuntime(k) PROVE CodeInv'
    BY <1>4, CodeInvFrame DEF DestroyRuntime, compileVars
  <1>5. CASE Flush
    BY <1>5, CodeInvFlush
  <1>6. CASE UNCHANGED vars
    BY <1>6, CodeInvFrame DEF vars, compileVars
  <1> QED
    BY <1>1, <1>2, <1>3, <1>4, <1>5, <1>6 DEF Next, RunStep

\* When equal keys mean equal code, every artifact object holds the code its owner
\* asked for.
THEOREM CodeInvariant ==
  ASSUME KeysTellCode
  PROVE  Spec => []CodeInv
  <1>1. Init => CodeInv
    BY CodeInvInit
  <1>2. CacheInv /\ CodeInv /\ [Next]_vars => CodeInv'
    BY CodeInvNext
  <1> QED
    BY <1>1, <1>2, CacheInvariant, PTL DEF Spec

\* Without the debug option that loads bytecode from a file, the key of
\* calculateCacheKey determines the code.
LEMMA NoOverridesKeysTellCode ==
  ASSUME \A r \in Requests : r.loadPath = NULL
  PROVE  KeysTellCode
  BY DEF KeysTellCode, CacheKey, CodeFor

\* A kernel runs the code of what its thread asked to compile, whatever other
\* threads compile, put, flush and destroy meanwhile: unless a request loads its
\* bytecode from a file, which the key leaves out.
THEOREM KernelsRunTheirCode ==
  ASSUME \A r \in Requests : r.loadPath = NULL
  PROVE  Spec => []CodeMatchesRequest
  <1>1. Spec => []CodeInv
    BY NoOverridesKeysTellCode, CodeInvariant
  <1>2. CodeInv => CodeMatchesRequest
    BY DEF CodeInv
  <1> QED
    BY <1>1, <1>2, PTL

-----------------------------------------------------------------------------
(* A run keeps the runtime kernel of its compiled kernel.                  *)

LEMMA RunInvInit == Init => RunInv
  BY DEF Init, RunInv, Running

\* Steps that touch no runtime kernel, run nothing, and compile only kernels that
\* were not compiled.
LEMMA RunInvFrame ==
  ASSUME CacheInv, RunInv,
         UNCHANGED <<attribute, target, local, held, code>>,
         \A k \in Kernels : compiled[k] # NoKernel => compiled'[k] = compiled[k],
         \A t \in Threads : pc[t] \in Running \/ pc'[t] \in Running => pc'[t] = pc[t]
  PROVE  RunInv'
  <1>1. \A k \in Kernels : attribute[k] # NULL =>
          compiled'[k] # NoKernel /\ code[attribute[k]] = CodeFor(compiled'[k].request)
    BY DEF RunInv
  <1>2. \A t \in Threads : local[t] # NULL =>
          pc'[t] \in Running /\ code[local[t]] = CodeFor(compiled'[target[t]].request)
    BY DEF RunInv, CacheInv, RunsCompiled
  <1>3. \A t \in Threads : pc'[t] \in {"workspace", "launch"} => pc'[t] = pc[t]
    BY DEF Running
  <1> QED
    BY <1>1, <1>2, <1>3 DEF RunInv

LEMMA RunInvCompileStep ==
  ASSUME CacheInv, RunInv, NEW t \in Threads,
         Compile(t) \/ CacheGet(t) \/ CompileProgram(t) \/ CachePut(t) \/ WrapKernel(t)
  PROVE  RunInv'
  <1>1. UNCHANGED <<attribute, target, local, held, code>>
    BY DEF Compile, CacheGet, CompileProgram, CachePut, WrapKernel, runVars
  <1>2. pc[t] \notin Running
    BY DEF Compile, CacheGet, CompileProgram, CachePut, WrapKernel, Running
  <1>3. \E label \in Labels \ Running : pc' = [pc EXCEPT ![t] = label]
    BY DEF Compile, CacheGet, CompileProgram, CachePut, WrapKernel, Goto, Labels, Running
  <1>4. \A u \in Threads : pc[u] \in Running \/ pc'[u] \in Running => pc'[u] = pc[u]
    BY <1>2, <1>3 DEF CacheInv, TypeOK
  <1>5. ASSUME NEW k \in Kernels, compiled[k] # NoKernel
        PROVE  compiled'[k] = compiled[k]
    <2>1. CASE WrapKernel(t)
      <3>1. PICK l \in Kernels :
              /\ compiled[l] = NoKernel
              /\ compiled' = [compiled EXCEPT ![l] = [request |-> request[t], artifact |-> program[t]]]
        BY <2>1 DEF WrapKernel
      <3> QED
        BY <1>5, <3>1 DEF CacheInv, TypeOK
    <2>2. CASE ~WrapKernel(t)
      BY <2>2 DEF Compile, CacheGet, CompileProgram, CachePut
    <2> QED
      BY <2>1, <2>2
  <1> QED
    BY <1>1, <1>4, <1>5, RunInvFrame

LEMMA DropRuntimesKeepsCode ==
  ASSUME DropRuntimes, NEW r \in UsedRuntimes'
  PROVE  code'[r] = code[r]
  BY DEF DropRuntimes, UsedRuntimes

\* The runtime kernels that kernels and threads refer to are used.
LEMMA ReferredIsUsed ==
  ASSUME TypeOK
  PROVE  /\ \A k \in Kernels : attribute[k] # NULL => attribute[k] \in UsedRuntimes
         /\ \A t \in Threads : local[t] # NULL => local[t] \in UsedRuntimes
  BY DEF TypeOK, UsedRuntimes

LEMMA RunInvEndRun ==
  ASSUME CacheInv, RunInv, CacheInv', NEW t \in Threads, NEW error, EndRun(t, error),
         UNCHANGED compileVars
  PROVE  RunInv'
  <1>1. /\ pc' = [pc EXCEPT ![t] = "idle"]
        /\ local' = [local EXCEPT ![t] = NULL]
        /\ held' = [held EXCEPT ![t] = NULL]
        /\ target' = [target EXCEPT ![t] = NULL]
        /\ UNCHANGED <<attribute, compiled>>
    BY DEF EndRun, Goto, compileVars
  <1>2. /\ pc'[t] = "idle" /\ local'[t] = NULL
        /\ \A u \in Threads \ {t} : /\ pc'[u] = pc[u] /\ local'[u] = local[u]
                                    /\ held'[u] = held[u] /\ target'[u] = target[u]
    BY <1>1 DEF CacheInv, TypeOK
  <1>3. TypeOK' /\ \A r \in UsedRuntimes' : code'[r] = code[r]
    BY DropRuntimesKeepsCode DEF EndRun, CacheInv
  <1>4. \A k \in Kernels : attribute'[k] # NULL =>
          compiled'[k] # NoKernel /\ code'[attribute'[k]] = CodeFor(compiled'[k].request)
    <2>1. \A k \in Kernels : attribute'[k] # NULL => attribute'[k] \in UsedRuntimes'
      BY <1>3 DEF TypeOK, UsedRuntimes
    <2> QED
      BY <1>1, <1>3, <2>1 DEF RunInv
  <1>5. \A u \in Threads : local'[u] # NULL =>
          pc'[u] \in Running /\ code'[local'[u]] = CodeFor(compiled'[target'[u]].request)
    <2>1. \A u \in Threads : local'[u] # NULL => local'[u] \in UsedRuntimes'
      BY <1>3 DEF TypeOK, UsedRuntimes
    <2> QED
      BY <1>1, <1>2, <1>3, <2>1 DEF RunInv
  <1>6. \A u \in Threads : pc'[u] \in {"workspace", "launch"} => local'[u] # NULL /\ held'[u] = local'[u]
    BY <1>2 DEF RunInv
  <1> QED
    BY <1>4, <1>5, <1>6 DEF RunInv

\* The runtime kernel a load makes is nobody's yet, so loading it changes the code
\* of no other.
LEMMA RunInvLoad ==
  ASSUME CacheInv, CodeInv, RunInv, CacheInv', NEW t \in Threads, Load(t)
  PROVE  RunInv'
  <1>1. pc[t] = "load" /\ UNCHANGED compileVars /\ UNCHANGED compiled
    BY LoadCases DEF compileVars
  <1>2. CASE \E error : EndRun(t, error)
    BY <1>1, <1>2, RunInvEndRun
  <1>3. CASE ~ \E error : EndRun(t, error)
    <2> DEFINE native == wrapped[compiled[target[t]].artifact]
    <2>1. PICK new \in Runtimes \ UsedRuntimes :
            /\ code' = [code EXCEPT ![new] = native]
            /\ local' = [local EXCEPT ![t] = new]
      BY <1>3, LoadCases
    <2>2. /\ native # NULL
          /\ pc' = [pc EXCEPT ![t] = "store"]
          /\ UNCHANGED <<attribute, target, held>>
      BY <1>3, LoadCases DEF Goto
    <2>3. target[t] \in Kernels /\ native = CodeFor(compiled[target[t]].request)
      BY <1>1, <2>2 DEF CacheInv, RunsCompiled, Running, CodeInv, CodeMatchesRequest
    <2>4. /\ local'[t] = new /\ pc'[t] = "store" /\ code'[new] = native
          /\ \A u \in Threads \ {t} : pc'[u] = pc[u] /\ local'[u] = local[u]
          /\ \A r \in Runtimes \ {new} : code'[r] = code[r]
      BY <2>1, <2>2 DEF CacheInv, TypeOK
    <2>5. /\ \A k \in Kernels : attribute[k] # NULL => attribute[k] \in Runtimes \ {new}
          /\ \A u \in Threads : local[u] # NULL => local[u] \in Runtimes \ {new}
      BY <2>1 DEF UsedRuntimes, CacheInv, TypeOK
    <2>6. \A k \in Kernels : attribute'[k] # NULL =>
            compiled'[k] # NoKernel /\ code'[attribute'[k]] = CodeFor(compiled'[k].request)
      BY <1>1, <2>2, <2>4, <2>5 DEF RunInv
    <2>7. \A u \in Threads : local'[u] # NULL =>
            pc'[u] \in Running /\ code'[local'[u]] = CodeFor(compiled'[target'[u]].request)
      BY <1>1, <2>2, <2>3, <2>4, <2>5 DEF RunInv, Running
    <2>8. \A u \in Threads : pc'[u] \in {"workspace", "launch"} =>
            local'[u] # NULL /\ held'[u] = local'[u]
      BY <2>2, <2>4 DEF RunInv
    <2> QED
      BY <2>6, <2>7, <2>8 DEF RunInv
  <1> QED
    BY <1>2, <1>3

LEMMA RunInvStoreRuntime ==
  ASSUME CacheInv, RunInv, CacheInv', NEW t \in Threads, StoreRuntime(t)
  PROVE  RunInv'
  <1> DEFINE k == target[t]
  <1>1. /\ pc[t] = "store" /\ pc' = [pc EXCEPT ![t] = "fetch"]
        /\ attribute' = [attribute EXCEPT ![k] = local[t]]
        /\ local' = [local EXCEPT ![t] = NULL]
        /\ UNCHANGED <<compiled, target, held>>
    BY DEF StoreRuntime, Goto, compileVars
  <1>2. k \in Kernels /\ compiled[k] # NoKernel
    BY <1>1 DEF CacheInv, RunsCompiled, Running
  <1>3. /\ attribute'[k] = local[t] /\ \A l \in Kernels \ {k} : attribute'[l] = attribute[l]
        /\ pc'[t] = "fetch" /\ local'[t] = NULL
        /\ \A u \in Threads \ {t} : pc'[u] = pc[u] /\ local'[u] = local[u]
    BY <1>1, <1>2 DEF CacheInv, TypeOK
  <1>4. TypeOK' /\ \A r \in UsedRuntimes' : code'[r] = code[r]
    BY DropRuntimesKeepsCode DEF StoreRuntime, CacheInv
  <1>5. /\ \A l \in Kernels : attribute'[l] # NULL => code'[attribute'[l]] = code[attribute'[l]]
        /\ \A u \in Threads : local'[u] # NULL => code'[local'[u]] = code[local'[u]]
    BY <1>4 DEF TypeOK, UsedRuntimes
  <1>6. ASSUME NEW l \in Kernels, attribute'[l] # NULL
        PROVE  compiled'[l] # NoKernel /\ code'[attribute'[l]] = CodeFor(compiled'[l].request)
    BY <1>1, <1>2, <1>3, <1>5, <1>6 DEF RunInv
  <1>7. ASSUME NEW u \in Threads, local'[u] # NULL
        PROVE  pc'[u] \in Running /\ code'[local'[u]] = CodeFor(compiled'[target'[u]].request)
    BY <1>1, <1>3, <1>5, <1>7 DEF RunInv
  <1>8. \A u \in Threads : pc'[u] \in {"workspace", "launch"} => local'[u] # NULL /\ held'[u] = local'[u]
    BY <1>1, <1>3 DEF RunInv
  <1> QED
    BY <1>6, <1>7, <1>8 DEF RunInv

LEMMA RunInvFetchRuntime ==
  ASSUME CacheInv, RunInv, NEW t \in Threads, FetchRuntime(t)
  PROVE  RunInv'
  <1> DEFINE k == target[t]
  <1>1. /\ pc[t] = "fetch" /\ pc' = [pc EXCEPT ![t] = "require"]
        /\ local' = [local EXCEPT ![t] = attribute[k]]
        /\ UNCHANGED <<compiled, attribute, target, held, code>>
    BY DEF FetchRuntime, Goto, compileVars
  <1>2. k \in Kernels
    BY <1>1 DEF CacheInv, RunsCompiled, Running
  <1>3. /\ pc'[t] = "require" /\ local'[t] = attribute[k]
        /\ \A u \in Threads \ {t} : pc'[u] = pc[u] /\ local'[u] = local[u]
    BY <1>1 DEF CacheInv, TypeOK
  <1>4. \A u \in Threads : local'[u] # NULL =>
          pc'[u] \in Running /\ code[local'[u]] = CodeFor(compiled[target[u]].request)
    BY <1>2, <1>3 DEF RunInv, Running
  <1>5. \A u \in Threads : pc'[u] \in {"workspace", "launch"} => local'[u] # NULL /\ held'[u] = local'[u]
    BY <1>1, <1>3 DEF RunInv
  <1> QED
    BY <1>1, <1>4, <1>5 DEF RunInv

\* _require_native keeps a reference, so that the launch and what follows it see
\* one and the same kernel.
LEMMA RunInvRequireNative ==
  ASSUME CacheInv, RunInv, CacheInv', NEW t \in Threads, RequireNative(t)
  PROVE  RunInv'
  <1>1. pc[t] = "require" /\ UNCHANGED compileVars /\ UNCHANGED compiled
    BY DEF RequireNative, compileVars
  <1>2. CASE local[t] \notin alive
    <2>1. EndRun(t, "destroyed")
      BY <1>2 DEF RequireNative
    <2> QED
      BY <1>1, <2>1, RunInvEndRun
  <1>3. CASE local[t] \in alive
    <2>1. /\ held' = [held EXCEPT ![t] = local[t]]
          /\ pc' = [pc EXCEPT ![t] = "workspace"]
          /\ UNCHANGED <<attribute, target, local, code>>
      BY <1>3 DEF RequireNative, Goto, runVarsButHeld
    <2>2. local[t] # NULL
      BY <1>3, NullAssumption DEF CacheInv, TypeOK
    <2>3. /\ pc'[t] = "workspace" /\ held'[t] = local[t]
          /\ \A u \in Threads \ {t} : pc'[u] = pc[u] /\ held'[u] = held[u]
      BY <2>1 DEF CacheInv, TypeOK
    <2>4. \A u \in Threads : local[u] # NULL => pc'[u] \in Running
      BY <2>3 DEF RunInv, Running
    <2>5. \A u \in Threads : pc'[u] \in {"workspace", "launch"} => local[u] # NULL /\ held'[u] = local[u]
      BY <2>2, <2>3 DEF RunInv
    <2> QED
      BY <1>1, <2>1, <2>4, <2>5 DEF RunInv
  <1> QED
    BY <1>2, <1>3

LEMMA RunInvRunStep ==
  ASSUME CacheInv, CodeInv, RunInv, CacheInv', NEW t \in Threads, RunStep(t)
  PROVE  RunInv'
  <1>1. UNCHANGED compileVars /\ UNCHANGED compiled
    BY RunStepFrame DEF compileVars
  <1>2. CASE Run(t)
    <2>1. UNCHANGED <<attribute, local, held, code>>
      BY <1>2 DEF Run
    <2>2. PICK label \in {"fetch", "load"} : pc[t] = "idle" /\ pc' = [pc EXCEPT ![t] = label]
      BY <1>2 DEF Run, Goto
    <2>3. PICK k \in Kernels : target' = [target EXCEPT ![t] = k]
      BY <1>2 DEF Run
    <2>4. local[t] = NULL
      BY <2>2 DEF RunInv, Running
    <2>5. /\ pc'[t] \in {"fetch", "load"}
          /\ \A u \in Threads \ {t} : pc'[u] = pc[u] /\ target'[u] = target[u]
      BY <2>2, <2>3 DEF CacheInv, TypeOK
    <2> QED
      BY <1>1, <2>1, <2>4, <2>5 DEF RunInv
  <1>3. CASE \E error : EndRun(t, error)
    BY <1>1, <1>3, RunInvEndRun
  <1>4. CASE QueryWorkspace(t) /\ ~ \E error : EndRun(t, error)
    <2>1. /\ pc[t] = "workspace" /\ pc' = [pc EXCEPT ![t] = "launch"]
          /\ UNCHANGED <<attribute, target, local, held, code>>
      BY <1>4 DEF QueryWorkspace, Goto, runVars
    <2>2. pc'[t] = "launch" /\ \A u \in Threads \ {t} : pc'[u] = pc[u]
      BY <2>1 DEF CacheInv, TypeOK
    <2>3. \A u \in Threads : pc[u] \in Running => pc'[u] \in Running
      BY <2>2 DEF Running
    <2>4. \A u \in Threads : pc'[u] \in {"workspace", "launch"} => pc[u] \in {"workspace", "launch"}
      BY <2>1, <2>2
    <2> QED
      BY <1>1, <2>1, <2>3, <2>4 DEF RunInv
  <1>5. CASE NativeLaunch(t)
    <2>1. \E error : EndRun(t, error)
      BY <1>5 DEF NativeLaunch
    <2> QED
      BY <1>3, <2>1
  <1> QED
    BY <1>2, <1>3, <1>4, <1>5, RunInvLoad, RunInvStoreRuntime, RunInvFetchRuntime, RunInvRequireNative
    DEF RunStep

LEMMA RunInvNext == CacheInv /\ CodeInv /\ RunInv /\ CacheInv' /\ [Next]_vars => RunInv'
  <1> SUFFICES ASSUME CacheInv, CodeInv, RunInv, CacheInv', [Next]_vars PROVE RunInv'
    OBVIOUS
  <1>1. ASSUME NEW t \in Threads, RunStep(t) PROVE RunInv'
    BY <1>1, RunInvRunStep
  <1>2. ASSUME NEW t \in Threads,
               Compile(t) \/ CacheGet(t) \/ CompileProgram(t) \/ CachePut(t) \/ WrapKernel(t)
        PROVE  RunInv'
    BY <1>2, RunInvCompileStep
  <1>3. ASSUME NEW k \in Kernels, DestroyArtifact(k) \/ DestroyRuntime(k) PROVE RunInv'
    BY <1>3, RunInvFrame DEF DestroyArtifact, DestroyRuntime, compileVars, runVars
  <1>4. CASE Flush
    BY <1>4, RunInvFrame DEF Flush, runVars
  <1>5. CASE UNCHANGED vars
    BY <1>5, RunInvFrame DEF vars, compileVars, runVars
  <1> QED
    BY <1>1, <1>2, <1>3, <1>4, <1>5 DEF Next, RunStep

\* A thread in the native launch holds the kernel it launches, and that is one of
\* its own compiled kernel's code, for any number of threads that load, replace
\* and destroy runtime kernels at the same time.
THEOREM LaunchesOwnKernel ==
  ASSUME \A r \in Requests : r.loadPath = NULL
  PROVE  Spec => []LaunchUsesOwnKernel
  <1>1. Spec => []CodeInv
    BY NoOverridesKeysTellCode, CodeInvariant
  <1>2. Init => RunInv
    BY RunInvInit
  <1>3. CacheInv /\ CodeInv /\ RunInv /\ CacheInv' /\ [Next]_vars => RunInv'
    BY RunInvNext
  <1>4. RunInv => LaunchUsesOwnKernel
    BY DEF RunInv, LaunchUsesOwnKernel, Loaded
  <1> QED
    BY <1>1, <1>2, <1>3, <1>4, CacheInvariant, PTL DEF Spec

-----------------------------------------------------------------------------
(* Only its user makes a kernel unusable.                                  *)

LEMMA AliveInvInit == Init => AliveInv
  BY DEF Init, AliveInv, OneKernel, Errors

\* Steps that touch no runtime kernel and run nothing.
LEMMA AliveInvFrame ==
  ASSUME AliveInv, UNCHANGED <<attribute, target, local, alive, raised>>, destroyed \subseteq destroyed',
         \A t \in Threads : pc[t] \in Running \/ pc'[t] \in Running => pc'[t] = pc[t]
  PROVE  AliveInv'
  <1>1. OneKernel'
    BY DEF AliveInv, OneKernel
  <1>2. \A t \in Threads : pc'[t] \in {"fetch", "store", "require", "workspace"} => pc'[t] = pc[t]
    BY DEF Running
  <1> QED
    BY <1>1, <1>2 DEF AliveInv

LEMMA AliveInvCompileStep ==
  ASSUME CacheInv, AliveInv, NEW t \in Threads,
         Compile(t) \/ CacheGet(t) \/ CompileProgram(t) \/ CachePut(t) \/ WrapKernel(t)
  PROVE  AliveInv'
  <1>1. UNCHANGED <<attribute, target, local, alive, raised>> /\ UNCHANGED destroyed
    BY DEF Compile, CacheGet, CompileProgram, CachePut, WrapKernel, runVars
  <1>2. pc[t] \notin Running
    BY DEF Compile, CacheGet, CompileProgram, CachePut, WrapKernel, Running
  <1>3. \E label \in Labels \ Running : pc' = [pc EXCEPT ![t] = label]
    BY DEF Compile, CacheGet, CompileProgram, CachePut, WrapKernel, Goto, Labels, Running
  <1>4. \A u \in Threads : pc[u] \in Running \/ pc'[u] \in Running => pc'[u] = pc[u]
    BY <1>2, <1>3 DEF CacheInv, TypeOK
  <1> QED
    BY <1>1, <1>4, AliveInvFrame

\* A destroyed runtime kernel is that of the destroyed kernel only.
LEMMA AliveInvDestroyRuntime ==
  ASSUME CacheInv, AliveInv, NEW k \in Kernels, DestroyRuntime(k)
  PROVE  AliveInv'
  <1>1. /\ attribute[k] # NULL
        /\ alive' = alive \ {attribute[k]}
        /\ destroyed' = destroyed \cup {k}
        /\ UNCHANGED <<pc, attribute, target, local, raised>>
    BY DEF DestroyRuntime
  <1>2. \A l \in Kernels \ destroyed' : attribute[l] # NULL => attribute[l] \in alive'
    BY <1>1 DEF AliveInv, OneKernel
  <1>3. \A t \in Threads : local[t] # NULL /\ target[t] \notin destroyed' => local[t] \in alive'
    BY <1>1 DEF AliveInv, OneKernel
  <1>4. OneKernel'
    BY <1>1 DEF AliveInv, OneKernel
  <1> QED
    BY <1>1, <1>2, <1>3, <1>4 DEF AliveInv

LEMMA DropRuntimesKeepsAlive ==
  ASSUME DropRuntimes, NEW r \in UsedRuntimes', r \in alive
  PROVE  r \in alive'
  BY DEF DropRuntimes

LEMMA AliveInvEndRun ==
  ASSUME CacheInv, AliveInv, CacheInv', NEW t \in Threads, NEW error \in Errors, EndRun(t, error),
         UNCHANGED destroyed
  PROVE  AliveInv'
  <1>1. /\ pc' = [pc EXCEPT ![t] = "idle"]
        /\ raised' = [raised EXCEPT ![t] = error]
        /\ local' = [local EXCEPT ![t] = NULL]
        /\ target' = [target EXCEPT ![t] = NULL]
        /\ UNCHANGED attribute
    BY DEF EndRun, Goto
  <1>2. /\ pc'[t] = "idle" /\ local'[t] = NULL /\ target'[t] = NULL
        /\ raised' \in [Threads -> Errors]
        /\ \A u \in Threads \ {t} : /\ pc'[u] = pc[u] /\ local'[u] = local[u]
                                    /\ target'[u] = target[u] /\ raised'[u] = raised[u]
    BY <1>1 DEF CacheInv, TypeOK, AliveInv
  <1>3. TypeOK' /\ \A r \in UsedRuntimes' : r \in alive => r \in alive'
    BY DropRuntimesKeepsAlive DEF EndRun, CacheInv
  <1>4. \A k \in Kernels \ destroyed : attribute[k] # NULL => attribute[k] \in alive'
    <2>1. \A k \in Kernels : attribute[k] # NULL => attribute[k] \in UsedRuntimes'
      BY <1>1, <1>3 DEF TypeOK, UsedRuntimes
    <2> QED
      BY <1>3, <2>1 DEF AliveInv
  <1>5. \A u \in Threads : local'[u] # NULL /\ target'[u] \notin destroyed => local'[u] \in alive'
    <2>1. \A u \in Threads : local'[u] # NULL => local'[u] \in UsedRuntimes'
      BY <1>3 DEF TypeOK, UsedRuntimes
    <2> QED
      BY <1>2, <1>3, <2>1 DEF AliveInv
  <1>6. OneKernel'
    BY <1>1, <1>2 DEF AliveInv, OneKernel
  <1>7. /\ \A u \in Threads : target'[u] # NULL => pc'[u] \in Running /\ raised'[u] = "nothing"
        /\ \A u \in Threads : local'[u] # NULL => pc'[u] \in Running
        /\ \A u \in Threads : pc'[u] = "fetch" => attribute'[target'[u]] # NULL
        /\ \A u \in Threads : pc'[u] \in {"store", "require", "workspace"} => local'[u] # NULL
    BY <1>1, <1>2 DEF AliveInv
  <1> QED
    BY <1>1, <1>2, <1>4, <1>5, <1>6, <1>7 DEF AliveInv

LEMMA AliveInvRun ==
  ASSUME CacheInv, AliveInv, NEW t \in Threads, Run(t)
  PROVE  AliveInv'
  <1>1. PICK k \in Kernels :
          /\ target' = [target EXCEPT ![t] = k]
          /\ Goto(t, IF attribute[k] \in alive THEN "fetch" ELSE "load")
    BY DEF Run
  <1>2. /\ pc[t] = "idle"
        /\ raised' = [raised EXCEPT ![t] = "nothing"]
        /\ UNCHANGED <<attribute, local, alive, destroyed>>
    BY DEF Run
  <1>3. /\ pc'[t] \in {"fetch", "load"} /\ (pc'[t] = "fetch" => attribute[k] \in alive)
        /\ target'[t] = k /\ raised'[t] = "nothing" /\ raised' \in [Threads -> Errors]
        /\ \A u \in Threads \ {t} : /\ pc'[u] = pc[u]
                                    /\ target'[u] = target[u] /\ raised'[u] = raised[u]
    BY <1>1, <1>2 DEF CacheInv, TypeOK, AliveInv, Goto, Errors
  <1>4. local[t] = NULL /\ NULL \notin alive
    BY <1>2, NullAssumption DEF CacheInv, TypeOK, AliveInv, Running
  <1>5. OneKernel'
    BY <1>2, <1>3, <1>4 DEF AliveInv, OneKernel
  <1>6. /\ \A u \in Threads : target'[u] # NULL => pc'[u] \in Running /\ raised'[u] = "nothing"
        /\ \A u \in Threads : local[u] # NULL => pc'[u] \in Running
        /\ \A u \in Threads : pc'[u] = "fetch" => attribute[target'[u]] # NULL
        /\ \A u \in Threads : pc'[u] \in {"store", "require", "workspace"} => local[u] # NULL
    BY <1>3, <1>4 DEF AliveInv, Running
  <1>7. /\ \A l \in Kernels \ destroyed : attribute[l] # NULL => attribute[l] \in alive
        /\ \A u \in Threads : local[u] # NULL /\ target'[u] \notin destroyed => local[u] \in alive
    BY <1>3, <1>4 DEF AliveInv
  <1> QED
    BY <1>2, <1>3, <1>5, <1>6, <1>7 DEF AliveInv

\* A load makes a runtime kernel that no other kernel or thread refers to.
LEMMA AliveInvLoad ==
  ASSUME CacheInv, AliveInv, CacheInv', NEW t \in Threads, Load(t)
  PROVE  AliveInv'
  <1>1. pc[t] = "load" /\ UNCHANGED destroyed
    BY LoadCases
  <1>2. CASE \E error \in Errors : EndRun(t, error)
    BY <1>1, <1>2, AliveInvEndRun
  <1>3. CASE ~ \E error \in Errors : EndRun(t, error)
    <2>1. ~ \E error : EndRun(t, error)
      <3>1. SUFFICES ASSUME NEW error, EndRun(t, error) PROVE FALSE
        OBVIOUS
      <3>2. pc'[t] = "idle"
        BY <3>1 DEF EndRun, Goto, CacheInv, TypeOK
      <3>3. ~Goto(t, "store")
        BY <3>2 DEF Goto, CacheInv, TypeOK
      <3> QED
        BY <1>3, <3>3 DEF Load, Errors
    <2>2. PICK new \in Runtimes \ UsedRuntimes :
            alive' = alive \cup {new} /\ local' = [local EXCEPT ![t] = new]
      BY <2>1, LoadCases
    <2>3. pc' = [pc EXCEPT ![t] = "store"] /\ UNCHANGED <<attribute, target, raised>>
      BY <2>1, LoadCases DEF Goto
    <2>4. /\ pc'[t] = "store" /\ local'[t] = new /\ new # NULL /\ new \in alive'
          /\ \A u \in Threads \ {t} : pc'[u] = pc[u] /\ local'[u] = local[u]
      BY <2>2, <2>3, NullAssumption DEF CacheInv, TypeOK
    <2>5. /\ \A k \in Kernels : attribute[k] # new
          /\ \A u \in Threads : local[u] # new
      BY <2>2 DEF UsedRuntimes, CacheInv, TypeOK
    <2>6. OneKernel'
      BY <2>3, <2>4, <2>5 DEF AliveInv, OneKernel
    <2>7. /\ \A u \in Threads : target[u] # NULL => pc'[u] \in Running /\ raised[u] = "nothing"
          /\ \A u \in Threads : local'[u] # NULL => pc'[u] \in Running
          /\ \A u \in Threads : pc'[u] = "fetch" => attribute[target[u]] # NULL
          /\ \A u \in Threads : pc'[u] \in {"store", "require", "workspace"} => local'[u] # NULL
      BY <1>1, <2>4 DEF AliveInv, Running
    <2>8. /\ \A l \in Kernels \ destroyed : attribute[l] # NULL => attribute[l] \in alive'
          /\ \A u \in Threads : local'[u] # NULL /\ target[u] \notin destroyed => local'[u] \in alive'
      BY <2>2, <2>4 DEF AliveInv
    <2> QED
      BY <1>1, <2>3, <2>6, <2>7, <2>8 DEF AliveInv
  <1> QED
    BY <1>2, <1>3

\* The runtime kernel that a store replaces is dropped; another thread that runs
\* the same kernel and has fetched it still holds it.
LEMMA AliveInvStoreRuntime ==
  ASSUME CacheInv, AliveInv, CacheInv', NEW t \in Threads, StoreRuntime(t)
  PROVE  AliveInv'
  <1> DEFINE k == target[t]
  <1>1. /\ pc[t] = "store" /\ pc' = [pc EXCEPT ![t] = "fetch"]
        /\ attribute' = [attribute EXCEPT ![k] = local[t]]
        /\ local' = [local EXCEPT ![t] = NULL]
        /\ UNCHANGED <<target, destroyed, raised>>
    BY DEF StoreRuntime, Goto
  <1>2. k \in Kernels /\ local[t] # NULL
    BY <1>1 DEF CacheInv, RunsCompiled, Running, AliveInv
  <1>3. /\ attribute'[k] = local[t] /\ \A l \in Kernels \ {k} : attribute'[l] = attribute[l]
        /\ pc'[t] = "fetch" /\ local'[t] = NULL
        /\ \A u \in Threads \ {t} : pc'[u] = pc[u] /\ local'[u] = local[u]
    BY <1>1, <1>2 DEF CacheInv, TypeOK
  <1>4. TypeOK' /\ \A r \in UsedRuntimes' : r \in alive => r \in alive'
    BY DropRuntimesKeepsAlive DEF StoreRuntime, CacheInv
  <1>5. /\ \A l \in Kernels : attribute'[l] \in alive => attribute'[l] \in alive'
        /\ \A u \in Threads : local'[u] \in alive => local'[u] \in alive'
    BY <1>4, NullAssumption DEF TypeOK, UsedRuntimes, CacheInv
  <1>6. OneKernel'
    BY <1>1, <1>2, <1>3 DEF AliveInv, OneKernel
  <1>7. /\ \A u \in Threads : target[u] # NULL => pc'[u] \in Running /\ raised[u] = "nothing"
        /\ \A u \in Threads : local'[u] # NULL => pc'[u] \in Running
        /\ \A u \in Threads : pc'[u] \in {"store", "require", "workspace"} => local'[u] # NULL
    BY <1>1, <1>3 DEF AliveInv, Running
  <1>8. \A u \in Threads : pc'[u] = "fetch" => attribute'[target[u]] # NULL
    BY <1>1, <1>2, <1>3 DEF AliveInv, CacheInv, RunsCompiled, Running
  <1>9. /\ \A l \in Kernels \ destroyed : attribute'[l] # NULL => attribute'[l] \in alive'
        /\ \A u \in Threads : local'[u] # NULL /\ target[u] \notin destroyed => local'[u] \in alive'
    BY <1>2, <1>3, <1>5 DEF AliveInv
  <1> QED
    BY <1>1, <1>6, <1>7, <1>8, <1>9 DEF AliveInv

LEMMA AliveInvFetchRuntime ==
  ASSUME CacheInv, AliveInv, NEW t \in Threads, FetchRuntime(t)
  PROVE  AliveInv'
  <1> DEFINE k == target[t]
  <1>1. /\ pc[t] = "fetch" /\ pc' = [pc EXCEPT ![t] = "require"]
        /\ local' = [local EXCEPT ![t] = attribute[k]]
        /\ UNCHANGED <<attribute, target, alive, destroyed, raised>>
    BY DEF FetchRuntime, Goto
  <1>2. k \in Kernels /\ attribute[k] # NULL
    BY <1>1 DEF CacheInv, RunsCompiled, Running, AliveInv
  <1>3. /\ pc'[t] = "require" /\ local'[t] = attribute[k]
        /\ \A u \in Threads \ {t} : pc'[u] = pc[u] /\ local'[u] = local[u]
    BY <1>1 DEF CacheInv, TypeOK
  <1>4. OneKernel'
    BY <1>1, <1>2, <1>3 DEF AliveInv, OneKernel
  <1>5. /\ \A u \in Threads : target[u] # NULL => pc'[u] \in Running /\ raised[u] = "nothing"
        /\ \A u \in Threads : local'[u] # NULL => pc'[u] \in Running
        /\ \A u \in Threads : pc'[u] = "fetch" => attribute[target[u]] # NULL
        /\ \A u \in Threads : pc'[u] \in {"store", "require", "workspace"} => local'[u] # NULL
    BY <1>1, <1>2, <1>3 DEF AliveInv, Running
  <1>6. \A u \in Threads : local'[u] # NULL /\ target[u] \notin destroyed => local'[u] \in alive
    BY <1>2, <1>3 DEF AliveInv
  <1> QED
    BY <1>1, <1>4, <1>5, <1>6 DEF AliveInv

\* The steps of a run between fetching its runtime kernel and the launch.
LEMMA AliveInvAdvance ==
  ASSUME CacheInv, AliveInv, NEW t \in Threads, NEW label \in {"workspace", "launch"},
         pc[t] \in {"require", "workspace"}, pc' = [pc EXCEPT ![t] = label],
         UNCHANGED <<attribute, target, local, alive, destroyed, raised>>
  PROVE  AliveInv'
  <1>1. /\ pc'[t] \in {"workspace", "launch"} /\ local[t] # NULL
        /\ \A u \in Threads \ {t} : pc'[u] = pc[u]
    BY DEF CacheInv, TypeOK, AliveInv
  <1>2. /\ \A u \in Threads : pc[u] \in Running => pc'[u] \in Running
        /\ \A u \in Threads : pc'[u] = "fetch" => pc[u] = "fetch"
        /\ \A u \in Threads : pc'[u] \in {"store", "require", "workspace"} => local[u] # NULL
    BY <1>1 DEF Running, AliveInv
  <1>3. OneKernel'
    BY DEF AliveInv, OneKernel
  <1> QED
    BY <1>2, <1>3 DEF AliveInv

LEMMA AliveInvRunStep ==
  ASSUME CacheInv, AliveInv, CacheInv', NEW t \in Threads, RunStep(t)
  PROVE  AliveInv'
  <1>1. UNCHANGED destroyed
    BY RunStepFrame
  <1>2. CASE \E error \in Errors : EndRun(t, error)
    BY <1>1, <1>2, AliveInvEndRun
  <1>3. CASE RequireNative(t) /\ ~ \E error \in Errors : EndRun(t, error)
    <2>1. /\ pc[t] = "require" /\ pc' = [pc EXCEPT ![t] = "workspace"]
          /\ UNCHANGED <<attribute, target, local, alive, raised>>
      BY <1>3 DEF RequireNative, Goto, runVarsButHeld, Errors
    <2> QED
      BY <1>1, <2>1, AliveInvAdvance
  <1>4. CASE QueryWorkspace(t) /\ ~ \E error \in Errors : EndRun(t, error)
    <2>1. /\ pc[t] = "workspace" /\ pc' = [pc EXCEPT ![t] = "launch"]
          /\ UNCHANGED <<attribute, target, local, alive, raised>>
      BY <1>4 DEF QueryWorkspace, Goto, runVars, Errors
    <2> QED
      BY <1>1, <2>1, AliveInvAdvance
  <1>5. CASE NativeLaunch(t)
    <2>1. \E error \in Errors : EndRun(t, error)
      BY <1>5 DEF NativeLaunch, Errors
    <2> QED
      BY <1>2, <2>1
  <1> QED
    BY <1>2, <1>3, <1>4, <1>5, AliveInvRun, AliveInvLoad, AliveInvStoreRuntime, AliveInvFetchRuntime
    DEF RunStep

LEMMA AliveInvNext == CacheInv /\ AliveInv /\ CacheInv' /\ [Next]_vars => AliveInv'
  <1> SUFFICES ASSUME CacheInv, AliveInv, CacheInv', [Next]_vars PROVE AliveInv'
    OBVIOUS
  <1>1. ASSUME NEW t \in Threads, RunStep(t) PROVE AliveInv'
    BY <1>1, AliveInvRunStep
  <1>2. ASSUME NEW t \in Threads,
               Compile(t) \/ CacheGet(t) \/ CompileProgram(t) \/ CachePut(t) \/ WrapKernel(t)
        PROVE  AliveInv'
    BY <1>2, AliveInvCompileStep
  <1>3. ASSUME NEW k \in Kernels, DestroyArtifact(k) PROVE AliveInv'
    BY <1>3, AliveInvFrame DEF DestroyArtifact, runVars
  <1>4. ASSUME NEW k \in Kernels, DestroyRuntime(k) PROVE AliveInv'
    BY <1>4, AliveInvDestroyRuntime
  <1>5. CASE Flush
    BY <1>5, AliveInvFrame DEF Flush, runVars
  <1>6. CASE UNCHANGED vars
    BY <1>6, AliveInvFrame DEF vars, runVars
  <1> QED
    BY <1>1, <1>2, <1>3, <1>4, <1>5, <1>6 DEF Next, RunStep

\* A run raises that something was destroyed only when it was.
LEMMA RaisesWhenDestroyed ==
  ASSUME CacheInv, AliveInv, [Next]_vars, NEW t \in Threads, target[t] # NULL,
         raised'[t] \in {"destroyed", "attribute_error"}
  PROVE  target[t] \in destroyed
  <1>1. pc[t] \in Running /\ raised[t] = "nothing"
    BY DEF AliveInv
  <1>2. target[t] \in Kernels /\ compiled[target[t]] # NoKernel
    BY <1>1 DEF CacheInv, RunsCompiled
  <1>3. PICK u \in Threads : RunStep(u) /\ raised' # raised
    <2>1. raised' # raised
      BY <1>1
    <2>2. ASSUME NEW u \in Threads, Compile(u) \/ CacheGet(u) \/ CompileProgram(u) \/ CachePut(u) \/ WrapKernel(u)
          PROVE  raised' = raised
      BY <2>2 DEF Compile, CacheGet, CompileProgram, CachePut, WrapKernel
    <2>3. ASSUME NEW k \in Kernels, DestroyArtifact(k) \/ DestroyRuntime(k) PROVE raised' = raised
      BY <2>3 DEF DestroyArtifact, DestroyRuntime
    <2>4. Flush \/ UNCHANGED vars => raised' = raised
      BY DEF Flush, vars
    <2> QED
      BY <2>1, <2>2, <2>3, <2>4 DEF Next, RunStep
  <1>4. \E error : raised' = [raised EXCEPT ![u] = error]
    BY <1>3 DEF RunStep, Run, Load, StoreRuntime, FetchRuntime, RequireNative, QueryWorkspace,
                NativeLaunch, EndRun, runVars, runVarsButHeld
  <1>5. u = t
    BY <1>1, <1>4 DEF AliveInv
  <1>6. DOMAIN raised = Threads
    BY DEF AliveInv
  <1>7. CASE Load(t)
    <2>1. EndRun(t, IF CanLoad(target[t]) THEN "load_failed" ELSE "destroyed")
      BY <1>1, <1>7 DEF Load
    <2>2. ~CanLoad(target[t])
      BY <1>6, <2>1 DEF EndRun
    <2> QED
      BY <1>2, <2>2 DEF CanLoad, CacheInv, ReturnedIsUsable
  <1>8. CASE RequireNative(t) \/ QueryWorkspace(t)
    <2>1. pc[t] \in {"require", "workspace"} /\ local[t] \notin alive
      BY <1>1, <1>8 DEF RequireNative, QueryWorkspace, runVars, runVarsButHeld
    <2> QED
      BY <2>1 DEF AliveInv
  <1>9. ~NativeLaunch(t) /\ ~Run(t)
    BY <1>6 DEF NativeLaunch, Run, EndRun
  <1>10. ~StoreRuntime(t) /\ ~FetchRuntime(t)
    BY <1>1 DEF StoreRuntime, FetchRuntime
  <1> QED
    BY <1>3, <1>5, <1>7, <1>8, <1>9, <1>10 DEF RunStep

\* Threads that run one kernel for the first time together may load it twice, and
\* none of them fails for it: only a user's destroy makes a run raise.
THEOREM OnlyDestroyRaises == Spec => OnlyUsersDestroy
  <1>1. Init => AliveInv
    BY AliveInvInit
  <1>2. CacheInv /\ AliveInv /\ CacheInv' /\ [Next]_vars => AliveInv'
    BY AliveInvNext
  <1>3. CacheInv /\ AliveInv /\ [Next]_vars =>
          [\A t \in Threads : target[t] # NULL /\ raised'[t] \in {"destroyed", "attribute_error"}
             => target[t] \in destroyed]_vars
    BY RaisesWhenDestroyed
  <1> QED
    BY <1>1, <1>2, <1>3, CacheInvariant, PTL DEF Spec, OnlyUsersDestroy
=============================================================================
