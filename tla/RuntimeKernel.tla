---------------------------- MODULE RuntimeKernel ----------------------------
(***************************************************************************)
(* CudaTileRuntimeKernel: the loaded form of one TensorIR artifact, shared *)
(* by several host threads.  initializeRuntimeState and unloadRuntimeState *)
(* hold stateMutex_ (a std::shared_mutex) exclusively, launch holds it     *)
(* shared.  A step is one call that leaves the class: into the CUDA        *)
(* driver, the native host loader or the TileIR assembler.  Each of these  *)
(* can fail, and what it returns is chosen nondeterministically.           *)
(***************************************************************************)
EXTENDS Naturals, FiniteSets

CONSTANTS
  Threads,   \* host threads that call the kernel
  Handles,   \* CUlibrary handles the driver can hand out
  Artifacts, \* the artifacts a kernel may be created from
  NULL       \* nullptr, and "no thread"

ASSUME NullAssumption == NULL \notin Threads \cup Handles

\* What loading depends on in an artifact: which alternative its Binary holds
\* and whether it carries a native host module.  TensorIRArtifact::create
\* rejects an empty binary, so activeDeviceCode() is never empty.
ArtifactType == [tileir : BOOLEAN, hostModule : BOOLEAN]

ASSUME ArtifactAssumption == Artifacts \subseteq ArtifactType

VARIABLES
  artifact,       \* artifact_, immutable
  fallbackCubin,  \* fallbackCubin_ is not empty
  lib,            \* lib_
  kernel,         \* kernel_: the library the kernel was looked up in
  hostModule,     \* hostModule_ is not null
  writer,         \* the thread that holds stateMutex_ exclusively
  readers,        \* the threads that hold it shared
  pc,             \* where each thread is
  code,           \* the code a thread is loading: activeDeviceCode() or the new cubin
  host,           \* the local `host` of initializeRuntimeState is not null
  status,         \* what the thread's last call returned
  loaded,         \* the driver's loaded libraries
  leaked          \* libraries whose failed unload initializeDeviceState ignored

lockVars   == <<writer, readers>>
kernelVars == <<artifact, fallbackCubin, lib, kernel, hostModule>>
driverVars == <<loaded, leaked>>
vars == <<kernelVars, lockVars, driverVars, pc, code, host, status>>

WriterPcs == {"load_host", "load_library", "get_kernel", "assemble",
              "publish_host", "unload"}
ReaderPcs == {"check_kernel", "pack_args", "driver_launch"}
Codes     == {"original", "cached", "fresh"}
Statuses  == {"none", "ok", "error", "not_initialized"}

TypeOK ==
  /\ artifact \in Artifacts
  /\ fallbackCubin \in BOOLEAN
  /\ lib \in Handles \cup {NULL}
  /\ kernel \in Handles \cup {NULL}
  /\ hostModule \in BOOLEAN
  /\ writer \in Threads \cup {NULL}
  /\ readers \subseteq Threads
  /\ pc \in [Threads -> {"idle"} \cup WriterPcs \cup ReaderPcs]
  /\ code \in [Threads -> Codes]
  /\ host \in [Threads -> BOOLEAN]
  /\ status \in [Threads -> Statuses]
  /\ loaded \subseteq Handles
  /\ leaked \subseteq Handles

\* create(): nothing is loaded yet.
Init ==
  /\ artifact \in Artifacts
  /\ fallbackCubin = FALSE
  /\ lib = NULL
  /\ kernel = NULL
  /\ hostModule = FALSE
  /\ writer = NULL
  /\ readers = {}
  /\ pc = [t \in Threads |-> "idle"]
  /\ code = [t \in Threads |-> "original"]
  /\ host = [t \in Threads |-> FALSE]
  /\ status = [t \in Threads |-> "none"]
  /\ loaded = {}
  /\ leaked = {}

-----------------------------------------------------------------------------
(* The shared mutex: std::unique_lock and std::shared_lock.                *)

\* Mutants: the exclusive lock does not wait for readers, and neither waits.
CanLockExclusiveAmidReaders == writer = NULL
CanLockAlways == TRUE

CanLockExclusive == writer = NULL /\ readers = {}
CanLockShared    == writer = NULL

Goto(t, label) == pc' = [pc EXCEPT ![t] = label]

\* A call under the exclusive lock returns: the lock is released and the
\* locals of the call are gone (`host` destroys a module that was not moved).
ReturnExclusive(t, s) ==
  /\ Goto(t, "idle")
  /\ status' = [status EXCEPT ![t] = s]
  /\ host' = [host EXCEPT ![t] = FALSE]
  /\ code' = [code EXCEPT ![t] = "original"]
  /\ writer' = NULL
  /\ UNCHANGED readers

ReturnShared(t, s) ==
  /\ Goto(t, "idle")
  /\ status' = [status EXCEPT ![t] = s]
  /\ readers' = readers \ {t}
  /\ UNCHANGED <<writer, host, code>>

-----------------------------------------------------------------------------
(* initializeRuntimeState and initializeDeviceState.                       *)

\* The code a load starts from: a cached fallback cubin takes precedence.
ActiveDeviceCode == IF fallbackCubin THEN "cached" ELSE "original"

\* A call locks, and returns Ok at once when kernel_ is set.
InitializeRuntimeState(t) ==
  /\ pc[t] = "idle"
  /\ CanLockExclusive
  /\ IF kernel # NULL
     THEN /\ status' = [status EXCEPT ![t] = "ok"]
          /\ UNCHANGED <<pc, code, writer>>
     ELSE /\ writer' = t
          /\ status' = [status EXCEPT ![t] = "none"]
          /\ code' = [code EXCEPT ![t] = ActiveDeviceCode]
          /\ Goto(t, IF artifact.hostModule THEN "load_host" ELSE "load_library")
  /\ UNCHANGED <<kernelVars, driverVars, readers, host>>

\* NativeHostModule::load; on failure initializeRuntimeState returns.
LoadHostModule(t) ==
  /\ pc[t] = "load_host"
  /\ \/ /\ host' = [host EXCEPT ![t] = TRUE]
        /\ Goto(t, "load_library")
        /\ UNCHANGED <<code, status, lockVars>>
     \/ ReturnExclusive(t, "error")
  /\ UNCHANGED <<kernelVars, driverVars>>

\* Mutants: bytecode that was already replaced is assembled again, and a cubin
\* is handed to the assembler.
LoadKernelFailedAgain(t) ==
  IF artifact.tileir
  THEN /\ Goto(t, "assemble")
       /\ UNCHANGED <<code, host, status, lockVars>>
  ELSE ReturnExclusive(t, "error")

LoadKernelFailedAnyKind(t) ==
  IF code[t] = "original"
  THEN /\ Goto(t, "assemble")
       /\ UNCHANGED <<code, host, status, lockVars>>
  ELSE ReturnExclusive(t, "error")

\* Where initializeDeviceState goes when loadKernel failed: the first failure
\* of TileIR bytecode tries the assembler, any other failure is returned.
\* create() sets tileIRFallbackAssembler_ for every TileIR artifact.
LoadKernelFailed(t) ==
  IF code[t] = "original" /\ artifact.tileir
  THEN /\ Goto(t, "assemble")
       /\ UNCHANGED <<code, host, status, lockVars>>
  ELSE ReturnExclusive(t, "error")

\* loadKernel, first half: cuLibraryLoadData.
LoadLibrary(t) ==
  /\ pc[t] = "load_library"
  /\ \/ \E h \in Handles \ loaded :
          /\ loaded' = loaded \cup {h}
          /\ lib' = h
          /\ Goto(t, "get_kernel")
          /\ UNCHANGED <<artifact, fallbackCubin, kernel, hostModule, leaked,
                         lockVars, code, host, status>>
     \/ /\ LoadKernelFailed(t)
        /\ UNCHANGED <<kernelVars, driverVars>>

\* Mutant: lib_ still names the library whose kernel was not found.
GetKernelKeepsLibrary(t) ==
  /\ pc[t] = "get_kernel"
  /\ \/ /\ kernel' = lib
        /\ fallbackCubin' = (fallbackCubin \/ code[t] = "fresh")
        /\ Goto(t, "publish_host")
        /\ UNCHANGED <<artifact, lib, hostModule, driverVars, lockVars,
                       code, host, status>>
     \/ /\ loaded' = loaded \ {lib}
        /\ LoadKernelFailed(t)
        /\ UNCHANGED <<kernelVars, leaked>>

\* loadKernel, second half: cuLibraryGetKernel.  On failure the library is
\* unloaded, the result of that is ignored, and lib_ is cleared.
GetKernel(t) ==
  /\ pc[t] = "get_kernel"
  /\ \/ /\ kernel' = lib
        /\ fallbackCubin' = (fallbackCubin \/ code[t] = "fresh")
        /\ Goto(t, "publish_host")
        /\ UNCHANGED <<artifact, lib, hostModule, driverVars, lockVars,
                       code, host, status>>
     \/ /\ \/ loaded' = loaded \ {lib} /\ UNCHANGED leaked
           \/ leaked' = leaked \cup {lib} /\ UNCHANGED loaded
        /\ lib' = NULL
        /\ LoadKernelFailed(t)
        /\ UNCHANGED <<artifact, fallbackCubin, kernel, hostModule>>

\* tileIRFallbackAssembler_, with the capability of the current device.  A
\* failed query, an incompatible target and a missing assembler all return.
AssembleFallback(t) ==
  /\ pc[t] = "assemble"
  /\ \/ /\ code' = [code EXCEPT ![t] = "fresh"]
        /\ Goto(t, "load_library")
        /\ UNCHANGED <<host, status, lockVars>>
     \/ ReturnExclusive(t, "error")
  /\ UNCHANGED <<kernelVars, driverVars>>

\* hostModule_ = std::move(host), the last step of initializeRuntimeState.
PublishHostModule(t) ==
  /\ pc[t] = "publish_host"
  /\ hostModule' = host[t]
  /\ ReturnExclusive(t, "ok")
  /\ UNCHANGED <<artifact, fallbackCubin, lib, kernel, driverVars>>

-----------------------------------------------------------------------------
(* unloadRuntimeState.                                                     *)

UnloadRuntimeState(t) ==
  /\ pc[t] = "idle"
  /\ CanLockExclusive
  /\ writer' = t
  /\ status' = [status EXCEPT ![t] = "none"]
  /\ Goto(t, "unload")
  /\ UNCHANGED <<kernelVars, driverVars, readers, code, host>>

\* Mutant: a failed unload is ignored.
UnloadLibraryIgnoresFailure(t) ==
  /\ pc[t] = "unload"
  /\ \/ loaded' = loaded \ {lib}
     \/ lib # NULL /\ UNCHANGED loaded
  /\ lib' = NULL
  /\ kernel' = IF lib = NULL THEN kernel ELSE NULL
  /\ hostModule' = FALSE
  /\ ReturnExclusive(t, IF loaded' = loaded /\ lib # NULL THEN "error" ELSE "ok")
  /\ UNCHANGED <<artifact, fallbackCubin, leaked>>

\* cuLibraryUnload when lib_ is set; a failure returns before anything is
\* cleared, so the kernel stays ready.
UnloadLibrary(t) ==
  /\ pc[t] = "unload"
  /\ \/ /\ loaded' = loaded \ {lib}
        /\ lib' = NULL
        /\ kernel' = IF lib = NULL THEN kernel ELSE NULL
        /\ hostModule' = FALSE
        /\ ReturnExclusive(t, "ok")
        /\ UNCHANGED <<artifact, fallbackCubin, leaked>>
     \/ /\ lib # NULL
        /\ ReturnExclusive(t, "error")
        /\ UNCHANGED <<kernelVars, driverVars>>

-----------------------------------------------------------------------------
(* launch.                                                                 *)

Launch(t) ==
  /\ pc[t] = "idle"
  /\ CanLockShared
  /\ readers' = readers \cup {t}
  /\ status' = [status EXCEPT ![t] = "none"]
  /\ Goto(t, "check_kernel")
  /\ UNCHANGED <<kernelVars, driverVars, writer, code, host>>

CheckKernel(t) ==
  /\ pc[t] = "check_kernel"
  /\ IF kernel = NULL
     THEN ReturnShared(t, "not_initialized")
     ELSE Goto(t, "pack_args") /\ UNCHANGED <<lockVars, code, host, status>>
  /\ UNCHANGED <<kernelVars, driverVars>>

\* Packing, by the native host entry or by the interpreter, may reject.
PackArgs(t) ==
  /\ pc[t] = "pack_args"
  /\ \/ Goto(t, "driver_launch") /\ UNCHANGED <<lockVars, code, host, status>>
     \/ ReturnShared(t, "error")
  /\ UNCHANGED <<kernelVars, driverVars>>

\* cuLaunchKernelEx, called here or by the native host entry's callback.
DriverLaunch(t) ==
  /\ pc[t] = "driver_launch"
  /\ \E s \in {"ok", "error"} : ReturnShared(t, s)
  /\ UNCHANGED <<kernelVars, driverVars>>

-----------------------------------------------------------------------------

\* What a thread does inside a call it has started.
Continue(t) ==
  \/ LoadHostModule(t) \/ LoadLibrary(t) \/ GetKernel(t)
  \/ AssembleFallback(t) \/ PublishHostModule(t) \/ UnloadLibrary(t)
  \/ CheckKernel(t) \/ PackArgs(t) \/ DriverLaunch(t)

Next == \E t \in Threads :
  \/ InitializeRuntimeState(t)
  \/ UnloadRuntimeState(t)
  \/ Launch(t)
  \/ Continue(t)

\* A thread inside a call is scheduled again, and no callee blocks forever.
\* Nobody is obliged to make another call.
Fairness == \A t \in Threads : WF_vars(Continue(t))

Spec == Init /\ [][Next]_vars
FairSpec == Spec /\ Fairness

-----------------------------------------------------------------------------
(* Properties.                                                             *)

\* A thread that uses kernel_ or hands it to the driver (after launch's check
\* of kernel_) sees a kernel whose library is still loaded, and the native
\* host module too when the artifact has one: neither an unload nor an
\* initialization of another thread can intervene.
LaunchUsesLoadedKernel ==
  \A t \in Threads : pc[t] \in {"pack_args", "driver_launch"} =>
    /\ kernel \in loaded
    /\ artifact.hostModule <=> hostModule

\* While nobody initializes or unloads, the kernel is entirely ready (library,
\* kernel and host module) or entirely unloaded, whichever of the calls in
\* between failed; and the driver holds nothing of it but lib_ and what a
\* failed unload left behind.
AllOrNothing ==
  writer = NULL =>
    /\ lib = kernel
    /\ hostModule <=> (kernel # NULL /\ artifact.hostModule)
    /\ loaded = leaked \cup ({lib} \ {NULL})

\* However many threads initialize at once, one library is loaded for the
\* kernel at a time (IRuntimeKernel.h promises that initializeRuntimeState is
\* thread-safe).
LoadedOnce == Cardinality(loaded \ leaked) <= 1

\* Only TileIR bytecode that the driver rejected is replaced by an assembled
\* cubin, and a cubin that has replaced it stays: no later failure, unload or
\* initialization goes back to bytecode.
FallbackIsFinal ==
  [][/\ fallbackCubin => fallbackCubin'
     /\ (fallbackCubin' /\ ~fallbackCubin) => artifact.tileir /\ kernel = NULL]_vars

\* An initialization reports Ok only with the kernel ready, an unload only
\* with it gone, and a failed initialization leaves it unloaded.
StatusTellsState ==
  [][\A t \in Threads :
       /\ (pc[t] = "publish_host" /\ pc'[t] = "idle" /\ status'[t] = "ok") => kernel' # NULL
       /\ (pc[t] = "unload" /\ pc'[t] = "idle") =>
            ((status'[t] = "ok") <=> (kernel' = NULL /\ lib' = NULL /\ ~hostModule'))
       /\ (pc[t] \in WriterPcs \ {"unload"} /\ pc'[t] = "idle" /\ status'[t] = "error") =>
            kernel' = NULL /\ lib' = NULL]_vars

\* A call that got the lock returns, so the lock is always released.
CallsReturn == \A t \in Threads : pc[t] # "idle" ~> pc[t] = "idle"

(* The promise of IRuntimeKernel, implemented: the steps of one call become *)
(* one atomic Load or Unload, at the step that completes or undoes it.      *)

Ready     == kernel # NULL /\ (artifact.hostModule => hostModule)
Launching == {t \in Threads : pc[t] \in {"pack_args", "driver_launch"}}

Lifecycle == INSTANCE KernelLifecycle WITH ready <- Ready, launching <- Launching

\* Every interleaving of the calls looks to the callers of IRuntimeKernel like
\* some order of atomic loads, unloads and launches of a ready kernel.
ImplementsLifecycle == Lifecycle!Spec

-----------------------------------------------------------------------------
(* The inductive invariant.                                                *)

\* Who holds stateMutex_ follows from where the threads are.
LockInv ==
  /\ \A t \in Threads : pc[t] \in WriterPcs <=> writer = t
  /\ \A t \in Threads : pc[t] \in ReaderPcs <=> t \in readers
  /\ writer # NULL => readers = {}

\* lib_ is the one library that is loaded and not leaked.
LibraryInv ==
  /\ loaded = leaked \cup ({lib} \ {NULL})
  /\ lib \notin leaked

\* What holds inside initializeRuntimeState.
LoadingInv == \A t \in Threads :
  /\ pc[t] \in {"load_host", "load_library", "assemble"} => lib = NULL
  /\ pc[t] \in {"load_host", "load_library", "assemble", "get_kernel"} => kernel = NULL
  /\ pc[t] = "get_kernel" => lib # NULL
  /\ pc[t] = "publish_host" => lib = kernel /\ lib # NULL
  /\ pc[t] \in WriterPcs \ {"unload"} => ~hostModule
  /\ pc[t] \in {"load_library", "get_kernel", "assemble", "publish_host"}
       => (host[t] <=> artifact.hostModule)
  /\ host[t] => pc[t] \in WriterPcs \ {"load_host", "unload"}
  /\ pc[t] = "load_host" => artifact.hostModule
  /\ pc[t] = "assemble" => artifact.tileir
  /\ code[t] = "fresh" => artifact.tileir /\ pc[t] \in WriterPcs \ {"unload"}

\* What holds outside it.
SettledInv ==
  (writer = NULL \/ \E t \in Threads : pc[t] = "unload") =>
    /\ lib = kernel
    /\ hostModule <=> (kernel # NULL /\ artifact.hostModule)

\* A launch past its check has seen kernel_, which cannot go meanwhile.
LaunchInv == \A t \in Threads : pc[t] \in {"pack_args", "driver_launch"} => kernel # NULL

IInv == TypeOK /\ LockInv /\ LibraryInv /\ LoadingInv /\ SettledInv /\ LaunchInv
=============================================================================
