------------------------- MODULE RuntimeKernelProofs -------------------------
(* Proofs about RuntimeKernel for any number of threads, any set of driver *)
(* handles and any set of artifacts.                                       *)
EXTENDS RuntimeKernel, FiniteSetTheorems, TLAPS

LEMMA InitInductive == Init => IInv
<1> SUFFICES ASSUME Init PROVE IInv
  OBVIOUS
<1> USE NullAssumption, ArtifactAssumption DEF Init, WriterPcs, ReaderPcs
<1>1. TypeOK
  BY DEF TypeOK, Codes, Statuses, ArtifactType
<1>2. LockInv
  BY DEF LockInv
<1>3. LibraryInv
  BY DEF LibraryInv
<1>4. LoadingInv
  BY DEF LoadingInv
<1>5. SettledInv
  BY DEF SettledInv
<1>6. LaunchInv
  BY DEF LaunchInv
<1>7. QED
  BY <1>1, <1>2, <1>3, <1>4, <1>5, <1>6 DEF IInv

(* One lemma for each conjunct of the inductive invariant: which of the     *)
(* conjuncts its preservation needs, and one case for each action.          *)

\* What a call that returns under the exclusive lock leaves has its types.
LEMMA ReturnKeepsTypes ==
  ASSUME TypeOK, NEW t \in Threads, NEW s \in Statuses, ReturnExclusive(t, s)
  PROVE  /\ pc' \in [Threads -> {"idle"} \cup WriterPcs \cup ReaderPcs]
         /\ code' \in [Threads -> Codes]
         /\ host' \in [Threads -> BOOLEAN]
         /\ status' \in [Threads -> Statuses]
         /\ writer' \in Threads \cup {NULL}
         /\ readers' \subseteq Threads
<1>1. pc' \in [Threads -> {"idle"} \cup WriterPcs \cup ReaderPcs]
  BY DEF ReturnExclusive, Goto, TypeOK
<1>2. code' \in [Threads -> Codes] /\ host' \in [Threads -> BOOLEAN]
  BY DEF ReturnExclusive, TypeOK, Codes
<1>3. status' \in [Threads -> Statuses]
  BY DEF ReturnExclusive, TypeOK
<1>4. writer' \in Threads \cup {NULL} /\ readers' \subseteq Threads
  BY DEF ReturnExclusive, TypeOK
<1>5. QED
  BY <1>1, <1>2, <1>3, <1>4

LEMMA TypeOKStep ==
  ASSUME TypeOK, LoadingInv, [Next]_vars PROVE TypeOK'
<1> USE NullAssumption, ArtifactAssumption DEF ArtifactType, TypeOK, Codes, Statuses, WriterPcs, ReaderPcs,
          kernelVars, driverVars, lockVars, Goto
<1>1. ASSUME NEW t \in Threads, InitializeRuntimeState(t) PROVE TypeOK'
  BY <1>1 DEF InitializeRuntimeState, CanLockExclusive, ActiveDeviceCode
<1>2. ASSUME NEW t \in Threads, LoadHostModule(t) PROVE TypeOK'
  <2>1. CASE ReturnExclusive(t, "error")
    BY <1>2, <2>1, ReturnKeepsTypes DEF LoadHostModule
  <2>2. CASE ~ReturnExclusive(t, "error")
    <3>1. /\ host' = [host EXCEPT ![t] = TRUE] /\ pc' = [pc EXCEPT ![t] = "load_library"]
          /\ UNCHANGED <<kernelVars, driverVars, code, status, lockVars>>
      BY <1>2, <2>2 DEF LoadHostModule
    <3>2. host' \in [Threads -> BOOLEAN]
      BY <3>1
    <3>3. pc' \in [Threads -> {"idle"} \cup WriterPcs \cup ReaderPcs]
      BY <3>1
    <3>4. QED
      BY <3>1, <3>2, <3>3
  <2>3. QED
    BY <2>1, <2>2
<1>3. ASSUME NEW t \in Threads, LoadLibrary(t) PROVE TypeOK'
  <2>1. CASE ReturnExclusive(t, "error")
    BY <1>3, <2>1, ReturnKeepsTypes DEF LoadLibrary, LoadKernelFailed
  <2>2. CASE ~ReturnExclusive(t, "error")
    <3>1. \/ \E h \in Handles : loaded' = loaded \cup {h} /\ lib' = h
          \/ UNCHANGED <<loaded, lib>>
      BY <1>3, <2>2 DEF LoadLibrary
    <3>2. /\ pc' = [pc EXCEPT ![t] = "get_kernel"] \/ pc' = [pc EXCEPT ![t] = "assemble"]
          /\ UNCHANGED <<artifact, fallbackCubin, kernel, hostModule, leaked,
                         lockVars, code, host, status>>
      BY <1>3, <2>2 DEF LoadLibrary, LoadKernelFailed
    <3>3. QED
      BY <3>1, <3>2
  <2>3. QED
    BY <2>1, <2>2
<1>4. ASSUME NEW t \in Threads, GetKernel(t) PROVE TypeOK'
  <2>1. artifact' \in Artifacts /\ fallbackCubin' \in BOOLEAN /\ hostModule' \in BOOLEAN
    BY <1>4 DEF GetKernel
  <2>2. {lib', kernel'} \subseteq Handles \cup {NULL} /\ loaded' \subseteq Handles
    BY <1>4 DEF GetKernel
  <2>3. leaked' \subseteq Handles
    BY <1>4 DEF GetKernel, LoadingInv
  <2>4. pc' \in [Threads -> {"idle"} \cup WriterPcs \cup ReaderPcs] /\ code' \in [Threads -> Codes]
    BY <1>4 DEF GetKernel, LoadKernelFailed, ReturnExclusive
  <2>5. host' \in [Threads -> BOOLEAN] /\ status' \in [Threads -> Statuses]
    BY <1>4 DEF GetKernel, LoadKernelFailed, ReturnExclusive
  <2>6. writer' \in Threads \cup {NULL} /\ readers' \subseteq Threads
    BY <1>4 DEF GetKernel, LoadKernelFailed, ReturnExclusive
  <2>7. QED
    BY <2>1, <2>2, <2>3, <2>4, <2>5, <2>6
<1>5. ASSUME NEW t \in Threads, AssembleFallback(t) PROVE TypeOK'
  <2>1. CASE ReturnExclusive(t, "error")
    BY <1>5, <2>1, ReturnKeepsTypes DEF AssembleFallback
  <2>2. CASE ~ReturnExclusive(t, "error")
    BY <1>5, <2>2 DEF AssembleFallback
  <2>3. QED
    BY <2>1, <2>2
<1>6. ASSUME NEW t \in Threads, PublishHostModule(t) PROVE TypeOK'
  BY <1>6 DEF PublishHostModule, ReturnExclusive
<1>7. ASSUME NEW t \in Threads, UnloadRuntimeState(t) PROVE TypeOK'
  BY <1>7 DEF UnloadRuntimeState, CanLockExclusive
<1>8. ASSUME NEW t \in Threads, UnloadLibrary(t) PROVE TypeOK'
  <2>1. artifact' \in Artifacts /\ fallbackCubin' \in BOOLEAN /\ hostModule' \in BOOLEAN
    BY <1>8 DEF UnloadLibrary
  <2>2. {lib', kernel'} \subseteq Handles \cup {NULL} /\ loaded' \subseteq Handles
    BY <1>8 DEF UnloadLibrary
  <2>3. leaked' \subseteq Handles
    BY <1>8 DEF UnloadLibrary
  <2>4. ReturnExclusive(t, "ok") \/ ReturnExclusive(t, "error")
    BY <1>8 DEF UnloadLibrary
  <2>5. /\ pc' \in [Threads -> {"idle"} \cup WriterPcs \cup ReaderPcs]
        /\ code' \in [Threads -> Codes]
        /\ host' \in [Threads -> BOOLEAN]
        /\ status' \in [Threads -> Statuses]
        /\ writer' \in Threads \cup {NULL}
        /\ readers' \subseteq Threads
    BY <2>4, ReturnKeepsTypes
  <2>6. QED
    BY <2>1, <2>2, <2>3, <2>5
<1>9. ASSUME NEW t \in Threads, Launch(t) PROVE TypeOK'
  BY <1>9 DEF Launch, CanLockShared
<1>10. ASSUME NEW t \in Threads, CheckKernel(t) PROVE TypeOK'
  BY <1>10 DEF CheckKernel, ReturnShared
<1>11. ASSUME NEW t \in Threads, PackArgs(t) PROVE TypeOK'
  BY <1>11 DEF PackArgs, ReturnShared
<1>12. ASSUME NEW t \in Threads, DriverLaunch(t) PROVE TypeOK'
  BY <1>12 DEF DriverLaunch, ReturnShared
<1>13. CASE UNCHANGED vars
  BY <1>13 DEF vars
<1> HIDE DEF TypeOK
<1>14. QED
  BY <1>1, <1>2, <1>3, <1>4, <1>5, <1>6, <1>7, <1>8, <1>9, <1>10, <1>11, <1>12, <1>13
     DEF Next, Continue

LEMMA LockInvStep ==
  ASSUME TypeOK, LockInv, [Next]_vars PROVE LockInv'
<1> USE NullAssumption, ArtifactAssumption DEF ArtifactType, TypeOK, LockInv, WriterPcs, ReaderPcs,
          kernelVars, driverVars, lockVars, Goto
<1>1. ASSUME NEW t \in Threads, InitializeRuntimeState(t) PROVE LockInv'
  BY <1>1 DEF InitializeRuntimeState, CanLockExclusive, ActiveDeviceCode
<1>2. ASSUME NEW t \in Threads, LoadHostModule(t) PROVE LockInv'
  BY <1>2 DEF LoadHostModule, ReturnExclusive
<1>3. ASSUME NEW t \in Threads, LoadLibrary(t) PROVE LockInv'
  BY <1>3 DEF LoadLibrary, LoadKernelFailed, ReturnExclusive
<1>4. ASSUME NEW t \in Threads, GetKernel(t) PROVE LockInv'
  BY <1>4 DEF GetKernel, LoadKernelFailed, ReturnExclusive
<1>5. ASSUME NEW t \in Threads, AssembleFallback(t) PROVE LockInv'
  BY <1>5 DEF AssembleFallback, ReturnExclusive
<1>6. ASSUME NEW t \in Threads, PublishHostModule(t) PROVE LockInv'
  BY <1>6 DEF PublishHostModule, ReturnExclusive
<1>7. ASSUME NEW t \in Threads, UnloadRuntimeState(t) PROVE LockInv'
  BY <1>7 DEF UnloadRuntimeState, CanLockExclusive
<1>8. ASSUME NEW t \in Threads, UnloadLibrary(t) PROVE LockInv'
  BY <1>8 DEF UnloadLibrary, ReturnExclusive
<1>9. ASSUME NEW t \in Threads, Launch(t) PROVE LockInv'
  BY <1>9 DEF Launch, CanLockShared
<1>10. ASSUME NEW t \in Threads, CheckKernel(t) PROVE LockInv'
  BY <1>10 DEF CheckKernel, ReturnShared
<1>11. ASSUME NEW t \in Threads, PackArgs(t) PROVE LockInv'
  BY <1>11 DEF PackArgs, ReturnShared
<1>12. ASSUME NEW t \in Threads, DriverLaunch(t) PROVE LockInv'
  BY <1>12 DEF DriverLaunch, ReturnShared
<1>13. CASE UNCHANGED vars
  BY <1>13 DEF vars
<1> HIDE DEF LockInv
<1>14. QED
  BY <1>1, <1>2, <1>3, <1>4, <1>5, <1>6, <1>7, <1>8, <1>9, <1>10, <1>11, <1>12, <1>13
     DEF Next, Continue

LEMMA LibraryInvStep ==
  ASSUME TypeOK, LibraryInv, LoadingInv, [Next]_vars PROVE LibraryInv'
<1> USE NullAssumption, ArtifactAssumption DEF ArtifactType, TypeOK, LibraryInv, LoadingInv,
          kernelVars, driverVars, lockVars, Goto
<1>1. ASSUME NEW t \in Threads, InitializeRuntimeState(t) PROVE LibraryInv'
  BY <1>1 DEF InitializeRuntimeState, CanLockExclusive, ActiveDeviceCode
<1>2. ASSUME NEW t \in Threads, LoadHostModule(t) PROVE LibraryInv'
  BY <1>2 DEF LoadHostModule, ReturnExclusive
<1>3. ASSUME NEW t \in Threads, LoadLibrary(t) PROVE LibraryInv'
  BY <1>3 DEF LoadLibrary, LoadKernelFailed, ReturnExclusive
<1>4. ASSUME NEW t \in Threads, GetKernel(t) PROVE LibraryInv'
  BY <1>4 DEF GetKernel, LoadKernelFailed, ReturnExclusive
<1>5. ASSUME NEW t \in Threads, AssembleFallback(t) PROVE LibraryInv'
  BY <1>5 DEF AssembleFallback, ReturnExclusive
<1>6. ASSUME NEW t \in Threads, PublishHostModule(t) PROVE LibraryInv'
  BY <1>6 DEF PublishHostModule, ReturnExclusive
<1>7. ASSUME NEW t \in Threads, UnloadRuntimeState(t) PROVE LibraryInv'
  BY <1>7 DEF UnloadRuntimeState, CanLockExclusive
<1>8. ASSUME NEW t \in Threads, UnloadLibrary(t) PROVE LibraryInv'
  BY <1>8 DEF UnloadLibrary, ReturnExclusive
<1>9. ASSUME NEW t \in Threads, Launch(t) PROVE LibraryInv'
  BY <1>9 DEF Launch, CanLockShared
<1>10. ASSUME NEW t \in Threads, CheckKernel(t) PROVE LibraryInv'
  BY <1>10 DEF CheckKernel, ReturnShared
<1>11. ASSUME NEW t \in Threads, PackArgs(t) PROVE LibraryInv'
  BY <1>11 DEF PackArgs, ReturnShared
<1>12. ASSUME NEW t \in Threads, DriverLaunch(t) PROVE LibraryInv'
  BY <1>12 DEF DriverLaunch, ReturnShared
<1>13. CASE UNCHANGED vars
  BY <1>13 DEF vars
<1> HIDE DEF LibraryInv
<1>14. QED
  BY <1>1, <1>2, <1>3, <1>4, <1>5, <1>6, <1>7, <1>8, <1>9, <1>10, <1>11, <1>12, <1>13
     DEF Next, Continue

LEMMA LoadingInvStep ==
  ASSUME TypeOK, LockInv, LoadingInv, SettledInv, [Next]_vars PROVE LoadingInv'
<1> USE NullAssumption, ArtifactAssumption DEF ArtifactType, TypeOK, LockInv, LoadingInv, SettledInv, WriterPcs, ReaderPcs,
          kernelVars, driverVars, lockVars, Goto
<1>1. ASSUME NEW t \in Threads, InitializeRuntimeState(t) PROVE LoadingInv'
  BY <1>1 DEF InitializeRuntimeState, CanLockExclusive, ActiveDeviceCode
<1>2. ASSUME NEW t \in Threads, LoadHostModule(t) PROVE LoadingInv'
  BY <1>2 DEF LoadHostModule, ReturnExclusive
<1>3. ASSUME NEW t \in Threads, LoadLibrary(t) PROVE LoadingInv'
  BY <1>3 DEF LoadLibrary, LoadKernelFailed, ReturnExclusive
<1>4. ASSUME NEW t \in Threads, GetKernel(t) PROVE LoadingInv'
  BY <1>4 DEF GetKernel, LoadKernelFailed, ReturnExclusive
<1>5. ASSUME NEW t \in Threads, AssembleFallback(t) PROVE LoadingInv'
  BY <1>5 DEF AssembleFallback, ReturnExclusive
<1>6. ASSUME NEW t \in Threads, PublishHostModule(t) PROVE LoadingInv'
  BY <1>6 DEF PublishHostModule, ReturnExclusive
<1>7. ASSUME NEW t \in Threads, UnloadRuntimeState(t) PROVE LoadingInv'
  BY <1>7 DEF UnloadRuntimeState, CanLockExclusive
<1>8. ASSUME NEW t \in Threads, UnloadLibrary(t) PROVE LoadingInv'
  BY <1>8 DEF UnloadLibrary, ReturnExclusive
<1>9. ASSUME NEW t \in Threads, Launch(t) PROVE LoadingInv'
  BY <1>9 DEF Launch, CanLockShared
<1>10. ASSUME NEW t \in Threads, CheckKernel(t) PROVE LoadingInv'
  BY <1>10 DEF CheckKernel, ReturnShared
<1>11. ASSUME NEW t \in Threads, PackArgs(t) PROVE LoadingInv'
  BY <1>11 DEF PackArgs, ReturnShared
<1>12. ASSUME NEW t \in Threads, DriverLaunch(t) PROVE LoadingInv'
  BY <1>12 DEF DriverLaunch, ReturnShared
<1>13. CASE UNCHANGED vars
  BY <1>13 DEF vars
<1> HIDE DEF LoadingInv
<1>14. QED
  BY <1>1, <1>2, <1>3, <1>4, <1>5, <1>6, <1>7, <1>8, <1>9, <1>10, <1>11, <1>12, <1>13
     DEF Next, Continue

LEMMA SettledInvStep ==
  ASSUME TypeOK, LockInv, LoadingInv, SettledInv, [Next]_vars PROVE SettledInv'
<1> USE NullAssumption, ArtifactAssumption DEF ArtifactType, TypeOK, LockInv, LoadingInv, SettledInv, WriterPcs, ReaderPcs,
          kernelVars, driverVars, lockVars, Goto
<1>1. ASSUME NEW t \in Threads, InitializeRuntimeState(t) PROVE SettledInv'
  BY <1>1 DEF InitializeRuntimeState, CanLockExclusive, ActiveDeviceCode
<1>2. ASSUME NEW t \in Threads, LoadHostModule(t) PROVE SettledInv'
  BY <1>2 DEF LoadHostModule, ReturnExclusive
<1>3. ASSUME NEW t \in Threads, LoadLibrary(t) PROVE SettledInv'
  BY <1>3 DEF LoadLibrary, LoadKernelFailed, ReturnExclusive
<1>4. ASSUME NEW t \in Threads, GetKernel(t) PROVE SettledInv'
  BY <1>4 DEF GetKernel, LoadKernelFailed, ReturnExclusive
<1>5. ASSUME NEW t \in Threads, AssembleFallback(t) PROVE SettledInv'
  BY <1>5 DEF AssembleFallback, ReturnExclusive
<1>6. ASSUME NEW t \in Threads, PublishHostModule(t) PROVE SettledInv'
  BY <1>6 DEF PublishHostModule, ReturnExclusive
<1>7. ASSUME NEW t \in Threads, UnloadRuntimeState(t) PROVE SettledInv'
  BY <1>7 DEF UnloadRuntimeState, CanLockExclusive
<1>8. ASSUME NEW t \in Threads, UnloadLibrary(t) PROVE SettledInv'
  BY <1>8 DEF UnloadLibrary, ReturnExclusive
<1>9. ASSUME NEW t \in Threads, Launch(t) PROVE SettledInv'
  BY <1>9 DEF Launch, CanLockShared
<1>10. ASSUME NEW t \in Threads, CheckKernel(t) PROVE SettledInv'
  BY <1>10 DEF CheckKernel, ReturnShared
<1>11. ASSUME NEW t \in Threads, PackArgs(t) PROVE SettledInv'
  BY <1>11 DEF PackArgs, ReturnShared
<1>12. ASSUME NEW t \in Threads, DriverLaunch(t) PROVE SettledInv'
  BY <1>12 DEF DriverLaunch, ReturnShared
<1>13. CASE UNCHANGED vars
  BY <1>13 DEF vars
<1> HIDE DEF SettledInv
<1>14. QED
  BY <1>1, <1>2, <1>3, <1>4, <1>5, <1>6, <1>7, <1>8, <1>9, <1>10, <1>11, <1>12, <1>13
     DEF Next, Continue

LEMMA LaunchInvStep ==
  ASSUME TypeOK, LockInv, LaunchInv, [Next]_vars PROVE LaunchInv'
<1> USE NullAssumption, ArtifactAssumption DEF ArtifactType, TypeOK, LockInv, LaunchInv, WriterPcs, ReaderPcs,
          kernelVars, driverVars, lockVars, Goto
<1>1. ASSUME NEW t \in Threads, InitializeRuntimeState(t) PROVE LaunchInv'
  BY <1>1 DEF InitializeRuntimeState, CanLockExclusive, ActiveDeviceCode
<1>2. ASSUME NEW t \in Threads, LoadHostModule(t) PROVE LaunchInv'
  BY <1>2 DEF LoadHostModule, ReturnExclusive
<1>3. ASSUME NEW t \in Threads, LoadLibrary(t) PROVE LaunchInv'
  BY <1>3 DEF LoadLibrary, LoadKernelFailed, ReturnExclusive
<1>4. ASSUME NEW t \in Threads, GetKernel(t) PROVE LaunchInv'
  BY <1>4 DEF GetKernel, LoadKernelFailed, ReturnExclusive
<1>5. ASSUME NEW t \in Threads, AssembleFallback(t) PROVE LaunchInv'
  BY <1>5 DEF AssembleFallback, ReturnExclusive
<1>6. ASSUME NEW t \in Threads, PublishHostModule(t) PROVE LaunchInv'
  BY <1>6 DEF PublishHostModule, ReturnExclusive
<1>7. ASSUME NEW t \in Threads, UnloadRuntimeState(t) PROVE LaunchInv'
  BY <1>7 DEF UnloadRuntimeState, CanLockExclusive
<1>8. ASSUME NEW t \in Threads, UnloadLibrary(t) PROVE LaunchInv'
  BY <1>8 DEF UnloadLibrary, ReturnExclusive
<1>9. ASSUME NEW t \in Threads, Launch(t) PROVE LaunchInv'
  BY <1>9 DEF Launch, CanLockShared
<1>10. ASSUME NEW t \in Threads, CheckKernel(t) PROVE LaunchInv'
  BY <1>10 DEF CheckKernel, ReturnShared
<1>11. ASSUME NEW t \in Threads, PackArgs(t) PROVE LaunchInv'
  BY <1>11 DEF PackArgs, ReturnShared
<1>12. ASSUME NEW t \in Threads, DriverLaunch(t) PROVE LaunchInv'
  BY <1>12 DEF DriverLaunch, ReturnShared
<1>13. CASE UNCHANGED vars
  BY <1>13 DEF vars
<1> HIDE DEF LaunchInv
<1>14. QED
  BY <1>1, <1>2, <1>3, <1>4, <1>5, <1>6, <1>7, <1>8, <1>9, <1>10, <1>11, <1>12, <1>13
     DEF Next, Continue

LEMMA StepInductive == IInv /\ [Next]_vars => IInv'
  BY TypeOKStep, LockInvStep, LibraryInvStep, LoadingInvStep, SettledInvStep, LaunchInvStep
     DEF IInv

\* Type correctness of the runtime kernel in every reachable state.
THEOREM TypeCorrect == Spec => []TypeOK
<1>1. IInv => TypeOK
  BY DEF IInv
<1>2. QED
  BY InitInductive, StepInductive, <1>1, PTL DEF Spec

\* Who holds stateMutex_ is told by where the threads are, lib_ is the one
\* library that is loaded and not leaked, and every place inside a call implies
\* what the calls before it have left.  The theorems below rest on it.
THEOREM KernelInvariant == Spec => []IInv
  BY InitInductive, StepInductive, PTL DEF Spec

\* A launch in progress always has a loaded library and its host module, for
\* any number of threads that load and unload at the same time.
THEOREM LaunchSafe == Spec => []LaunchUsesLoadedKernel
<1>1. IInv => LaunchUsesLoadedKernel
  BY NullAssumption
     DEF IInv, TypeOK, LockInv, LibraryInv, SettledInv, LaunchInv,
         LaunchUsesLoadedKernel, ReaderPcs, WriterPcs
<1>2. QED
  BY KernelInvariant, <1>1, PTL

\* Outside the exclusive lock a kernel is ready or unloaded and never half of
\* each, whatever failed before, and the driver holds only what it must.
THEOREM NeverHalfLoaded == Spec => []AllOrNothing
<1>1. IInv => AllOrNothing
  BY DEF IInv, LibraryInv, SettledInv, AllOrNothing
<1>2. QED
  BY KernelInvariant, <1>1, PTL

\* No interleaving of initializations loads a kernel twice.
THEOREM SingleLibrary == Spec => []LoadedOnce
<1>1. ASSUME IInv PROVE LoadedOnce
  <2>1. loaded \ leaked \subseteq {lib}
    BY <1>1 DEF IInv, LibraryInv
  <2>2. IsFiniteSet({lib}) /\ Cardinality({lib}) = 1
    BY FS_Singleton
  <2>3. Cardinality(loaded \ leaked) <= Cardinality({lib})
    BY <2>1, <2>2, FS_Subset
  <2>4. QED
    BY <2>2, <2>3 DEF LoadedOnce
<1>2. QED
  BY KernelInvariant, <1>1, PTL

\* Once an assembled cubin has replaced TileIR bytecode it stays.
THEOREM FallbackStays == Spec => FallbackIsFinal
<1>1. IInv /\ [Next]_vars =>
        [/\ fallbackCubin => fallbackCubin'
         /\ (fallbackCubin' /\ ~fallbackCubin) => artifact.tileir /\ kernel = NULL]_vars
  <2> SUFFICES ASSUME IInv, Next
               PROVE  /\ fallbackCubin => fallbackCubin'
                      /\ (fallbackCubin' /\ ~fallbackCubin) => artifact.tileir /\ kernel = NULL
    OBVIOUS
  <2>1. CASE \E t \in Threads : GetKernel(t)
    BY <2>1 DEF GetKernel, IInv, TypeOK, LoadingInv
  <2>2. CASE \A t \in Threads : ~GetKernel(t)
    <3>1. UNCHANGED fallbackCubin
      BY <2>2 DEF Next, Continue, InitializeRuntimeState, LoadHostModule, LoadLibrary,
         AssembleFallback, PublishHostModule, UnloadRuntimeState, UnloadLibrary, Launch,
         CheckKernel, PackArgs, DriverLaunch, kernelVars
    <3>2. QED
      BY <3>1
  <2>3. QED
    BY <2>1, <2>2
<1>2. QED
  BY KernelInvariant, <1>1, PTL DEF Spec, FallbackIsFinal

\* The steps of a call that neither complete a load, undo one, nor begin or
\* end a launch change nothing that a caller of IRuntimeKernel can see.
LEMMA Invisible ==
  ASSUME IInv, NEW t \in Threads,
         \/ InitializeRuntimeState(t) \/ LoadHostModule(t) \/ LoadLibrary(t)
         \/ AssembleFallback(t) \/ UnloadRuntimeState(t) \/ Launch(t)
  PROVE  UNCHANGED <<Ready, Launching>>
<1> USE DEF IInv, TypeOK, Ready, Launching, Goto, kernelVars, lockVars,
            ReturnExclusive, ReaderPcs, WriterPcs
<1>1. CASE InitializeRuntimeState(t)
  BY <1>1 DEF InitializeRuntimeState
<1>2. CASE LoadHostModule(t)
  BY <1>2 DEF LoadHostModule
<1>3. CASE LoadLibrary(t)
  BY <1>3 DEF LoadLibrary, LoadKernelFailed
<1>4. CASE AssembleFallback(t)
  BY <1>4 DEF AssembleFallback
<1>5. CASE UnloadRuntimeState(t)
  BY <1>5 DEF UnloadRuntimeState
<1>6. CASE Launch(t)
  BY <1>6 DEF Launch
<1>7. QED
  BY <1>1, <1>2, <1>3, <1>4, <1>5, <1>6

\* The visible steps: each is a step of the lifecycle or invisible as well.
LEMMA Visible ==
  ASSUME IInv, NEW t \in Threads,
         \/ GetKernel(t) \/ PublishHostModule(t) \/ UnloadLibrary(t)
         \/ CheckKernel(t) \/ PackArgs(t) \/ DriverLaunch(t)
  PROVE  [Lifecycle!Next]_(Lifecycle!vars)
<1> USE NullAssumption DEF IInv, TypeOK, LockInv, Ready, Launching, Goto, kernelVars,
            lockVars, ReaderPcs, WriterPcs, Lifecycle!vars
<1>1. CASE GetKernel(t) \/ PublishHostModule(t)
  <2>1. Launching = {} /\ Launching' = {}
    BY <1>1 DEF GetKernel, PublishHostModule, LoadKernelFailed, ReturnExclusive
  <2>2. CASE GetKernel(t)
    <3>1. ~Ready
      BY <2>2 DEF GetKernel, LoadingInv
    <3>2. QED
      BY <2>1, <3>1 DEF Lifecycle!Next, Lifecycle!Load
  <2>3. CASE PublishHostModule(t)
    <3>1. Ready'
      BY <2>3, ArtifactAssumption
         DEF PublishHostModule, LoadingInv, ArtifactType
    <3>2. QED
      BY <2>1, <3>1 DEF Lifecycle!Next, Lifecycle!Load, Ready
  <2>4. QED
    BY <1>1, <2>2, <2>3
<1>2. CASE UnloadLibrary(t)
  <2>1. Launching = {} /\ Launching' = {}
    BY <1>2 DEF UnloadLibrary, ReturnExclusive
  <2>2. Ready' = Ready \/ (Ready /\ ~Ready')
    BY <1>2 DEF UnloadLibrary, SettledInv
  <2>3. QED
    BY <2>1, <2>2 DEF Lifecycle!Next, Lifecycle!Unload
<1>3. CASE CheckKernel(t)
  <2>1. Ready' = Ready
    BY <1>3 DEF CheckKernel
  <2>2. CASE kernel = NULL
    BY <2>1, <2>2, <1>3 DEF CheckKernel, ReturnShared
  <2>3. CASE kernel # NULL
    <3>1. Ready
      BY <1>3, <2>3 DEF CheckKernel, SettledInv
    <3>2. Launching' = Launching \cup {t} /\ t \notin Launching
      BY <1>3, <2>3 DEF CheckKernel
    <3>3. QED
      BY <2>1, <3>1, <3>2 DEF Lifecycle!Next, Lifecycle!BeginLaunch
  <2>4. QED
    BY <2>2, <2>3
<1>4. CASE PackArgs(t) \/ DriverLaunch(t)
  <2>1. Ready' = Ready /\ t \in Launching
    BY <1>4 DEF PackArgs, DriverLaunch
  <2>2. Launching' = Launching \/ Launching' = Launching \ {t}
    BY <1>4 DEF PackArgs, DriverLaunch, ReturnShared
  <2>3. QED
    BY <2>1, <2>2 DEF Lifecycle!Next, Lifecycle!EndLaunch
<1>5. QED
  BY <1>1, <1>2, <1>3, <1>4

\* What a call reports is true of the kernel it leaves: a successful
\* initialization leaves it ready, a failed one unloaded, and an unload reports
\* success exactly when nothing is loaded.
THEOREM ReportsAreTrue == Spec => StatusTellsState
<1> DEFINE Reported(t) ==
      /\ (pc[t] = "publish_host" /\ pc'[t] = "idle" /\ status'[t] = "ok") => kernel' # NULL
      /\ (pc[t] = "unload" /\ pc'[t] = "idle") =>
           ((status'[t] = "ok") <=> (kernel' = NULL /\ lib' = NULL /\ ~hostModule'))
      /\ (pc[t] \in WriterPcs \ {"unload"} /\ pc'[t] = "idle" /\ status'[t] = "error") =>
           kernel' = NULL /\ lib' = NULL
<1>1. IInv /\ [Next]_vars => [\A t \in Threads : Reported(t)]_vars
  <2> SUFFICES ASSUME IInv, Next, NEW t \in Threads PROVE Reported(t)
    OBVIOUS
  <2>1. PICK u \in Threads : InitializeRuntimeState(u) \/ UnloadRuntimeState(u) \/ Launch(u) \/ Continue(u)
    BY DEF Next
  <2>2. CASE u # t
    <3>1. pc'[t] = pc[t]
      BY <2>1, <2>2 DEF IInv, TypeOK, Continue, InitializeRuntimeState, LoadHostModule, LoadLibrary,
         GetKernel, AssembleFallback, PublishHostModule, UnloadRuntimeState, UnloadLibrary,
         Launch, CheckKernel, PackArgs, DriverLaunch, LoadKernelFailed, ReturnExclusive,
         ReturnShared, Goto
    <3>2. QED
      BY <3>1 DEF WriterPcs
  <2>3. CASE u = t
    <3>1. CASE InitializeRuntimeState(t) \/ UnloadRuntimeState(t) \/ Launch(t)
      BY <3>1 DEF InitializeRuntimeState, UnloadRuntimeState, Launch, WriterPcs
    <3>2. CASE LoadHostModule(t)
      BY <3>2 DEF LoadHostModule, IInv, LoadingInv, ReturnExclusive, kernelVars, WriterPcs
    <3>3. CASE LoadLibrary(t)
      BY <3>3 DEF LoadLibrary, LoadKernelFailed, Goto, IInv, TypeOK, LoadingInv, ReturnExclusive, kernelVars, WriterPcs
    <3>4. CASE GetKernel(t)
      BY <3>4 DEF GetKernel, LoadKernelFailed, Goto, IInv, TypeOK, LoadingInv, ReturnExclusive, kernelVars, WriterPcs
    <3>5. CASE AssembleFallback(t)
      BY <3>5 DEF AssembleFallback, Goto, IInv, TypeOK, LoadingInv, ReturnExclusive, kernelVars, WriterPcs
    <3>6. CASE PublishHostModule(t)
      BY <3>6 DEF PublishHostModule, IInv, TypeOK, LoadingInv, ReturnExclusive, WriterPcs
    <3>7. CASE UnloadLibrary(t)
      BY <3>7 DEF UnloadLibrary, IInv, TypeOK, SettledInv, ReturnExclusive, kernelVars, WriterPcs
    <3>8. CASE CheckKernel(t) \/ PackArgs(t) \/ DriverLaunch(t)
      BY <3>8 DEF CheckKernel, PackArgs, DriverLaunch, WriterPcs
    <3>9. QED
      BY <2>1, <2>3, <3>1, <3>2, <3>3, <3>4, <3>5, <3>6, <3>7, <3>8 DEF Continue
  <2>4. QED
    BY <2>2, <2>3
<1>2. QED
  BY KernelInvariant, <1>1, PTL DEF Spec, StatusTellsState

\* CudaTileRuntimeKernel keeps the promise of IRuntimeKernel: to its callers
\* every load and unload is atomic and every launch runs on a ready kernel.
THEOREM KernelImplementsLifecycle == Spec => ImplementsLifecycle
<1>1. Init => Lifecycle!Init
  BY DEF Init, Lifecycle!Init, Ready, Launching
<1>2. IInv /\ [Next]_vars => [Lifecycle!Next]_(Lifecycle!vars)
  <2> SUFFICES ASSUME IInv, [Next]_vars
               PROVE  [Lifecycle!Next]_(Lifecycle!vars)
    OBVIOUS
  <2>1. CASE UNCHANGED vars
    BY <2>1 DEF vars, kernelVars, Lifecycle!vars, Ready, Launching
  <2>2. CASE Next
    BY <2>2, Invisible, Visible DEF Next, Continue, Lifecycle!vars
  <2>3. QED
    BY <2>1, <2>2
<1>3. QED
  BY <1>1, <1>2, KernelInvariant, PTL DEF Spec, ImplementsLifecycle, Lifecycle!Spec
=============================================================================
