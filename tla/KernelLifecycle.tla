--------------------------- MODULE KernelLifecycle ---------------------------
(***************************************************************************)
(* What IRuntimeKernel promises its callers: a kernel is ready or it is    *)
(* not, launches run only on a ready kernel, and a kernel does not stop    *)
(* being ready, nor is it loaded again, under a launch.                    *)
(***************************************************************************)
CONSTANT Threads

VARIABLES
  ready,     \* the kernel can be launched
  launching  \* the threads whose launch is under way

vars == <<ready, launching>>

Init == ready = FALSE /\ launching = {}

\* initializeRuntimeState, to be called before the first launch.
Load ==
  /\ ~ready /\ launching = {}
  /\ ready' = TRUE
  /\ UNCHANGED launching

\* unloadRuntimeState.
Unload ==
  /\ ready /\ launching = {}
  /\ ready' = FALSE
  /\ UNCHANGED launching

\* launch, from its first use of the loaded state to its return.
BeginLaunch(t) ==
  /\ ready /\ t \notin launching
  /\ launching' = launching \cup {t}
  /\ UNCHANGED ready

EndLaunch(t) ==
  /\ t \in launching
  /\ launching' = launching \ {t}
  /\ UNCHANGED ready

Next == Load \/ Unload \/ \E t \in Threads : BeginLaunch(t) \/ EndLaunch(t)

Spec == Init /\ [][Next]_vars
=============================================================================
