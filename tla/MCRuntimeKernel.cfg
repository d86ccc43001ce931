SPECIFICATION FairSpec
CONSTANTS
  Threads = {t1, t2, t3}
  Handles = {h1, h2}
  NULL = NULL
  Artifacts <- MCArtifacts
INVARIANTS LaunchUsesLoadedKernel AllOrNothing LoadedOnce IInv
PROPERTIES ImplementsLifecycle FallbackIsFinal StatusTellsState CallsReturn
