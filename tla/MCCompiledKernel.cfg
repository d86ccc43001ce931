SPECIFICATION Spec
CONSTANTS
  t1 = t1
  t2 = t2
  t3 = t3
  k1 = k1
  k2 = k2
  w1 = w1
  w2 = w2
  w3 = w3
  w4 = w4
  w5 = w5
  r1 = r1
  r2 = r2
  r3 = r3
  r4 = r4
  NULL = NULL
  Threads = {t1, t2, t3}
  Kernels = {k1}
  Wrappers = {w1, w2, w3, w4}
  Runtimes = {r1, r2, r3, r4}
  Requests <- MCOneRequest
SYMMETRY ThreadSymmetry
CHECK_DEADLOCK FALSE
INVARIANTS
  LaunchUsesOwnKernel
PROPERTY OnlyUsersDestroy
