SPECIFICATION Spec
CONSTANTS
  t1 = t1
  t2 = t2
  t3 = t3
  Threads = {t1, t2, t3}
  Evictors = {}
  Addrs = {0, 1}
  WriteLockState = 3
  SpinRetries = 3
SYMMETRY Symmetry
INVARIANTS
  Exclusion
  LockStateCounts
  GuardNodeFresh
  DowngradeLosesOnlyPending
PROPERTY LockRefined
