SPECIFICATION LMSpec
CONSTANTS
  t1 = t1
  t2 = t2
  t3 = t3
  Threads = {t1, t2, t3}
  Evictors = {}
  Addrs = {0, 1}
  WriteLockState = 5
  SpinRetries = 2
SYMMETRY Symmetry
INVARIANTS
  OneWriter
  LowWater
