SPECIFICATION FairSpec
CONSTANTS
  t1 = t1
  t2 = t2
  Threads = {t1, t2}
  Evictors = {t1}
  Addrs = {0, 1}
  WriteLockState = 3
  SpinRetries = 3
INVARIANT TypeOK
PROPERTY CallsReturn
