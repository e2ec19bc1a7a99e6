SPECIFICATION FairSpec
CONSTANTS
  t1 = t1
  t2 = t2
  p1 = p1
  p2 = p2
  p3 = p3
  p4 = p4
  None = None
  Leaf = Leaf
  Free = Free
  Threads = {t1, t2}
  Pages = {p1, p2, p3, p4}
  Stored = {p1, p2}
  buff_size = 4
  SpinRetries = 1
  MaxCalls = 5
  MaxLocks = 1
INVARIANT FirstLapDisjoint
 
PROPERTY CallsReturn
