SPECIFICATION FairSpec
CONSTANTS
  t1 = t1
  p1 = p1
  p2 = p2
  p3 = p3
  p4 = p4
  p5 = p5
  p6 = p6
  None = None
  Leaf = Leaf
  Free = Free
  Threads = {t1}
  Pages = {p1, p2, p3, p4, p5, p6}
  Stored = {p1, p2, p3}
  buff_size = 4
  SpinRetries = 2
  MaxCalls = 7
  MaxLocks = 0
INVARIANT TypeOK
PROPERTY CallsReturn
