SPECIFICATION Spec
CONSTANTS
  t1 = t1
  p1 = p1
  p2 = p2
  p3 = p3
  p4 = p4
  p5 = p5
  None = None
  Leaf = Leaf
  Free = Free
  Threads = {t1}
  Pages = {p1, p2, p3, p4, p5}
  Stored = {p1}
  buff_size = 4
  SpinRetries = 2
  MaxCalls = 7
  MaxLocks = 5
SYMMETRY Symmetry
INVARIANT SplitKeepsIdentity
