SPECIFICATION Spec
CONSTANTS
  t1 = t1
  t2 = t2
  None = None
  Threads = {t1, t2}
  Keys = {0, 1, 2, 3, 4, 5, 6, 7, 8, 9, 10, 11, 12, 13, 14, 15, 16, 17, 18, 19, 20, 22, 23}
  Pages <- MCPages
  InnerCap = 5
  SpinRetries = 1
  MaxPivots = 3
  LeafCap = 2
  MergeMin = 3
  Scenarios <- MCScenarios
  Keep = 1
  LongKeys = {19}
  LowFence = 1
  HighFence = 23
CHECK_DEADLOCK FALSE
INVARIANT VersionLocks
INVARIANT GuardValid
INVARIANT BundlePath
INVARIANT SplitStopsInBundle
 
INVARIANT FencesAgree
INVARIANT ScanExact
PROPERTY TraversalFindsLeaf
PROPERTY TreeSpec
PROPERTY CallsReturn
