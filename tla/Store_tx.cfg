SPECIFICATION Spec
CONSTANTS
  t1 = t1
  t2 = t2
  k1 = k1
  k2 = k2
  v1 = v1
  v2 = v2
  None = None
  WriteLockState = 4
  Threads = {t1, t2}
  Keys = {k1, k2}
  Vals = {v1, v2}
  LeafThreshold = 5
  GlobalThreshold = 7
  MaxTxns = 2
  MaxWrites = 2
  MaxRestarts = 1
SYMMETRY Symmetry
CHECK_DEADLOCK FALSE
PROPERTY AbortRestoresUnflushed
INVARIANT TypeOK
INVARIANT LogsAgree
INVARIANT ReplayRecovers
INVARIANT GetIsCurrent
