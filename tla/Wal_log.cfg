SPECIFICATION Spec
CONSTANTS
  p1 = p1
  p2 = p2
  TxnMeta = TxnMeta
  Pages = {p1, p2}
  Sizes = {10, 30}
  MANIFEST_LEN = 32
  GROUP_HEADER_LEN = 13
  MaxAppends = 4
SYMMETRY Symmetry
INVARIANT TypeOK
INVARIANT AckedRecoverable
INVARIANT FileFollowsMemory
INVARIANT StatsAgree
INVARIANT CandidateShrinksLog
INVARIANT ManifestRepaired
