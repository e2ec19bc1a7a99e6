SPECIFICATION Spec
CONSTANTS
  PageBytes = 80
  KVMetaBytes = 8
  Puts <- MCPuts
  MaxWrites = 4
  None = None
  Mini = Mini
  Unused = Unused
  Dead = Dead
  Unknown = Unknown
INVARIANT TypeOK
INVARIANT Slotted
INVARIANT SortedInFences
INVARIANT ReadBack
INVARIANT SplitOnlyWhenFull
CHECK_DEADLOCK FALSE
