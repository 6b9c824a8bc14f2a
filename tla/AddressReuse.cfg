SPECIFICATION FairSpec
CONSTANTS
  c1 = c1
  h1 = h1
  o1 = o1
  o2 = o2
  t1 = t1
  NULL = NULL
  DataObjects = {o1, o2}
  WeakObjects = {}
  Handles = {h1}
  Cells = {c1}
  Threads = {t1}
  CasThreads = {}
  BorrowThreads = {t1}
  ShardCount = 1
  SlotCount = 1
  MaxNegative = 1
  MaxInner = 1
  UsesSwap = TRUE
  UsesNesting = FALSE
INVARIANTS
  NoDangling
PROPERTIES
  ImplementsOwnership
  GarbageIsFreed
  IterationEnds
