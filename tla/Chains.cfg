SPECIFICATION FairSpec
CONSTANTS
  h1 = h1
  h2 = h2
  o1 = o1
  t1 = t1
  o2 = o2
  NULL = NULL
  DataObjects = {o1, o2}
  WeakObjects = {o2}
  Handles = {h1, h2}
  Cells = {}
  Threads = {t1}
  CasThreads = {}
  BorrowThreads = {t1}
  ShardCount = 1
  SlotCount = 1
  MaxNegative = 1
  MaxInner = 1
  UsesSwap = TRUE
  UsesNesting = TRUE
INVARIANTS
  RefCountExact
  BackRefClearedAtDrop
  VerdictsAreRight
PROPERTIES
  ImplementsOwnership
  GarbageIsFreed
