SPECIFICATION HistorySpec
CONSTANTS
  h1 = h1
  h2 = h2
  o1 = o1
  t1 = t1
  w1 = w1
  NULL = NULL
  DataObjects = {o1}
  WeakObjects = {w1}
  Handles = {h1, h2}
  Cells = {}
  Threads = {t1}
  CasThreads = {}
  BorrowThreads = {}
  ShardCount = 2
  SlotCount = 1
  MaxNegative = 0
  MaxInner = 1
  UsesSwap = TRUE
  UsesNesting = TRUE
SYMMETRY Symmetry
INVARIANTS
  UpgradeFailsOnlyAfterZero
  TrackedExactlyOnce
  NoDangling
