SPECIFICATION HistorySpec
CONSTANTS
  h1 = h1
  h2 = h2
  o1 = o1
  NULL = NULL
  DataObjects = {o1}
  WeakObjects = {}
  Handles = {h1, h2}
  Cells = {}
  Threads = {}
  CasThreads = {}
  BorrowThreads = {}
  ShardCount = 2
  SlotCount = 1
  MaxNegative = 1
  MaxInner = 2
  UsesSwap = TRUE
  UsesNesting = FALSE
SYMMETRY Symmetry
INVARIANT
  DeepCollectionCompletes
