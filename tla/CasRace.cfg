SPECIFICATION Spec
CONSTANTS
  c1 = c1
  h1 = h1
  h2 = h2
  h3 = h3
  h4 = h4
  o1 = o1
  t1 = t1
  NULL = NULL
  DataObjects = {o1}
  WeakObjects = {}
  Handles = {h1, h2, h3, h4}
  Cells = {c1}
  Threads = {t1}
  CasThreads = {t1}
  BorrowThreads = {}
  ShardCount = 1
  SlotCount = 1
  MaxNegative = 1
  MaxInner = 0
  UsesSwap = TRUE
  UsesNesting = FALSE
SYMMETRY Symmetry
INVARIANT
  CasTargetIsLive
