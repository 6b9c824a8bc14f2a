SPECIFICATION Spec
CONSTANTS
  c1 = c1
  h1 = h1
  h2 = h2
  o1 = o1
  t1 = t1
  t2 = t2
  NULL = NULL
  DataObjects = {o1}
  WeakObjects = {}
  Handles = {h1, h2}
  Cells = {c1}
  Threads = {t1, t2}
  CasThreads = {}
  BorrowThreads = {t1, t2}
  ShardCount = 1
  SlotCount = 1
  MaxNegative = 1
  MaxInner = 0
  UsesSwap = TRUE
  UsesNesting = FALSE
SYMMETRY Symmetry
INVARIANTS
  NoDangling
  ReadersAreSeen
