SPECIFICATION Spec
CONSTANTS
  c1 = c1
  h1 = h1
  h2 = h2
  h3 = h3
  o1 = o1
  t1 = t1
  t2 = t2
  NULL = NULL
  DataObjects = {o1}
  WeakObjects = {}
  Handles = {h1, h2, h3}
  Cells = {c1}
  Threads = {t1, t2}
  CasThreads = {t1}
  BorrowThreads = {}
  ShardCount = 2
  SlotCount = 1
  MaxNegative = 1
  MaxInner = 0
  UsesSwap = FALSE
  UsesNesting = FALSE
SYMMETRY Symmetry
INVARIANTS
  NoDangling
  TypeOK
  RecheckSumNotNegative
PROPERTY
  ImplementsOwnership
