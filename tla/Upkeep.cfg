SPECIFICATION FairSpec
CONSTANTS
  b1 = b1
  u1 = u1
  u2 = u2
  w1 = w1
  NULL = NULL
  Units = {u1, u2}
  Boxes = {b1}
  Waiters = {w1}
  ShardCount = 2
  SlotCount = 2
INVARIANTS
  ServedByDeepIteration
  MemoryIsReturned
PROPERTY
  CallsReturn
