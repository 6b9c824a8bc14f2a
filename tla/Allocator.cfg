SPECIFICATION AllocSpec
CONSTANTS
  b1 = b1
  b2 = b2
  b3 = b3
  u1 = u1
  u2 = u2
  NULL = NULL
  Units = {u1, u2}
  Boxes = {b1, b2, b3}
  ShardCount = 2
  SlotCount = 2
SYMMETRY Symmetry
INVARIANTS
  AllocTypeOK
  SlotsAreExclusive
  ValuesAreDroppedOnce
  UnitsAreAccountedFor
  IndexesAreValid
  ReportIsExact
