SPECIFICATION Spec
CONSTANTS
  t1 = t1
  t2 = t2
  NULL = NULL
  Threads = {t1, t2}
  MaxEntries = 4
SYMMETRY Symmetry
INVARIANT
  RegistryStaysSmall
