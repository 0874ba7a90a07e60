SPECIFICATION Spec
CONSTANTS
  Threads = {t1, t2}
  Tracers = {r1, r2}
  Places = {p1, p2}
  Stacks = {f, g}
  MaxId = 2
  Named = {1}
  CacheLimit = 1
  None = None
SYMMETRY Symmetry
INVARIANTS
  TypeOK
  Attribution
  StableId
  DeliveredIfFresh
