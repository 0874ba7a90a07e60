SPECIFICATION Spec
CONSTANTS
  Threads = {t1}
  Tracers = {r1, r2}
  Places = {p1}
  Stacks = {f}
  MaxId = 2
  Named = {}
  CacheLimit = 1
  None = None
INVARIANTS
  Delivered
