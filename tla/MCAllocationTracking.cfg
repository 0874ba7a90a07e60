SPECIFICATION Spec
CONSTANTS
  Threads = {t1, t2}
  Addresses = {a1, a2}
  Sizes = {1, 2}
  Stacks = {s1}
  Nowhere = Nowhere
  Budget = 6
  MaxDropped = 2
CHECK_DEADLOCK FALSE
CONSTRAINT Interesting
SYMMETRY Symmetry
INVARIANTS
  TypeOK
  NoDangling
  BytesExact
  TrackingComplete
  SizesAgree
  DropsAreStrangers
