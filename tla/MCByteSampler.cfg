SPECIFICATION Spec
CONSTANTS
  Threads = {t1, t2}
  Configs <- SmallConfigs
  Sizes = {0, 1, 3, 5}
  Word = 12
  MaxCalls = 6
INVARIANTS
  PointsOnce
  NoOversampling
  OnlyOverlapLoses
  WrapGrantsNoBurst
  AllUnlessEnabled
PROPERTY EveryCallReturns
CHECK_DEADLOCK FALSE
