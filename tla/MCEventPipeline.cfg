SPECIFICATION FairSpec
CONSTANTS
  Threads = {t1}
  Callers = {c1}
  Worker = Worker
  EventsPerThread = 3
  RingBufferBytes = 2
  EventSize = 1
INVARIANTS
  TypeOK
  OnePlace
  DropsAccounted
  FlushNotForgotten
  ResetForgets
  OrderKept
PROPERTIES
  ImplementsLedger
  EventuallyAggregated
