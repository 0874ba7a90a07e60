SPECIFICATION Spec
CONSTANTS
  Threads = {t1, t2}
  Callers = {c1}
  Worker = Worker
  EventsPerThread = 1
  RingBufferBytes = 1
  EventSize = 1
SYMMETRY Symmetry
INVARIANTS
  DrainReachesRecorded
