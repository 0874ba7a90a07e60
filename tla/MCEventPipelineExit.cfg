SPECIFICATION Spec
CONSTANTS
  Threads = {t1}
  Callers = {c1}
  Worker = Worker
  EventsPerThread = 1
  RingBufferBytes = 1
  EventSize = 1
INVARIANTS
  NeverLost
