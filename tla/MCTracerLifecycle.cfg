SPECIFICATION FairSpec
CONSTANTS
  Handles = {h1, h2, h3}
  First = h1
  Worker = Worker
  NoOne = NoOne
INVARIANTS
  TypeOK
  StopMeansUnused
  NoLostShutdown
  WorkerNeverLastOwner
PROPERTIES
  FlushServed
  ShutdownCompletes
