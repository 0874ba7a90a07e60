SPECIFICATION Spec
CONSTANTS
  First = h1
  Handles = {h1, h2}
  Worker = Worker
  NoOne = NoOne
INVARIANTS
  LastDropStopsWorker
