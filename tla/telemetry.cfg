SPECIFICATION Spec
CONSTANTS
  Threads = {worker, app}
  NoThread = NoThread
  MaxSamples = 3
INVARIANTS
  TypeOK
  LostOnlyByFlush
  NoDuplicates
  FlushedInOrder
  FlushTrueDelivered
PROPERTY FlushRunsDown
