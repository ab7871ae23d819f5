SPECIFICATION Spec
CONSTANTS
  Threads = {worker, app}
  NoThread = NoThread
  MaxSamples = 1
INVARIANT NoMessageLost
