SPECIFICATION ReconnectingSpec
CONSTANTS
  Threads = {worker, other}
  NoThread = NoThread
  MaxLosses = 1
PROPERTY ReconnectRecovers
