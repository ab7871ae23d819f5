SPECIFICATION LiveSpec
CONSTANTS
  Threads = {worker, other}
  NoThread = NoThread
  MaxLosses = 3
INVARIANTS
  TypeOK
  LayersAgree
  ConnectedHasSession
  QuietAfterDisconnect
PROPERTY LockReleased
