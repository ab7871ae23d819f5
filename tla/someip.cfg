SPECIFICATION ReconnectingSpec
CONSTANTS
  Threads = {worker, other}
  NoThread = NoThread
  Fds = {f1, f2}
  NoFd = NoFd
  MaxOthers = 1
  MaxFrames = 3
  MaxCloses = 2
INVARIANTS
  TypeOK
  DescriptorIsOurs
  SendsToOwnConnection
  FramedUntilFailure
CHECK_DEADLOCK FALSE
PROPERTY ReconnectRecovers
