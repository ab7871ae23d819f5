SPECIFICATION LiveSpec
CONSTANTS
  Workers = {w1, w2}
  NoThread = NoThread
  MaxFaults = 3
  MaxBacklog = 1
INVARIANTS
  TypeOK
  ReplyIsHonest
  LiveWorkerIsOwned
  StoppedIsQuiet
  HealthyWhenPublishing
  NoSampleAfterDenial
  AtMostOneLateSample
PROPERTIES
  StoppedIsFinal
  ImplementsLifecycle
  Republishes
\* The destructor ends the service for good.
CHECK_DEADLOCK FALSE
