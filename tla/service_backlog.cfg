SPECIFICATION RecoverySpec
CONSTANTS
  Workers = {w1, w2}
  NoThread = NoThread
  MaxFaults = 1
  MaxBacklog = 1
PROPERTY BacklogDrains
CHECK_DEADLOCK FALSE
