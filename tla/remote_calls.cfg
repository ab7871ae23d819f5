SPECIFICATION Spec
CONSTANTS
  Calls = {c1, c2}
  Adapters <- OneEachTwoVehicle
  None = None
SYMMETRY Symmetry
INVARIANTS
  TypeOK
  AnsweredByItsHandler
  FollowsFranca
  SendsThroughLiveAdapter
  NoBroadcastMissed
