---------------------------- MODULE MCRemoteCalls ----------------------------
EXTENDS RemoteCalls, TLC

\* Only the stub of the vehicle service keeps its adapter across exports.
OneEachTwoVehicle ==
  {<<"connectivity", 1>>, <<"diagnostics", 1>>, <<"vehicle", 1>>, <<"vehicle", 2>>}

Symmetry == Permutations(Calls)
=============================================================================
