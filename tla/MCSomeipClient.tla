---------------------------- MODULE MCSomeipClient ----------------------------
(* SomeipClient for TLC: two users of the client, two descriptor numbers, so *)
(* that a closed one is soon given to somebody else.  No symmetry: the runs  *)
(* check liveness as well.                                                 *)
EXTENDS SomeipClient
===============================================================================
