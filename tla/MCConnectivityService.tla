------------------------ MODULE MCConnectivityService ------------------------
(* ConnectivityService for TLC: two thread identities, so that a restart    *)
(* can meet a thread left over from the previous run.  Its runs check       *)
(* liveness, so the threads are not made symmetric.                         *)
EXTENDS ConnectivityService
=============================================================================
