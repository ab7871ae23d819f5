-------------------------- MODULE MCTelemetryManager --------------------------
(* TelemetryManager for TLC: the service's worker and an application thread. *)
EXTENDS TelemetryManager
===============================================================================
