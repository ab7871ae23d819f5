----------------------------- MODULE MCMqttClient -----------------------------
(* MqttClient for TLC: the service's worker and another holder of the client. *)
(* Its runs check liveness as well, so the threads are not made symmetric.  *)
EXTENDS MqttClient
===============================================================================
