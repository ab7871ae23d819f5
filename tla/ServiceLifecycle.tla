--------------------------- MODULE ServiceLifecycle ---------------------------
(***************************************************************************)
(* What ConnectivityService promises its owner, with every detail of       *)
(* authentication, transport and telemetry left out: background activity   *)
(* (a live worker thread) begins only inside a start() that then succeeds, *)
(* never ends by itself, and is over before stop() or the destructor       *)
(* returns.  ConnectivityService.tla implements this specification.        *)
(***************************************************************************)

VARIABLES
  phase,   \* what the owner of the service knows
  active   \* a worker thread is alive

vars == <<phase, active>>

Phases == {"stopped", "starting", "running", "stopping", "closing", "closed"}

TypeOK == phase \in Phases /\ active \in BOOLEAN

Init == phase = "stopped" /\ active = FALSE

Move(from, to) == phase = from /\ phase' = to /\ UNCHANGED active

BeginStart == Move("stopped", "starting")
FailStart  == ~active /\ Move("starting", "stopped")
Launch     == phase = "starting" /\ ~active /\ active' = TRUE /\ UNCHANGED phase
FinishStart == active /\ Move("starting", "running")
BeginStop  == Move("running", "stopping")
WindDown   == phase \in {"stopping", "closing"} /\ active /\ active' = FALSE /\ UNCHANGED phase
FinishStop == ~active /\ Move("stopping", "stopped")
BeginClose == Move("running", "closing") \/ Move("stopped", "closed")
FinishClose == ~active /\ Move("closing", "closed")

Next ==
  \/ BeginStart \/ FailStart \/ Launch \/ FinishStart
  \/ BeginStop \/ WindDown \/ FinishStop
  \/ BeginClose \/ FinishClose

(* Calls that have begun return, and a worker told to stop does stop.      *)
Fairness ==
  /\ WF_vars(FailStart \/ Launch) /\ WF_vars(FinishStart)
  /\ WF_vars(WindDown) /\ WF_vars(FinishStop) /\ WF_vars(FinishClose)

SafeSpec == Init /\ [][Next]_vars
Spec     == SafeSpec /\ Fairness
===============================================================================
