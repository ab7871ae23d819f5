------------------------ MODULE ConnectivityServiceInv ------------------------
(***************************************************************************)
(* The inductive invariant of ConnectivityService.  The safety properties  *)
(* are not inductive: that stop() leaves the transport down, say, depends  *)
(* on which control steps own a live thread, and that a sample is only     *)
(* produced in a healthy state depends on what a failed refresh or dial    *)
(* leaves behind for the next round of the loop.                           *)
(***************************************************************************)
EXTENDS ConnectivityService

(* The control steps during which worker_ is joinable.                     *)
HoldsWorker ==
  cpc \in {"spawned", "requestStop", "join", "closing"} \/ (cpc = "idle" /\ running)

(* The control steps during which the thread has not been told to stop.    *)
Working == cpc \in {"spawned", "requestStop"} \/ (cpc = "idle" /\ running)

Ownership ==
  /\ \A w \in Workers : Live(w) => worker = w
  /\ IF HoldsWorker THEN worker \in Workers ELSE worker = NoThread
  /\ Working => Live(worker) /\ ~stopReq[worker]
  /\ \A w \in Workers : wpc[w] = "exit" => stopReq[w]

Flags ==
  /\ cpc \in StartPcs => running
  /\ cpc \in StopPcs => ~running
  /\ cpc = "idle" => (running <=> reply = "startTrue")

(* Without a live worker the transport is up only between connect() and    *)
(* the creation of the thread.                                             *)
LinkInv ==
  /\ NoLiveWorker /\ cpc \notin {"connected", "spawn"} => ~up
  /\ \A w \in Workers : wpc[w] \in {"dial", "dialFailed"} => ~up

(* Only a granted authenticate() leaves a token behind.                    *)
AuthInv ==
  /\ token # "none" => lastAuth = "granted"
  /\ \A w \in Workers :
       wpc[w] \in PublishPcs \cup {"nonEmpty", "refreshed", "link", "linkDown",
                                   "hangUp", "dial", "dialled"}
         => lastAuth = "granted"
  /\ \A w \in Workers : wpc[w] = "refreshFailed" => token # "valid"

Healthy == state \in {"Connected", "Publishing"}

(* An unhealthy state survives a round of the loop only together with what *)
(* makes the next round repair it: a token that is not valid, a link down. *)
HealthInv ==
  /\ cpc = "spawn" => state = "Connected"
  /\ \A w \in Workers :
       /\ wpc[w] \in PublishPcs => Healthy
       /\ wpc[w] = "link" => Healthy \/ ~up
       /\ wpc[w] \in {"check", "token"} => Healthy \/ ~up \/ token # "valid"

StoppedInv ==
  state = "Stopped" => NoLiveWorker /\ ~up /\ cpc \in {"idle", "starting", "destroyed"}

LateInv ==
  \A w \in Workers :
    late[w] = 0 \/ (late[w] = 1 /\ stopReq[w]
                    /\ wpc[w] \in {"send", "enqueue", "check", "exit", "exited"})

(* The inductive invariant: who owns a live thread, what the flags say of   *)
(* it, and what each point of the loop leaves behind for the next round.   *)
IInv == TypeOK /\ Ownership /\ Flags /\ LinkInv /\ AuthInv /\ HealthInv /\ StoppedInv /\ LateInv
===============================================================================
