------------------------------ MODULE MqttClient ------------------------------
(***************************************************************************)
(* MqttClient over its default backend PahoMqttBackend, used by several    *)
(* threads.  MqttClient's mutex_ is held over every backend call, so the   *)
(* backend's own mutex is never contended and is left out; reconnect() is  *)
(* two critical sections.                                                  *)
(*                                                                         *)
(* The Paho client behind client_ and the broker are the environment.  The *)
(* backend waits at most kMqttOperationTimeoutSec for them, so a dial or a *)
(* hang-up may complete after the call that began it.  A Paho client that  *)
(* is not connected answers disconnect() with an exception.                *)
(***************************************************************************)
EXTENDS Naturals

CONSTANTS
  Threads,    \* the threads that share the client
  NoThread,   \* nobody holds mutex_
  MaxLosses   \* bound on the connections the network loses

ASSUME ConstantsAssumption == NoThread \notin Threads /\ MaxLosses \in Nat

VARIABLES
  connected,    \* MqttClient::connected_, what isConnected() returns
  bconnected,   \* PahoMqttBackend::connected_
  session,      \* client_: none (null), idle, dialing, live or closing
  mutex,        \* the holder of MqttClient::mutex_
  pc,           \* where each thread is in the call it makes
  again,        \* the call is reconnect() and still has to connect
  losses,       \* connections lost so far
  published,    \* history: what the last publish() returned, none at first
  quiet         \* history: a disconnect() succeeded and nobody dialled since

vars == <<connected, bconnected, session, mutex, pc, again, losses, published, quiet>>

LockedPcs == {"connect", "dialWait", "hangUp", "closeWait", "publishWait"}

Init ==
  /\ connected = FALSE /\ bconnected = FALSE /\ session = "none"
  /\ mutex = NoThread /\ pc = [t \in Threads |-> "idle"]
  /\ again = [t \in Threads |-> FALSE]
  /\ losses = 0 /\ published = "none" /\ quiet = TRUE

Lock(t, from, to) ==
  /\ mutex = NoThread /\ mutex' = t
  /\ pc[t] = from /\ pc' = [pc EXCEPT ![t] = to]

Unlock(t, from, to) ==
  /\ mutex' = NoThread
  /\ pc[t] = from /\ pc' = [pc EXCEPT ![t] = to]

-----------------------------------------------------------------------------
(* connect(), and the second half of reconnect().                          *)
ConnectCall_NoLock(t) ==
  /\ pc[t] \in {"idle", "redial"} /\ pc' = [pc EXCEPT ![t] = "connect"]
  /\ again' = [again EXCEPT ![t] = FALSE]
  /\ UNCHANGED <<connected, bconnected, session, mutex, losses, published, quiet>>

ConnectCall(t) ==
  /\ Lock(t, "idle", "connect") \/ Lock(t, "redial", "connect")
  /\ again' = [again EXCEPT ![t] = FALSE]
  /\ UNCHANGED <<connected, bconnected, session, losses, published, quiet>>

ConnectReturns(t, from, up) ==
  /\ Unlock(t, from, "idle") /\ connected' = up /\ bconnected' = up
  /\ UNCHANGED <<again, losses, published>>

AlreadyConnected(t) ==
  /\ connected \/ bconnected
  /\ ConnectReturns(t, "connect", TRUE)
  /\ UNCHANGED <<session, quiet>>

Dial(t) ==
  /\ ~connected /\ ~bconnected
  /\ pc[t] = "connect" /\ pc' = [pc EXCEPT ![t] = "dialWait"]
  /\ session' = "dialing" /\ quiet' = FALSE
  /\ UNCHANGED <<connected, bconnected, mutex, again, losses, published>>

(* Building the Paho client throws, or starting the connection does.       *)
DialThrows(t) ==
  /\ ~connected /\ ~bconnected
  /\ ConnectReturns(t, "connect", FALSE)
  /\ session' \in {session, "idle"} /\ UNCHANGED quiet

(* wait_for() is over, answered or not: the backend looks at the client.   *)
DialWaited_NoTimeout(t) ==
  /\ session # "dialing"
  /\ ConnectReturns(t, "dialWait", session = "live") /\ UNCHANGED <<session, quiet>>

DialWaited_TrustsToken(t) ==
  ConnectReturns(t, "dialWait", TRUE) /\ UNCHANGED <<session, quiet>>

DialWaited(t) ==
  ConnectReturns(t, "dialWait", session = "live") /\ UNCHANGED <<session, quiet>>

-----------------------------------------------------------------------------
(* disconnect(), and the first half of reconnect().                        *)
HangUpCall(t, reconnecting) ==
  /\ Lock(t, "idle", "hangUp") /\ connected' = FALSE
  /\ again' = [again EXCEPT ![t] = reconnecting]
  /\ UNCHANGED <<bconnected, session, losses, published, quiet>>

DisconnectCall(t) == HangUpCall(t, FALSE)
ReconnectCall(t)  == HangUpCall(t, TRUE)

(* reconnect() goes on to connect() only when disconnect() returned true.  *)
DisconnectReturns_TracksResult(t, from, ok) ==
  /\ Unlock(t, from, IF again[t] /\ ok THEN "redial" ELSE "idle")
  /\ again' = [again EXCEPT ![t] = @ /\ ok]
  /\ connected' = ~ok /\ bconnected' = FALSE /\ quiet' = (quiet \/ ok)
  /\ UNCHANGED <<losses, published>>

DisconnectReturns(t, from, ok) ==
  /\ Unlock(t, from, IF again[t] /\ ok THEN "redial" ELSE "idle")
  /\ again' = [again EXCEPT ![t] = @ /\ ok]
  /\ bconnected' = FALSE /\ quiet' = (quiet \/ ok)
  /\ UNCHANGED <<connected, losses, published>>

NothingToHangUp(t) ==
  session = "none" /\ DisconnectReturns(t, "hangUp", TRUE) /\ UNCHANGED session

HangUp(t) ==
  /\ session \in {"live", "closing"} /\ session' = "closing"
  /\ pc[t] = "hangUp" /\ pc' = [pc EXCEPT ![t] = "closeWait"]
  /\ UNCHANGED <<connected, bconnected, mutex, again, losses, published, quiet>>

HangUpThrows_CountsAsDone(t) ==
  /\ session \in {"idle", "dialing", "closing"}
  /\ DisconnectReturns(t, "hangUp", TRUE) /\ UNCHANGED session

HangUpThrows(t) ==
  /\ session \in {"idle", "dialing", "closing"}
  /\ DisconnectReturns(t, "hangUp", FALSE) /\ UNCHANGED session

HangUpWaited(t) ==
  \E ok \in BOOLEAN : DisconnectReturns(t, "closeWait", ok) /\ UNCHANGED session

-----------------------------------------------------------------------------
(* publish(), and subscribe() alike: false at once when a flag is not set  *)
(* or Paho throws, as it does when the session is no longer live.          *)
PublishFails(t) ==
  /\ mutex = NoThread /\ pc[t] = "idle" /\ published' = "false"
  /\ UNCHANGED <<connected, bconnected, session, mutex, pc, again, losses, quiet>>

PublishCall(t) ==
  /\ connected /\ bconnected /\ session = "live" /\ Lock(t, "idle", "publishWait")
  /\ UNCHANGED <<connected, bconnected, session, again, losses, published, quiet>>

(* wait_for() is over, and the return code says the one or the other.      *)
PublishWaited(t) ==
  /\ Unlock(t, "publishWait", "idle") /\ published' \in {"true", "false"}
  /\ UNCHANGED <<connected, bconnected, session, again, losses, quiet>>

Publish(t) == PublishFails(t) \/ PublishCall(t)

-----------------------------------------------------------------------------
(* The Paho client and the broker.                                         *)
Network(from, to) ==
  /\ session = from /\ session' = to
  /\ UNCHANGED <<connected, bconnected, mutex, pc, again, published, quiet>>

DialCompletes == Network("dialing", "live") /\ UNCHANGED losses
DialRefused   == Network("dialing", "idle") /\ losses < MaxLosses /\ losses' = losses + 1
LinkLost      == Network("live", "idle") /\ losses < MaxLosses /\ losses' = losses + 1
CloseCompletes == Network("closing", "idle") /\ UNCHANGED losses

-----------------------------------------------------------------------------
Call(t) == ConnectCall(t) \/ DisconnectCall(t) \/ ReconnectCall(t) \/ Publish(t)

BackendStep(t) ==
  \/ AlreadyConnected(t) \/ Dial(t) \/ DialThrows(t) \/ DialWaited(t)
  \/ NothingToHangUp(t) \/ HangUp(t) \/ HangUpThrows(t) \/ HangUpWaited(t)
  \/ PublishWaited(t)

NetworkStep == DialCompletes \/ DialRefused \/ LinkLost \/ CloseCompletes

Next == NetworkStep \/ \E t \in Threads : Call(t) \/ BackendStep(t)

Spec == Init /\ [][Next]_vars

(* Threads are scheduled; of Paho and the broker nothing is assumed.       *)
LiveSpec == Spec /\ \A t \in Threads : WF_vars(BackendStep(t))

(* In addition the application goes on publishing.                         *)
PublishingSpec == LiveSpec /\ \A t \in Threads : WF_vars(Publish(t))

(* Or it goes on calling reconnect(), every lock is granted, and the broker *)
(* accepts within the timeout a client that dials often enough.            *)
ReconnectingSpec ==
  /\ LiveSpec
  /\ \A t \in Threads : SF_vars(ReconnectCall(t)) /\ SF_vars(ConnectCall(t) /\ pc[t] = "redial")
                         /\ SF_vars(Dial(t)) /\ SF_vars(DialWaited(t) /\ session = "live")
  /\ SF_vars(DialCompletes)

-----------------------------------------------------------------------------
(* Properties.                                                             *)

(* The variables keep their types, and mutex_ is held by the one thread     *)
(* that is inside a critical section.                                      *)
TypeOK ==
  /\ connected \in BOOLEAN /\ bconnected \in BOOLEAN /\ quiet \in BOOLEAN
  /\ session \in {"none", "idle", "dialing", "live", "closing"}
  /\ mutex \in Threads \cup {NoThread} /\ losses \in 0..MaxLosses
  /\ pc \in [Threads -> {"idle", "redial"} \cup LockedPcs]
  /\ again \in [Threads -> BOOLEAN] /\ published \in {"none", "true", "false"}
  /\ \A t \in Threads : pc[t] \in LockedPcs <=> mutex = t

(* Two flags, one truth: whenever mutex_ is free, the client and its        *)
(* backend agree on being connected, also after calls that failed halfway. *)
LayersAgree == mutex = NoThread => connected = bconnected

(* isConnected() is true only of a session that was established, never of   *)
(* a dial still open, one being hung up, or no client at all.              *)
ConnectedHasSession == connected => session \in {"live", "idle"}

(* After disconnect() = true no session comes to life before someone dials  *)
(* again: a dial that had timed out cannot complete behind its back.       *)
QuietAfterDisconnect == quiet => session \notin {"live", "dialing"}

(* Whoever holds mutex_ gives it up, though the broker never answers a     *)
(* dial, a hang-up or a publish.                                           *)
LockReleased == mutex # NoThread ~> mutex = NoThread

(* "connection state monitoring": once the link is lost, isConnected()      *)
(* says so at some later time, the application publishing all the while.   *)
LostLinkNoticed == (connected /\ session = "idle") ~> (~connected \/ session = "live")

(* "reconnect behavior": after the link is lost, or was closed, a client    *)
(* that is told to reconnect often enough gets a session.                  *)
ReconnectRecovers == session = "idle" ~> session = "live"
=============================================================================
