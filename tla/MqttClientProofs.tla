--------------------------- MODULE MqttClientProofs ---------------------------
(***************************************************************************)
(* The safety properties of MqttClient hold for every set of threads and   *)
(* however often the network loses the connection.                         *)
(*                                                                         *)
(* The properties speak of the moments when mutex_ is free or a flag is    *)
(* set, and a call sets one flag, lets the mutex-protected wait begin and  *)
(* sets the other much later.  IInv says what holds in between.            *)
(***************************************************************************)
EXTENDS MqttClient, TLAPS

(* What the holder of mutex_ may rely on, at each point of its call.       *)
Inside(t) ==
  /\ pc[t] \in {"connect", "publishWait"} => connected = bconnected
  /\ pc[t] = "dialWait" =>
       ~connected /\ ~bconnected /\ ~quiet /\ session \in {"dialing", "live", "idle"}
  /\ pc[t] \in {"hangUp", "closeWait"} => ~connected
  /\ pc[t] = "closeWait" => session \in {"closing", "idle"}

(* The backend's flag lags behind the session only while it hangs up.      *)
BackendHasSession ==
  bconnected /\ (\A t \in Threads : pc[t] # "closeWait") => session \in {"live", "idle"}

(* The inductive invariant.                                                *)
IInv ==
  /\ TypeOK /\ LayersAgree /\ ConnectedHasSession /\ QuietAfterDisconnect
  /\ connected => bconnected
  /\ BackendHasSession
  /\ \A t \in Threads : Inside(t)

USE ConstantsAssumption DEF ConstantsAssumption, LockedPcs

(* The client starts in the invariant.                                     *)
LEMMA InitIInv == Init => IInv
<1> SUFFICES ASSUME Init PROVE IInv
  OBVIOUS
<1>1. TypeOK
  <2>1. again \in [Threads -> BOOLEAN] /\ losses \in 0..MaxLosses
    BY DEF Init
  <2>2. \A t \in Threads : pc[t] = "idle" /\ mutex # t
    BY DEF Init
  <2>. QED BY <2>1, <2>2 DEF Init, TypeOK
<1>2. LayersAgree /\ ConnectedHasSession /\ QuietAfterDisconnect /\ BackendHasSession
  BY DEF Init, LayersAgree, ConnectedHasSession, QuietAfterDisconnect, BackendHasSession
<1>3. (connected => bconnected) /\ \A t \in Threads : Inside(t)
  BY DEF Init, Inside
<1>. QED BY <1>1, <1>2, <1>3 DEF IInv

(* The calls, up to the point where they hold mutex_ or return.            *)
LEMMA CallPreserves ==
  ASSUME IInv, NEW t \in Threads, Call(t) PROVE IInv'
<1> USE DEF IInv, TypeOK, LayersAgree, ConnectedHasSession, QuietAfterDisconnect,
            BackendHasSession, Inside, Lock
<1>1. CASE ConnectCall(t)
  BY <1>1 DEF ConnectCall
<1>2. CASE DisconnectCall(t) \/ ReconnectCall(t)
  <2>1. PICK reconnecting \in BOOLEAN : HangUpCall(t, reconnecting)
    BY <1>2 DEF DisconnectCall, ReconnectCall
  <2>2. again' \in [Threads -> BOOLEAN]
    BY <2>1, Zenon DEF HangUpCall
  <2>. QED BY <2>1, <2>2 DEF HangUpCall
<1>3. CASE Publish(t)
  BY <1>3 DEF Publish, PublishFails, PublishCall
<1>. QED BY <1>1, <1>2, <1>3 DEF Call

(* What the backend does under mutex_.                                     *)
LEMMA BackendPreserves ==
  ASSUME IInv, NEW t \in Threads, BackendStep(t) PROVE IInv'
<1> USE DEF IInv, TypeOK, LayersAgree, ConnectedHasSession, QuietAfterDisconnect,
            BackendHasSession, Inside, Unlock, ConnectReturns, DisconnectReturns
<1>1. CASE AlreadyConnected(t)
  BY <1>1 DEF AlreadyConnected
<1>2. CASE Dial(t)
  BY <1>2 DEF Dial
<1>3. CASE DialThrows(t)
  BY <1>3 DEF DialThrows
<1>4. CASE DialWaited(t)
  BY <1>4 DEF DialWaited
<1>5. CASE NothingToHangUp(t)
  BY <1>5 DEF NothingToHangUp
<1>6. CASE HangUp(t)
  BY <1>6 DEF HangUp
<1>7. CASE HangUpThrows(t)
  BY <1>7 DEF HangUpThrows
<1>8. CASE HangUpWaited(t)
  <2>1. PICK ok \in BOOLEAN : DisconnectReturns(t, "closeWait", ok) /\ UNCHANGED session
    BY <1>8, Zenon DEF HangUpWaited
  <2>2. CASE ok
    BY <2>1, <2>2
  <2>3. CASE ~ok
    BY <2>1, <2>3
  <2>. QED BY <2>2, <2>3
<1>9. CASE PublishWaited(t)
  BY <1>9 DEF PublishWaited
<1>. QED BY <1>1, <1>2, <1>3, <1>4, <1>5, <1>6, <1>7, <1>8, <1>9 DEF BackendStep

(* Paho and the broker: a session ends, or is established late.            *)
LEMMA NetworkPreserves ==
  ASSUME IInv, NetworkStep PROVE IInv'
<1> USE DEF IInv, TypeOK, LayersAgree, ConnectedHasSession, QuietAfterDisconnect,
            BackendHasSession, Inside, Network
<1>1. CASE DialCompletes
  BY <1>1 DEF DialCompletes
<1>2. CASE DialRefused
  BY <1>2 DEF DialRefused
<1>3. CASE LinkLost
  BY <1>3 DEF LinkLost
<1>4. CASE CloseCompletes
  BY <1>4 DEF CloseCompletes
<1>. QED BY <1>1, <1>2, <1>3, <1>4 DEF NetworkStep

(* IInv is an invariant.                                                   *)
THEOREM InvariantHolds == Spec => []IInv
<1>1. IInv /\ [Next]_vars => IInv'
  <2>1. ASSUME IInv, UNCHANGED vars PROVE IInv'
    BY <2>1 DEF IInv, TypeOK, LayersAgree, ConnectedHasSession, QuietAfterDisconnect,
                BackendHasSession, Inside, vars
  <2>. QED BY <2>1, CallPreserves, BackendPreserves, NetworkPreserves DEF Next
<1>. QED BY InitIInv, <1>1, PTL DEF Spec

(* The variables keep their types, and mutex_ is held by the one thread    *)
(* that is inside a critical section.                                      *)
THEOREM TypeCorrect == Spec => []TypeOK
  BY InvariantHolds, PTL DEF IInv

(* Two flags, one truth: whenever mutex_ is free the client and its backend *)
(* agree, whichever calls have failed halfway before.                      *)
THEOREM LayersAlwaysAgree == Spec => []LayersAgree
  BY InvariantHolds, PTL DEF IInv

(* isConnected() is true only of a session that was established.           *)
THEOREM ConnectedAfterSession == Spec => []ConnectedHasSession
  BY InvariantHolds, PTL DEF IInv

(* After disconnect() = true nothing comes to life until someone dials.    *)
THEOREM StaysQuiet == Spec => []QuietAfterDisconnect
  BY InvariantHolds, PTL DEF IInv
===============================================================================
