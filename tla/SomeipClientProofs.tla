-------------------------- MODULE SomeipClientProofs --------------------------
(***************************************************************************)
(* The safety properties of SomeipClient hold for every set of threads and *)
(* descriptors and for every bound.                                        *)
(*                                                                         *)
(* None of them is inductive: that close() hits a descriptor of the client *)
(* and that no descriptor leaks depend on what socket_fd_ is at the point  *)
(* of connect() a thread has reached, which is what IInv adds.             *)
(***************************************************************************)
EXTENDS SomeipClient, TLAPS

(* An established connection has a descriptor and a peer.                  *)
Established == connected => fd # NoFd /\ peer # "none"

(* socket_fd_ of a client that is not connected is invalid, but for the    *)
(* time between socket() and the outcome of ::connect().                   *)
Inside(t) ==
  /\ pc[t] = "connect" /\ ~connected => fd = NoFd
  /\ pc[t] = "dial" => ~connected /\ fd # NoFd

IdleHasNoSocket == mutex = NoThread /\ ~connected => fd = NoFd

(* The inductive invariant.                                                *)
IInv ==
  /\ TypeOK /\ DescriptorIsOurs /\ SendsToOwnConnection /\ FramedUntilFailure
  /\ Established /\ IdleHasNoSocket
  /\ \A t \in Threads : Inside(t)

USE ConstantsAssumption DEF ConstantsAssumption

(* The client starts in the invariant.                                     *)
LEMMA InitIInv == Init => IInv
<1> SUFFICES ASSUME Init PROVE IInv
  OBVIOUS
<1>1. TypeOK
  <2>1. owner \in [Fds -> {"free", "client", "other"}] /\ closes \in 0..MaxCloses
    BY DEF Init
  <2>2. \A t \in Threads : pc[t] = "idle" /\ mutex # t
    BY DEF Init
  <2>3. stream \in Seq({"frame", "part"}) /\ Len(stream) <= MaxFrames
    BY DEF Init
  <2>. QED BY <2>1, <2>2, <2>3 DEF Init, TypeOK
<1>2. DescriptorIsOurs /\ SendsToOwnConnection /\ FramedUntilFailure
  BY DEF Init, DescriptorIsOurs, SendsToOwnConnection, FramedUntilFailure
<1>3. Established /\ IdleHasNoSocket /\ \A t \in Threads : Inside(t)
  BY DEF Init, Established, IdleHasNoSocket, Inside
<1>. QED BY <1>1, <1>2, <1>3 DEF IInv

(* The calls: HangUp is the only one that does more than take mutex_.      *)
LEMMA CallPreserves ==
  ASSUME IInv, NEW t \in Threads, Call(t) PROVE IInv'
<1> USE DEF IInv, TypeOK, DescriptorIsOurs, SendsToOwnConnection, FramedUntilFailure,
            Established, IdleHasNoSocket, Inside, Lock
<1>1. CASE ConnectCall(t)
  BY <1>1 DEF ConnectCall
<1>2. CASE Disconnect(t) \/ ReconnectCall(t)
  <2>1. PICK to \in {"idle", "redial"} : HangUp(t, to)
    BY <1>2 DEF Disconnect, ReconnectCall
  <2>2. CASE fd = NoFd
    BY <2>1, <2>2 DEF HangUp, Close
  <2>3. CASE fd # NoFd
    BY <2>1, <2>3 DEF HangUp, Close
  <2>. QED BY <2>2, <2>3
<1>3. CASE PublishCall(t)
  BY <1>3 DEF PublishCall
<1>. QED BY <1>1, <1>2, <1>3 DEF Call

(* connect() under mutex_: whichever system call fails, no descriptor leaks. *)
LEMMA DialPreserves ==
  ASSUME IInv, NEW t \in Threads, DialStep(t) PROVE IInv'
<1> USE DEF IInv, TypeOK, DescriptorIsOurs, SendsToOwnConnection, FramedUntilFailure,
            Established, IdleHasNoSocket, Inside, Unlock
<1>1. CASE AlreadyConnected(t)
  BY <1>1 DEF AlreadyConnected
<1>2. CASE OpenSocket(t)
  BY <1>2 DEF OpenSocket
<1>3. CASE NoSocket(t)
  BY <1>3 DEF NoSocket
<1>4. CASE DialFails(t)
  <2>1. fd # NoFd /\ owner' = [owner EXCEPT ![fd] = "free"]
    BY <1>4 DEF DialFails, Close
  <2>. QED BY <1>4, <2>1 DEF DialFails
<1>5. CASE DialOk(t)
  <2>1. stream' \in Seq({"frame", "part"}) /\ Len(stream') <= MaxFrames
    BY <1>5 DEF DialOk
  <2>2. connected' \in BOOLEAN /\ alive' \in BOOLEAN /\ trouble' \in BOOLEAN
    BY <1>5 DEF DialOk
  <2>3. TypeOK' /\ DescriptorIsOurs'
    BY <1>5, <2>1, <2>2 DEF DialOk
  <2>4. SendsToOwnConnection' /\ FramedUntilFailure'
    BY <1>5 DEF DialOk
  <2>5. Established' /\ IdleHasNoSocket' /\ \A u \in Threads : Inside(u)'
    BY <1>5 DEF DialOk
  <2>. QED BY <2>3, <2>4, <2>5
<1>. QED BY <1>1, <1>2, <1>3, <1>4, <1>5 DEF DialStep

(* send(): what the peer finds is whole frames until a publish() fails.    *)
LEMMA SendPreserves ==
  ASSUME IInv, NEW t \in Threads, SendStep(t) PROVE IInv'
<1> USE DEF IInv, TypeOK, DescriptorIsOurs, SendsToOwnConnection, FramedUntilFailure,
            Established, IdleHasNoSocket, Inside, Unlock, SendReturns
<1>1. CASE SendWhole(t)
  BY <1>1 DEF SendWhole
<1>2. CASE SendPart(t)
  BY <1>2 DEF SendPart
<1>3. CASE SendToClosed(t) \/ SendFails(t)
  BY <1>3 DEF SendToClosed, SendFails
<1>4. CASE SendKills(t)
  BY <1>4 DEF SendKills
<1>. QED BY <1>1, <1>2, <1>3, <1>4 DEF SendStep

(* The peer closes; the rest of the process opens and closes descriptors.  *)
LEMMA EnvironmentPreserves ==
  ASSUME IInv, Environment PROVE IInv'
<1> USE DEF IInv, TypeOK, DescriptorIsOurs, SendsToOwnConnection, FramedUntilFailure,
            Established, IdleHasNoSocket, Inside
<1>1. CASE PeerCloses
  BY <1>1 DEF PeerCloses
<1>2. ASSUME NEW f \in Fds, OthersOpen(f) \/ OthersClose(f) PROVE IInv'
  BY <1>2 DEF OthersOpen, OthersClose
<1>. QED BY <1>1, <1>2 DEF Environment

(* IInv is an invariant.                                                   *)
THEOREM InvariantHolds == Spec => []IInv
<1>1. IInv /\ [Next]_vars => IInv'
  <2>1. ASSUME IInv, UNCHANGED vars PROVE IInv'
    BY <2>1 DEF IInv, TypeOK, DescriptorIsOurs, SendsToOwnConnection, FramedUntilFailure,
                Established, IdleHasNoSocket, Inside, vars
  <2>. QED BY <2>1, CallPreserves, DialPreserves, SendPreserves, EnvironmentPreserves DEF Next
<1>. QED BY InitIInv, <1>1, PTL DEF Spec

(* The variables keep their types, and mutex_ is held by the one thread    *)
(* that is inside a system call.                                           *)
THEOREM TypeCorrect == Spec => []TypeOK
  BY InvariantHolds, PTL DEF IInv

(* No descriptor leaks, and none of somebody else is closed or written to. *)
THEOREM DescriptorStaysOurs == Spec => []DescriptorIsOurs
  BY InvariantHolds, PTL DEF IInv

(* A thread inside send() writes to an established connection.             *)
THEOREM NeverSendsElsewhere == Spec => []SendsToOwnConnection
  BY InvariantHolds, PTL DEF IInv

(* While every publish() has returned true the peer finds whole frames.    *)
THEOREM FramesStayWhole == Spec => []FramedUntilFailure
  BY InvariantHolds, PTL DEF IInv
===============================================================================
