----------------------------- MODULE SomeipClient -----------------------------
(***************************************************************************)
(* SomeipClient: a blocking TCP socket behind the transport interface,     *)
(* used by several threads of a process that opens other descriptors too   *)
(* (the Logger opens its file for every line).  mutex_ is held over every  *)
(* system call; reconnect() is two critical sections.                      *)
(*                                                                         *)
(* External: the kernel, which hands out descriptors and frames, and the   *)
(* peer, which reads at its own pace and may close at any moment.  The     *)
(* first send() after that still succeeds, the next one raises SIGPIPE     *)
(* (send is called with no flags), fatal unless the program ignores it.    *)
(*                                                                         *)
(* The client outlives its threads here.  It has no destructor, so one     *)
(* that is destroyed while connected leaves its descriptor open.           *)
(***************************************************************************)
EXTENDS Naturals, Sequences, FiniteSets

CONSTANTS
  Threads,    \* the threads that share the client
  NoThread,   \* nobody holds mutex_
  Fds,        \* descriptor numbers
  NoFd,       \* kInvalidSocketFd
  MaxOthers,  \* bound on the descriptors the rest of the process holds at once
  MaxFrames,  \* bound on what is written to one connection
  MaxCloses   \* bound on the connections the peer closes

ASSUME ConstantsAssumption ==
  /\ NoThread \notin Threads /\ NoFd \notin Fds
  /\ MaxOthers \in Nat /\ MaxFrames \in Nat /\ MaxCloses \in Nat

VARIABLES
  connected,  \* connected_
  fd,         \* socket_fd_
  owner,      \* kernel: whose each descriptor is
  mutex,      \* the holder of mutex_
  pc,         \* where each thread is in the call it makes
  peer,       \* the other end of the client's connection
  stream,     \* what was written to the connection, whole frames and fragments
  closes,     \* connections closed by the peer so far
  alive,      \* the process has not been killed
  trouble     \* history: a publish() has returned false on this connection

vars == <<connected, fd, owner, mutex, pc, peer, stream, closes, alive, trouble>>

Init ==
  /\ connected = FALSE /\ fd = NoFd /\ owner = [f \in Fds |-> "free"]
  /\ mutex = NoThread /\ pc = [t \in Threads |-> "idle"]
  /\ peer = "none" /\ stream = <<>> /\ closes = 0 /\ alive = TRUE /\ trouble = FALSE

Lock(t, from, to) ==
  /\ alive /\ mutex = NoThread /\ mutex' = t
  /\ pc[t] = from /\ pc' = [pc EXCEPT ![t] = to]

Unlock(t, from, to) ==
  /\ alive /\ mutex' = NoThread
  /\ pc[t] = from /\ pc' = [pc EXCEPT ![t] = to]

(* ::close(socket_fd_): whatever the number stands for now is closed.      *)
Close == owner' = IF fd = NoFd THEN owner ELSE [owner EXCEPT ![fd] = "free"]

-----------------------------------------------------------------------------
(* connect(), and the second half of reconnect().                          *)
ConnectCall_NoLock(t) ==
  /\ alive /\ UNCHANGED mutex
  /\ pc[t] \in {"idle", "redial"} /\ pc' = [pc EXCEPT ![t] = "connect"]
  /\ UNCHANGED <<connected, fd, owner, peer, stream, closes, alive, trouble>>

ConnectCall(t) ==
  /\ Lock(t, "idle", "connect") \/ Lock(t, "redial", "connect")
  /\ UNCHANGED <<connected, fd, owner, peer, stream, closes, alive, trouble>>

AlreadyConnected(t) ==
  /\ connected /\ Unlock(t, "connect", "idle")
  /\ UNCHANGED <<connected, fd, owner, peer, stream, closes, alive, trouble>>

OpenSocket(t) ==
  /\ ~connected /\ alive
  /\ \E f \in Fds : owner[f] = "free" /\ fd' = f /\ owner' = [owner EXCEPT ![f] = "client"]
  /\ pc[t] = "connect" /\ pc' = [pc EXCEPT ![t] = "dial"]
  /\ UNCHANGED <<connected, mutex, peer, stream, closes, alive, trouble>>

NoSocket(t) ==
  /\ ~connected /\ Unlock(t, "connect", "idle") /\ fd' = NoFd
  /\ UNCHANGED <<connected, owner, peer, stream, closes, alive, trouble>>

(* inet_pton() or ::connect() fails.                                       *)
DialFails_LeavesOpen(t) ==
  /\ Unlock(t, "dial", "idle") /\ fd' = NoFd
  /\ UNCHANGED <<connected, owner, peer, stream, closes, alive, trouble>>

DialFails(t) ==
  /\ Unlock(t, "dial", "idle") /\ Close /\ fd' = NoFd
  /\ UNCHANGED <<connected, peer, stream, closes, alive, trouble>>

DialOk(t) ==
  /\ Unlock(t, "dial", "idle") /\ connected' = TRUE
  /\ peer' = "open" /\ stream' = <<>> /\ trouble' = FALSE
  /\ UNCHANGED <<fd, owner, closes, alive>>

-----------------------------------------------------------------------------
(* disconnect(), and the first half of reconnect().                        *)
HangUp_KeepsFlag(t, to) ==
  /\ alive /\ mutex = NoThread /\ UNCHANGED mutex
  /\ pc[t] = "idle" /\ pc' = [pc EXCEPT ![t] = to]
  /\ Close /\ fd' = NoFd /\ peer' = "none"
  /\ UNCHANGED <<connected, stream, closes, alive, trouble>>

HangUp(t, to) ==
  /\ alive /\ mutex = NoThread /\ UNCHANGED mutex
  /\ pc[t] = "idle" /\ pc' = [pc EXCEPT ![t] = to]
  /\ Close /\ fd' = NoFd /\ connected' = FALSE /\ peer' = "none"
  /\ UNCHANGED <<stream, closes, alive, trouble>>

Disconnect(t)    == HangUp(t, "idle")
ReconnectCall(t) == HangUp(t, "redial")

-----------------------------------------------------------------------------
(* publish(): one header and payload, one send().                          *)
PublishCall_NoLock(t) ==
  /\ connected /\ fd # NoFd /\ alive /\ UNCHANGED mutex
  /\ pc[t] = "idle" /\ pc' = [pc EXCEPT ![t] = "send"]
  /\ UNCHANGED <<connected, fd, owner, peer, stream, closes, alive, trouble>>

PublishCall(t) ==
  /\ connected /\ fd # NoFd /\ Lock(t, "idle", "send")
  /\ UNCHANGED <<connected, fd, owner, peer, stream, closes, alive, trouble>>

SendReturns(t, chunks, ok) ==
  /\ Unlock(t, "send", "idle")
  /\ stream' = stream \o chunks /\ trouble' = (trouble \/ ~ok)
  /\ UNCHANGED <<connected, fd, owner, closes, alive>>

SendWhole(t) ==
  /\ peer = "open" /\ Len(stream) < MaxFrames
  /\ SendReturns(t, <<"frame">>, TRUE) /\ UNCHANGED peer

SendPart_CountsAsSent(t) ==
  /\ peer = "open" /\ Len(stream) < MaxFrames
  /\ SendReturns(t, <<"part">>, TRUE) /\ UNCHANGED peer

SendPart(t) ==
  /\ peer = "open" /\ Len(stream) < MaxFrames
  /\ SendReturns(t, <<"part">>, FALSE) /\ UNCHANGED peer

SendToClosed(t) == peer = "closed" /\ SendReturns(t, <<>>, TRUE) /\ peer' = "reset"
SendFails(t)    == SendReturns(t, <<>>, FALSE) /\ UNCHANGED peer

SendKills(t) ==
  /\ peer = "reset" /\ pc[t] = "send" /\ alive /\ alive' = FALSE
  /\ UNCHANGED <<connected, fd, owner, mutex, pc, peer, stream, closes, trouble>>

-----------------------------------------------------------------------------
(* The peer, and the rest of the process.                                  *)
PeerCloses ==
  /\ peer = "open" /\ closes < MaxCloses
  /\ peer' = "closed" /\ closes' = closes + 1
  /\ UNCHANGED <<connected, fd, owner, mutex, pc, stream, alive, trouble>>

OthersOpen(f) ==
  /\ alive /\ Cardinality({g \in Fds : owner[g] = "other"}) < MaxOthers
  /\ owner[f] = "free" /\ owner' = [owner EXCEPT ![f] = "other"]
  /\ UNCHANGED <<connected, fd, mutex, pc, peer, stream, closes, alive, trouble>>

OthersClose(f) ==
  /\ alive /\ owner[f] = "other" /\ owner' = [owner EXCEPT ![f] = "free"]
  /\ UNCHANGED <<connected, fd, mutex, pc, peer, stream, closes, alive, trouble>>

-----------------------------------------------------------------------------
Call(t) == ConnectCall(t) \/ Disconnect(t) \/ ReconnectCall(t) \/ PublishCall(t)

DialStep(t) ==
  \/ AlreadyConnected(t) \/ OpenSocket(t) \/ NoSocket(t) \/ DialFails(t) \/ DialOk(t)

SendStep(t) ==
  \/ SendWhole(t) \/ SendPart(t) \/ SendToClosed(t) \/ SendFails(t) \/ SendKills(t)

Environment == PeerCloses \/ \E f \in Fds : OthersOpen(f) \/ OthersClose(f)

Next == Environment \/ \E t \in Threads : Call(t) \/ DialStep(t) \/ SendStep(t)

Spec == Init /\ [][Next]_vars

(* Threads are scheduled, ::connect() returns (the kernel gives up on a peer *)
(* that does not answer) and so does send() (the peer reads).              *)
LiveSpec == Spec /\ \A t \in Threads : WF_vars(DialStep(t)) /\ WF_vars(SendStep(t))

(* In addition the application goes on reconnecting, and gets the lock, a   *)
(* descriptor and an accepting peer if it tries often enough.              *)
ReconnectingSpec ==
  /\ LiveSpec
  /\ \A t \in Threads :
       /\ SF_vars(ReconnectCall(t)) /\ SF_vars(ConnectCall(t) /\ pc[t] = "redial")
       /\ SF_vars(OpenSocket(t)) /\ SF_vars(DialOk(t))

-----------------------------------------------------------------------------
(* Properties.                                                             *)

(* The variables keep their types, and mutex_ is held by the one thread     *)
(* that is inside a system call.                                           *)
TypeOK ==
  /\ connected \in BOOLEAN /\ alive \in BOOLEAN /\ trouble \in BOOLEAN
  /\ fd \in Fds \cup {NoFd} /\ owner \in [Fds -> {"free", "client", "other"}]
  /\ mutex \in Threads \cup {NoThread}
  /\ pc \in [Threads -> {"idle", "connect", "dial", "send", "redial"}]
  /\ peer \in {"none", "open", "closed", "reset"} /\ closes \in 0..MaxCloses
  /\ stream \in Seq({"frame", "part"}) /\ Len(stream) <= MaxFrames
  /\ \A t \in Threads : pc[t] \in {"connect", "dial", "send"} <=> mutex = t

(* socket_fd_ is the one descriptor the client owns: none leaks, however    *)
(* dials fail, and send() and close() never touch a number the kernel has   *)
(* given to someone else in the meantime.                                  *)
DescriptorIsOurs == {f \in Fds : owner[f] = "client"} = {fd} \ {NoFd}

(* A thread inside send() writes to an established connection of the client, *)
(* whatever disconnect() and reconnect() other threads are calling.         *)
SendsToOwnConnection ==
  \A t \in Threads : pc[t] = "send" => connected /\ fd # NoFd /\ peer # "none"

(* While every publish() has returned true the peer finds whole frames only. *)
FramedUntilFailure == ~trouble => \A i \in DOMAIN stream : stream[i] = "frame"

(* reconnect() mends what it is called for: a peer gone, a dial that failed. *)
ReconnectRecovers == peer # "open" ~> (peer = "open" \/ ~alive)
=============================================================================
