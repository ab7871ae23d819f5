--------------------------- MODULE TelemetryManager ---------------------------
(***************************************************************************)
(* TelemetryManager: publishSample(), queueMessage() and flushQueue(),     *)
(* called by any number of threads (the worker of ConnectivityService and  *)
(* the application).  mutex_ guards the queue only: publishSample() asks   *)
(* and sends without it, flushQueue() holds it from its first check to its *)
(* return, over every publish it makes.                                    *)
(*                                                                         *)
(* The transport is an IMqttClient that is up or down at will.  A publish  *)
(* it accepts may be reported as failed: both clients answer false when    *)
(* the acknowledgement is late or the frame went out in part.              *)
(***************************************************************************)
EXTENDS Naturals, Sequences, FiniteSets

CONSTANTS
  Threads,     \* the threads that use the manager
  NoThread,    \* nobody holds mutex_
  MaxSamples   \* bound on the messages the threads make

ASSUME ConstantsAssumption == NoThread \notin Threads /\ MaxSamples \in Nat

VARIABLES
  up,       \* what IMqttClient::isConnected() returns
  mutex,    \* the holder of mutex_
  queue,    \* pending_messages_
  pc,       \* where each thread is in the call it makes
  payload,  \* the local variable payload of that call, 0 outside one
  reply,    \* the last call of each thread and what it returned
  made,     \* history: the thread that made each message, in order
  wire,     \* history: what the transport accepted, and for which call
  unsure,   \* history: accepted for publishSample(), reported as failed
  dropped,  \* history: popped by flushQueue() and refused by the transport
  due       \* history: what the queue held when a flushQueue() locked it, kept
            \* until it returns false or its thread makes the next call

vars == <<up, mutex, queue, pc, payload, reply, made, wire, unsure, dropped, due>>

(* A message is its position in the order in which they were made.         *)
Made == 1..Len(made)

PublishPcs == {"ask", "send", "push"}
FlushPcs   == {"flushAsk", "drain", "flushSend"}
Replies    == {"none", "publishTrue", "flushTrue", "flushFalse"}

Init ==
  /\ up \in BOOLEAN /\ mutex = NoThread /\ queue = <<>>
  /\ pc = [t \in Threads |-> "idle"]
  /\ payload = [t \in Threads |-> 0]
  /\ reply = [t \in Threads |-> "none"]
  /\ made = <<>> /\ wire = <<>> /\ unsure = {} /\ dropped = {}
  /\ due = [t \in Threads |-> {}]

Goto(t, from, to) == pc[t] = from /\ pc' = [pc EXCEPT ![t] = to]
Return(t, from, r) ==
  /\ Goto(t, from, "idle") /\ reply' = [reply EXCEPT ![t] = r]
  /\ payload' = [payload EXCEPT ![t] = 0]
  /\ due' = IF r = "flushTrue" THEN due ELSE [due EXCEPT ![t] = {}]
Accept(t, call) == up /\ wire' = Append(wire, [msg |-> payload[t], by |-> call])
Contents(q) == {q[i] : i \in DOMAIN q}

-----------------------------------------------------------------------------
(* publishSample(), and queueMessage() called from outside.                *)
Make(t, next) ==
  /\ Len(made) < MaxSamples
  /\ Goto(t, "idle", next)
  /\ made' = Append(made, t)
  /\ payload' = [payload EXCEPT ![t] = Len(made) + 1]
  /\ reply' = [reply EXCEPT ![t] = "none"] /\ due' = [due EXCEPT ![t] = {}]
  /\ UNCHANGED <<up, mutex, queue, wire, unsure, dropped>>

GenerateSample(t) == Make(t, "ask")
QueueCall(t)      == Make(t, "push")

AskConnected(t) ==
  /\ Goto(t, "ask", IF up THEN "send" ELSE "push")
  /\ UNCHANGED <<up, mutex, queue, payload, reply, made, wire, unsure, dropped, due>>

PublishAccepted(t) ==
  /\ Return(t, "send", "publishTrue") /\ Accept(t, "publish")
  /\ UNCHANGED <<up, mutex, queue, made, unsure, dropped>>

PublishRefused_GivesUp(t) ==
  /\ Return(t, "send", "publishTrue")
  /\ UNCHANGED <<up, mutex, queue, made, wire, unsure, dropped>>

PublishRefused(t) ==
  /\ Goto(t, "send", "push")
  /\ UNCHANGED <<up, mutex, queue, payload, reply, made, wire, unsure, dropped, due>>

PublishUnsure(t) ==
  /\ Goto(t, "send", "push") /\ Accept(t, "publish")
  /\ unsure' = unsure \cup {payload[t]}
  /\ UNCHANGED <<up, mutex, queue, payload, reply, made, dropped, due>>

QueueMessage(t) ==
  /\ mutex = NoThread
  /\ Return(t, "push", "publishTrue")
  /\ queue' = Append(queue, payload[t])
  /\ UNCHANGED <<up, mutex, made, wire, unsure, dropped>>

-----------------------------------------------------------------------------
(* flushQueue().                                                           *)
FlushLock_NotTaken(t) ==
  /\ Goto(t, "idle", "flushAsk") /\ mutex' = mutex
  /\ due' = [due EXCEPT ![t] = Contents(queue)]
  /\ UNCHANGED <<up, queue, payload, reply, made, wire, unsure, dropped>>

FlushLock(t) ==
  /\ mutex = NoThread
  /\ Goto(t, "idle", "flushAsk") /\ mutex' = t
  /\ due' = [due EXCEPT ![t] = Contents(queue)]
  /\ UNCHANGED <<up, queue, payload, reply, made, wire, unsure, dropped>>

FlushOffline(t) ==
  /\ ~up /\ Return(t, "flushAsk", "flushFalse") /\ mutex' = NoThread
  /\ UNCHANGED <<up, queue, made, wire, unsure, dropped>>

FlushOnline(t) ==
  /\ up /\ Goto(t, "flushAsk", "drain")
  /\ UNCHANGED <<up, mutex, queue, payload, reply, made, wire, unsure, dropped, due>>

(* front() and pop_front(), before the publish.                            *)
PopFront_KeepsFront(t) ==
  /\ queue # <<>> /\ Goto(t, "drain", "flushSend")
  /\ payload' = [payload EXCEPT ![t] = Head(queue)]
  /\ UNCHANGED <<up, mutex, queue, reply, made, wire, unsure, dropped, due>>

PopFront(t) ==
  /\ queue # <<>> /\ Goto(t, "drain", "flushSend")
  /\ payload' = [payload EXCEPT ![t] = Head(queue)] /\ queue' = Tail(queue)
  /\ UNCHANGED <<up, mutex, reply, made, wire, unsure, dropped, due>>

FlushDone(t) ==
  /\ queue = <<>> /\ Return(t, "drain", "flushTrue") /\ mutex' = NoThread
  /\ UNCHANGED <<up, queue, made, wire, unsure, dropped>>

FlushAccepted(t) ==
  /\ Goto(t, "flushSend", "drain") /\ Accept(t, "flush")
  /\ UNCHANGED <<up, mutex, queue, payload, reply, made, unsure, dropped, due>>

FlushRefused_Continues(t) ==
  /\ Goto(t, "flushSend", "drain")
  /\ dropped' = dropped \cup {payload[t]}
  /\ UNCHANGED <<up, mutex, queue, payload, reply, made, wire, unsure, due>>

FlushRefused_RequeuesAtBack(t) ==
  /\ Return(t, "flushSend", "flushFalse") /\ mutex' = NoThread
  /\ queue' = Append(queue, payload[t])
  /\ UNCHANGED <<up, made, wire, unsure, dropped>>

FlushRefused(t) ==
  /\ Return(t, "flushSend", "flushFalse") /\ mutex' = NoThread
  /\ dropped' = dropped \cup {payload[t]}
  /\ UNCHANGED <<up, queue, made, wire, unsure>>

FlushUnsure(t) ==
  /\ Return(t, "flushSend", "flushFalse") /\ mutex' = NoThread
  /\ Accept(t, "flush")
  /\ UNCHANGED <<up, queue, made, unsure, dropped>>

-----------------------------------------------------------------------------
(* The link of the transport comes and goes at any moment.                 *)
LinkChange ==
  /\ up' = ~up
  /\ UNCHANGED <<mutex, queue, pc, payload, reply, made, wire, unsure, dropped, due>>

PublishStep(t) ==
  \/ AskConnected(t) \/ PublishAccepted(t) \/ PublishRefused(t) \/ PublishUnsure(t)
  \/ QueueMessage(t)

FlushStep(t) ==
  \/ FlushOffline(t) \/ FlushOnline(t) \/ PopFront(t) \/ FlushDone(t)
  \/ FlushAccepted(t) \/ FlushRefused(t) \/ FlushUnsure(t)

Call(t) == GenerateSample(t) \/ QueueCall(t) \/ FlushLock(t)

Next == LinkChange \/ \E t \in Threads : Call(t) \/ PublishStep(t) \/ FlushStep(t)

Spec == Init /\ [][Next]_vars

-----------------------------------------------------------------------------
(* Properties.                                                             *)
Accepted == {wire[i].msg : i \in DOMAIN wire}
InHand == {payload[t] : t \in {u \in Threads : pc[u] \in PublishPcs \cup {"flushSend"}}}

(* The variables keep their types, a message is only handled once made, and *)
(* mutex_ is held by the thread inside flushQueue() and by nobody else.     *)
TypeOK ==
  /\ up \in BOOLEAN /\ queue \in Seq(Made)
  /\ pc \in [Threads -> {"idle"} \cup PublishPcs \cup FlushPcs]
  /\ made \in Seq(Threads) /\ Len(made) <= MaxSamples /\ reply \in [Threads -> Replies]
  /\ InHand \subseteq Made
  /\ wire \in Seq([msg : Made, by : {"publish", "flush"}])
  /\ unsure \subseteq Made /\ dropped \subseteq Made
  /\ \A t \in Threads : due[t] \subseteq Made
  /\ \A t \in Threads : pc[t] \in FlushPcs <=> mutex = t

(* The only way to lose a message is a flushQueue() whose publish fails:    *)
(* every other one is queued, accepted, or in the hands of a thread.        *)
LostOnlyByFlush == Made \subseteq Contents(queue) \cup InHand \cup Accepted \cup dropped

(* However publishers and flushers interleave, the transport gets a message *)
(* once, or twice when it had reported a publish it accepted as failed.     *)
NoDuplicates ==
  \A m \in Made :
    Cardinality({i \in DOMAIN wire : wire[i].msg = m}) <= IF m \in unsure THEN 2 ELSE 1

(* The queued messages of a thread reach the transport in the order it made *)
(* them, over any number of flushQueue() calls, failed ones included.       *)
FlushedInOrder ==
  \A i, j \in DOMAIN wire :
    (i < j /\ wire[i].by = "flush" /\ wire[j].by = "flush"
       /\ made[wire[i].msg] = made[wire[j].msg])
      => wire[i].msg < wire[j].msg

(* flushQueue() = true is a promise: all it found in the queue was accepted. *)
FlushTrueDelivered ==
  \A t \in Threads : pc[t] = "idle" /\ reply[t] = "flushTrue" => due[t] \subseteq Accepted

(* flushQueue() loops until the queue is empty.  Each step of its own brings *)
(* the end nearer, and no step of another thread takes it further away, so *)
(* that it cannot be kept at work by threads that queue on: it holds       *)
(* mutex_, and a refusal ends it.  Left counts the steps that remain.      *)
Left(t) ==
  2 * Len(queue) + (CASE pc[t] = "flushAsk" -> 2 [] pc[t] = "flushSend" -> 1 [] OTHER -> 0)

FlushRunsDown ==
  [][\A t \in Threads :
       pc[t] \in FlushPcs =>
         \/ pc'[t] = "idle" \/ Left(t)' < Left(t)
         \/ pc'[t] = pc[t] /\ Left(t)' = Left(t)]_vars

(* "vehicle telemetry payloads with offline queuing": a message waits in    *)
(* the queue until the transport has accepted it.                           *)
NoMessageLost == Made \subseteq Contents(queue) \cup InHand \cup Accepted
=============================================================================
