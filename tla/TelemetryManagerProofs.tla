------------------------ MODULE TelemetryManagerProofs ------------------------
(***************************************************************************)
(* The safety properties of TelemetryManager hold for any set of threads   *)
(* and any number of messages.                                             *)
(***************************************************************************)
EXTENDS TelemetryManager, SequenceTheorems, FiniteSetTheorems, TLAPS

USE ConstantsAssumption DEF ConstantsAssumption

-----------------------------------------------------------------------------
(* What the operators of the model do to a queue and to the wire.          *)

(* push_back() adds one message to what the queue holds.                   *)
LEMMA ContentsAppend ==
  ASSUME NEW S, NEW q \in Seq(S), NEW x \in S
  PROVE  Contents(Append(q, x)) = Contents(q) \cup {x}
<1> DEFINE r == Append(q, x)
<1>1. DOMAIN q = 1..Len(q) /\ DOMAIN r = 1..Len(q) + 1 /\ Len(q) \in Nat
  OBVIOUS
<1>2. r[Len(q) + 1] = x /\ \A i \in 1..Len(q) : r[i] = q[i]
  OBVIOUS
<1>3. ASSUME NEW i \in DOMAIN r PROVE r[i] \in Contents(q) \cup {x}
  BY <1>1, <1>2 DEF Contents
<1>4. Contents(q) \subseteq Contents(r)
  BY <1>1, <1>2 DEF Contents
<1>5. x \in Contents(r)
  BY <1>1, <1>2 DEF Contents
<1>. QED BY <1>3, <1>4, <1>5 DEF Contents

(* front() and pop_front() take one message from it.                       *)
LEMMA ContentsHeadTail ==
  ASSUME NEW S, NEW q \in Seq(S), q # <<>>
  PROVE  Contents(q) = {Head(q)} \cup Contents(Tail(q))
<1> DEFINE r == Tail(q)
<1>1. DOMAIN q = 1..Len(q) /\ DOMAIN r = 1..Len(q) - 1 /\ Len(q) \in Nat /\ Len(q) > 0
  BY HeadTailProperties
<1>2. Head(q) = q[1] /\ \A i \in 1..Len(q) - 1 : r[i] = q[i + 1]
  BY HeadTailProperties
<1>3. ASSUME NEW i \in DOMAIN q PROVE q[i] \in {Head(q)} \cup Contents(r)
  <2>1. CASE i = 1
    BY <1>2, <2>1
  <2>2. CASE i # 1
    <3>1. i - 1 \in DOMAIN r /\ r[i - 1] = q[i]
      BY <1>1, <1>2, <2>2
    <3>. QED BY <3>1 DEF Contents
  <2>. QED BY <2>1, <2>2
<1>4. Contents(r) \subseteq Contents(q)
  BY <1>1, <1>2 DEF Contents
<1>5. Head(q) \in Contents(q)
  BY <1>1, <1>2 DEF Contents
<1>. QED BY <1>3, <1>4, <1>5 DEF Contents

(* A queue holds members of the set it is a sequence of.                   *)
LEMMA ContentsType ==
  ASSUME NEW S, NEW q \in Seq(S) PROVE Contents(q) \subseteq S
  BY DEF Contents

(* A publish the transport accepts adds one message to the accepted ones.  *)
LEMMA AcceptedAppend ==
  ASSUME NEW S, wire \in Seq(S), NEW r \in S, wire' = Append(wire, r)
  PROVE  Accepted' = Accepted \cup {r.msg}
<1>1. /\ DOMAIN wire = 1..Len(wire) /\ DOMAIN wire' = 1..Len(wire) + 1 /\ Len(wire) \in Nat
      /\ wire'[Len(wire) + 1] = r /\ \A i \in 1..Len(wire) : wire'[i] = wire[i]
  OBVIOUS
<1>2. ASSUME NEW i \in DOMAIN wire' PROVE wire'[i].msg \in Accepted \cup {r.msg}
  BY <1>1 DEF Accepted
<1>3. Accepted \subseteq Accepted'
  BY <1>1 DEF Accepted
<1>4. r.msg \in Accepted'
  BY <1>1 DEF Accepted
<1>. QED BY <1>2, <1>3, <1>4 DEF Accepted

-----------------------------------------------------------------------------
(* Types.  A message in hand is one that was made, and stays so while      *)
(* others are made.                                                        *)
Holds(t) == pc[t] \in PublishPcs \cup {"flushSend"}

ControlTypes ==
  /\ pc \in [Threads -> {"idle"} \cup PublishPcs \cup FlushPcs]
  /\ \A t \in Threads : pc[t] \in FlushPcs <=> mutex = t
  /\ reply \in [Threads -> Replies]
  /\ payload \in [Threads -> Nat] /\ \A t \in Threads : Holds(t) => payload[t] \in Made
  /\ due \in [Threads -> SUBSET Nat] /\ \A t \in Threads : due[t] \subseteq Made

Sent(M) == [msg : M, by : {"publish", "flush"}]

DataTypes ==
  /\ up \in BOOLEAN /\ queue \in Seq(Made) /\ wire \in Seq(Sent(Made))
  /\ unsure \subseteq Made /\ dropped \subseteq Made

MadeTypes == made \in Seq(Threads) /\ Len(made) <= MaxSamples

TypeInv == ControlTypes /\ DataTypes /\ MadeTypes

(* TypeInv is TypeOK with the types of payload and due.                    *)
LEMMA TypeInvImpliesTypeOK == TypeInv => TypeOK
<1> SUFFICES ASSUME TypeInv PROVE TypeOK
  OBVIOUS
<1>1. InHand \subseteq Made
  BY DEF TypeInv, ControlTypes, Holds, InHand
<1>. QED BY <1>1 DEF TypeInv, ControlTypes, DataTypes, MadeTypes, Sent, TypeOK

(* Messages are numbers.                                                   *)
LEMMA MadeIsNat == MadeTypes => Made \subseteq Nat /\ Len(made) \in Nat
  BY DEF MadeTypes, Made

(* The manager starts with its types.                                      *)
LEMMA InitTypeInv == Init => TypeInv
<1> SUFFICES ASSUME Init PROVE TypeInv
  OBVIOUS
<1>1. ControlTypes
  BY DEF Init, ControlTypes, Holds, PublishPcs, FlushPcs, Replies
<1>2. DataTypes
  BY DEF Init, DataTypes
<1>3. MadeTypes
  BY DEF Init, MadeTypes
<1>. QED BY <1>1, <1>2, <1>3 DEF TypeInv

(* A new message, which publishSample() and queueMessage() begin with.     *)
LEMMA MakePreservesTypes ==
  ASSUME TypeInv, NEW t \in Threads, NEW next \in {"ask", "push"}, Make(t, next)
  PROVE  TypeInv'
<1> USE DEF TypeInv, Make
<1>1. Len(made) \in Nat /\ Len(made') = Len(made) + 1 /\ MadeTypes'
  BY DEF MadeTypes
<1>2. Made \subseteq Made' /\ Made \subseteq Nat /\ Len(made) + 1 \in Made'
  BY <1>1 DEF Made
<1>3. ControlTypes'
  BY <1>1, <1>2 DEF ControlTypes, Goto, Holds, PublishPcs, FlushPcs, Replies
<1>4. DataTypes'
  <2>1. queue' \in Seq(Made')
    BY <1>2, SeqMonotonic DEF DataTypes
  <2>2. wire' \in Seq(Sent(Made'))
    <3>1. Sent(Made) \subseteq Sent(Made')
      BY <1>2 DEF Sent
    <3>. QED BY <3>1, SeqMonotonic DEF DataTypes
  <2>. QED BY <1>2, <2>1, <2>2 DEF DataTypes
<1>. QED BY <1>1, <1>3, <1>4

(* publishSample() and queueMessage(), after the message is made.          *)
LEMMA PublishPreservesTypes ==
  ASSUME TypeInv, NEW t \in Threads, PublishStep(t) PROVE TypeInv'
<1>1. made' = made
  BY DEF PublishStep, AskConnected, PublishAccepted, PublishRefused, PublishUnsure, QueueMessage
<1>2. Made' = Made /\ Made \subseteq Nat /\ MadeTypes'
  BY <1>1, MadeIsNat DEF Made, TypeInv, MadeTypes
<1> USE <1>2 DEF TypeInv, ControlTypes, DataTypes, Goto, Return, Holds, PublishPcs, FlushPcs,
               Replies, Sent
<1>3. CASE AskConnected(t)
  BY <1>3 DEF AskConnected
<1>4. CASE PublishAccepted(t)
  BY <1>4 DEF PublishAccepted, Accept
<1>5. CASE PublishRefused(t)
  BY <1>5 DEF PublishRefused
<1>6. CASE PublishUnsure(t)
  <2>1. payload[t] \in Made /\ unsure' \subseteq Made
    BY <1>6 DEF PublishUnsure
  <2>2. wire' \in Seq(Sent(Made))
    BY <1>6, <2>1 DEF PublishUnsure, Accept
  <2>. QED BY <1>6, <2>1, <2>2 DEF PublishUnsure
<1>7. CASE QueueMessage(t)
  BY <1>7 DEF QueueMessage
<1>. QED BY <1>3, <1>4, <1>5, <1>6, <1>7 DEF PublishStep

(* flushQueue(), which holds mutex_ until it returns.                      *)
LEMMA FlushPreservesTypes ==
  ASSUME TypeInv, NEW t \in Threads, FlushLock(t) \/ FlushStep(t) PROVE TypeInv'
<1>1. made' = made
  BY DEF FlushLock, FlushStep, FlushOffline, FlushOnline, PopFront, FlushDone, FlushAccepted,
         FlushRefused, FlushUnsure
<1>2. Made' = Made /\ Made \subseteq Nat /\ MadeTypes'
  BY <1>1, MadeIsNat DEF Made, TypeInv, MadeTypes
<1> USE <1>2 DEF TypeInv, ControlTypes, DataTypes, Goto, Return, Holds, PublishPcs, FlushPcs,
               Replies, Sent
<1>3. CASE FlushLock(t)
  BY <1>3, ContentsType DEF FlushLock
<1>4. CASE FlushOffline(t)
  BY <1>4 DEF FlushOffline
<1>5. CASE FlushOnline(t)
  BY <1>5 DEF FlushOnline
<1>6. CASE PopFront(t)
  BY <1>6, HeadTailProperties DEF PopFront
<1>7. CASE FlushDone(t)
  BY <1>7 DEF FlushDone
<1>8. CASE FlushAccepted(t)
  BY <1>8 DEF FlushAccepted, Accept
<1>9. CASE FlushRefused(t)
  BY <1>9 DEF FlushRefused
<1>10. CASE FlushUnsure(t)
  BY <1>10 DEF FlushUnsure, Accept
<1>. QED BY <1>3, <1>4, <1>5, <1>6, <1>7, <1>8, <1>9, <1>10 DEF FlushStep

(* Every step keeps the types.                                             *)
LEMMA NextPreservesTypes == TypeInv /\ [Next]_vars => TypeInv'
<1> SUFFICES ASSUME TypeInv, [Next]_vars PROVE TypeInv'
  OBVIOUS
<1>1. CASE LinkChange \/ UNCHANGED vars
  <2>1. UNCHANGED <<made, mutex, queue, pc, payload, reply, wire, unsure, dropped, due>>
        /\ up' \in BOOLEAN
    BY <1>1, Zenon DEF LinkChange, vars, TypeInv, DataTypes
  <2>. QED BY <2>1 DEF TypeInv, ControlTypes, DataTypes, MadeTypes, Holds, Made
<1>2. ASSUME NEW t \in Threads, GenerateSample(t) \/ QueueCall(t) PROVE TypeInv'
  BY <1>2, MakePreservesTypes DEF GenerateSample, QueueCall
<1>3. ASSUME NEW t \in Threads, PublishStep(t) \/ FlushLock(t) \/ FlushStep(t) PROVE TypeInv'
  BY <1>3, PublishPreservesTypes, FlushPreservesTypes
<1>. QED BY <1>1, <1>2, <1>3 DEF Next, Call

(* TypeInv is an invariant.                                                *)
THEOREM TypeInvHolds == Spec => []TypeInv
  BY InitTypeInv, NextPreservesTypes, PTL DEF Spec

(* The variables keep their types, and mutex_ is held by the thread inside *)
(* flushQueue() and by nobody else.                                        *)
THEOREM TypeCorrect == Spec => []TypeOK
  BY TypeInvHolds, TypeInvImpliesTypeOK, PTL

-----------------------------------------------------------------------------
(* Where messages go.  The steps by which the transport accepts one.       *)
WireStep(t)  == PublishAccepted(t) \/ PublishUnsure(t) \/ FlushAccepted(t) \/ FlushUnsure(t)

Step(t) == Call(t) \/ PublishStep(t) \/ FlushStep(t)

(* The steps that move no message.                                         *)
QuietStep(t) ==
  \/ FlushLock(t) \/ AskConnected(t) \/ PublishRefused(t) \/ FlushOffline(t) \/ FlushOnline(t)
  \/ FlushDone(t)

(* What a step does not write it keeps.                                    *)
LEMMA Frames ==
  /\ UNCHANGED made => Made' = Made
  /\ UNCHANGED wire => Accepted' = Accepted
  BY DEF Made, Accepted

(* The transport accepts what was made.                                    *)
LEMMA AcceptedType == TypeInv => Accepted \subseteq Made
<1> SUFFICES ASSUME TypeInv, NEW i \in DOMAIN wire PROVE wire[i].msg \in Made
  BY DEF Accepted
<1>1. wire[i] \in Sent(Made)
  BY DEF TypeInv, DataTypes
<1>. QED BY <1>1 DEF Sent

(* A step of a thread leaves what is local to the others.                  *)
LEMMA OthersKeep ==
  ASSUME TypeInv, NEW t \in Threads, Step(t)
  PROVE  \A u \in Threads \ {t} :
           pc'[u] = pc[u] /\ payload'[u] = payload[u] /\ due'[u] = due[u] /\ reply'[u] = reply[u]
<1> USE DEF TypeInv, ControlTypes, Goto, Return
<1>1. CASE Call(t)
  BY <1>1 DEF Call, GenerateSample, QueueCall, Make, FlushLock
<1>2. CASE PublishStep(t)
  BY <1>2 DEF PublishStep, AskConnected, PublishAccepted, PublishRefused, PublishUnsure, QueueMessage
<1>3. CASE FlushStep(t)
  BY <1>3 DEF FlushStep, FlushOffline, FlushOnline, PopFront, FlushDone, FlushAccepted,
              FlushRefused, FlushUnsure
<1>. QED BY <1>1, <1>2, <1>3 DEF Step

(* A step that moves no message keeps all it has in hand.                  *)
LEMMA QuietKeeps ==
  ASSUME TypeInv, NEW t \in Threads, QuietStep(t)
  PROVE  /\ UNCHANGED <<queue, made, wire, dropped, unsure>>
         /\ Holds(t)' = Holds(t) /\ (Holds(t) => payload'[t] = payload[t])
  BY DEF QuietStep, FlushLock, AskConnected, PublishRefused, FlushOffline, FlushOnline, FlushDone,
         TypeInv, ControlTypes, Goto, Return, Holds, PublishPcs

(* Who accepts a message, and what of.                                     *)
LEMMA WireMoves ==
  ASSUME TypeInv, NEW t \in Threads, WireStep(t)
  PROVE  /\ Holds(t) /\ payload[t] \in Made
         /\ Accepted' = Accepted \cup {payload[t]} /\ UNCHANGED <<queue, made, dropped>>
<1> USE DEF WireStep, PublishAccepted, PublishUnsure, FlushAccepted, FlushUnsure,
            Goto, Return, Accept
<1>1. Holds(t) /\ payload[t] \in Made /\ UNCHANGED <<queue, made, dropped>>
  BY DEF Holds, PublishPcs, TypeInv, ControlTypes
<1>2. PICK call \in {"publish", "flush"} : wire' = Append(wire, [msg |-> payload[t], by |-> call])
  OBVIOUS
<1>3. wire \in Seq(Sent(Made)) /\ [msg |-> payload[t], by |-> call] \in Sent(Made)
  BY <1>1 DEF TypeInv, DataTypes, Sent
<1>. QED BY <1>1, <1>2, <1>3, AcceptedAppend

(* What enters and leaves the queue.                                       *)
LEMMA QueueMoves ==
  ASSUME TypeInv, NEW t \in Threads
  PROVE  /\ QueueMessage(t) =>
              Holds(t) /\ Contents(queue') = Contents(queue) \cup {payload[t]}
         /\ PopFront(t) => Contents(queue) = {payload'[t]} \cup Contents(queue')
<1>1. ASSUME QueueMessage(t)
      PROVE  Holds(t) /\ Contents(queue') = Contents(queue) \cup {payload[t]}
  <2>1. Holds(t) /\ payload[t] \in Made /\ queue \in Seq(Made)
    BY <1>1 DEF QueueMessage, Return, Goto, Holds, PublishPcs, TypeInv, ControlTypes, DataTypes
  <2>. QED BY <1>1, <2>1, ContentsAppend DEF QueueMessage
<1>2. ASSUME PopFront(t) PROVE Contents(queue) = {payload'[t]} \cup Contents(queue')
  <2>1. queue \in Seq(Made) /\ queue # <<>> /\ payload'[t] = Head(queue) /\ queue' = Tail(queue)
    BY <1>2 DEF PopFront, TypeInv, ControlTypes, DataTypes
  <2>. QED BY <2>1, ContentsHeadTail
<1>. QED BY <1>1, <1>2

(* Where a message may be.                                                 *)
Somewhere(m) ==
  \/ m \in Contents(queue) \/ m \in Accepted \/ m \in dropped
  \/ \E u \in Threads : Holds(u) /\ payload[u] = m

NothingVanishes == \A m \in Made : Somewhere(m)

(* This is LostOnlyByFlush, message by message.                            *)
LEMMA NothingVanishesIsLost == NothingVanishes => LostOnlyByFlush
  BY DEF NothingVanishes, Somewhere, LostOnlyByFlush, InHand, Holds

(* A message leaves a place only for the next one.                         *)
LEMMA StepLosesNothing ==
  ASSUME TypeInv, NothingVanishes, NEW t \in Threads, Step(t) PROVE NothingVanishes'
<1>1. \A u \in Threads \ {t} : Holds(u)' = Holds(u) /\ payload'[u] = payload[u]
  BY OthersKeep DEF Holds
<1> USE <1>1, Frames DEF NothingVanishes, Somewhere
<1>2. CASE WireStep(t)
  BY <1>2, WireMoves
<1>3. CASE QueueMessage(t)
  BY <1>3, QueueMoves DEF QueueMessage
<1>4. CASE PopFront(t)
  <2>1. Holds(t)' /\ ~Holds(t) /\ UNCHANGED <<made, wire, dropped>>
    BY <1>4 DEF PopFront, Goto, Holds, PublishPcs, TypeInv, ControlTypes
  <2>. QED BY <1>4, <2>1, QueueMoves
<1>5. CASE FlushRefused(t)
  BY <1>5 DEF FlushRefused
<1>6. CASE GenerateSample(t) \/ QueueCall(t)
  <2>1. Holds(t)' /\ ~Holds(t) /\ Made' = Made \cup {payload'[t]} /\ UNCHANGED <<queue, wire, dropped>>
    BY <1>6 DEF GenerateSample, QueueCall, Make, Made, MadeTypes, Goto, Holds, PublishPcs, TypeInv,
                ControlTypes
  <2>. QED BY <1>6, <2>1
<1>7. CASE QuietStep(t)
  BY <1>7, QuietKeeps
<1>. QED BY <1>2, <1>3, <1>4, <1>5, <1>6, <1>7
         DEF Step, Call, PublishStep, FlushStep, WireStep, QuietStep

-----------------------------------------------------------------------------
(* The promise of flushQueue() = true.  While it runs, what it found when it *)
(* locked the queue is still there, in its hands or accepted: it holds     *)
(* mutex_, so nobody else takes from the queue.                            *)
OnItsWay(t) ==
  /\ pc[t] \in {"flushAsk", "drain"} => due[t] \subseteq Contents(queue) \cup Accepted
  /\ pc[t] = "flushSend" => due[t] \subseteq Contents(queue) \cup {payload[t]} \cup Accepted
  /\ pc[t] = "idle" /\ reply[t] = "flushTrue" => due[t] \subseteq Accepted

DueInv == \A t \in Threads : OnItsWay(t)

(* What was accepted stays so, and a flusher's queue is its own.           *)
LEMMA FlushIsAlone ==
  ASSUME TypeInv, NEW t \in Threads, Step(t), NEW u \in Threads \ {t}
  PROVE  /\ Accepted \subseteq Accepted'
         /\ pc[u] \in FlushPcs => queue' = queue
<1>1. Accepted \subseteq Accepted'
  <2>1. WireStep(t) \/ UNCHANGED wire
    BY DEF Step, Call, PublishStep, FlushStep, WireStep, GenerateSample, QueueCall, Make, FlushLock,
           AskConnected, PublishRefused, QueueMessage, FlushOffline, FlushOnline, PopFront,
           FlushDone, FlushRefused
  <2>. QED BY <2>1, WireMoves, Frames
<1>2. QueueMessage(t) \/ PopFront(t) \/ UNCHANGED queue
  BY DEF Step, Call, PublishStep, FlushStep, GenerateSample, QueueCall, Make, FlushLock,
         AskConnected, PublishAccepted, PublishRefused, PublishUnsure, FlushOffline, FlushOnline,
         FlushDone, FlushAccepted, FlushRefused, FlushUnsure
<1>3. pc[u] \in FlushPcs => ~QueueMessage(t) /\ ~PopFront(t)
  BY DEF TypeInv, ControlTypes, QueueMessage, PopFront, Goto, FlushPcs
<1>. QED BY <1>1, <1>2, <1>3

(* flushQueue() keeps its promise, step by step.                           *)
LEMMA StepKeepsDue ==
  ASSUME TypeInv, DueInv, NEW t \in Threads, Step(t) PROVE DueInv'
<1>1. ASSUME NEW u \in Threads \ {t} PROVE OnItsWay(u)'
  <2>1. /\ pc'[u] = pc[u] /\ payload'[u] = payload[u] /\ due'[u] = due[u] /\ reply'[u] = reply[u]
        /\ OnItsWay(u)
    BY OthersKeep DEF DueInv
  <2>2. Accepted \subseteq Accepted' /\ (pc[u] \in FlushPcs => queue' = queue)
    BY FlushIsAlone
  <2>. QED BY <2>1, <2>2 DEF OnItsWay, FlushPcs
<1>2. OnItsWay(t)'
  <2> USE Frames DEF DueInv, OnItsWay, TypeInv, ControlTypes, Goto, Return
  <2>1. CASE PublishStep(t) \/ GenerateSample(t) \/ QueueCall(t)
    BY <2>1 DEF PublishStep, AskConnected, PublishAccepted, PublishRefused, PublishUnsure,
                QueueMessage, GenerateSample, QueueCall, Make
  <2>2. CASE FlushLock(t)
    BY <2>2 DEF FlushLock
  <2>3. CASE FlushOffline(t) \/ FlushRefused(t) \/ FlushUnsure(t)
    BY <2>3 DEF FlushOffline, FlushRefused, FlushUnsure
  <2>4. CASE FlushOnline(t)
    BY <2>4 DEF FlushOnline
  <2>5. CASE PopFront(t)
    BY <2>5, QueueMoves DEF PopFront
  <2>6. CASE FlushDone(t)
    BY <2>6 DEF FlushDone, Contents
  <2>7. CASE FlushAccepted(t)
    BY <2>7, WireMoves DEF FlushAccepted, WireStep
  <2>. QED BY <2>1, <2>2, <2>3, <2>4, <2>5, <2>6, <2>7 DEF Step, Call, FlushStep
<1>. QED BY <1>1, <1>2 DEF DueInv

-----------------------------------------------------------------------------
(* Every message is in one place.                                          *)
OneHolder == \A t, u \in Threads : Holds(t) /\ Holds(u) /\ payload[t] = payload[u] => t = u
HeldNotQueued == \A t \in Threads : Holds(t) => payload[t] \notin Contents(queue)
QueuedOnce == \A i, j \in DOMAIN queue : queue[i] = queue[j] => i = j

(* What waits in the queue, or on the way into it or out of it, the        *)
(* transport has not accepted, unless it said that it had not.             *)
Unsent(m) == \A i \in DOMAIN wire : wire[i].msg = m => wire[i].by = "publish" /\ m \in unsure

WaitingUnsent ==
  /\ \A m \in Contents(queue) : Unsent(m)
  /\ \A t \in Threads : pc[t] \in {"push", "flushSend"} => Unsent(payload[t])
  /\ \A t \in Threads : pc[t] \in {"ask", "send"} => payload[t] \notin Accepted

(* Of two copies of a message on the wire one went out in a publish that   *)
(* was reported as failed, and the other in a flush.                       *)
WireOnce ==
  \A i, j \in DOMAIN wire : i # j /\ wire[i].msg = wire[j].msg
                             => wire[i].by # wire[j].by /\ wire[i].msg \in unsure

OnceInv == OneHolder /\ HeldNotQueued /\ QueuedOnce /\ WaitingUnsent /\ WireOnce

(* Where the wire grows.                                                   *)
LEMMA WireGrows ==
  ASSUME TypeInv, NEW t \in Threads, WireStep(t)
  PROVE  \E n \in Nat \ DOMAIN wire :
           /\ DOMAIN wire' = DOMAIN wire \cup {n}
           /\ \A i \in DOMAIN wire : wire'[i] = wire[i] /\ i \in Nat /\ i < n
           /\ wire'[n].msg = payload[t]
           /\ wire'[n].by = IF pc[t] = "send" THEN "publish" ELSE "flush"
<1> DEFINE n == Len(wire) + 1
           r == [msg |-> payload[t], by |-> IF pc[t] = "send" THEN "publish" ELSE "flush"]
<1>1. wire' = Append(wire, r)
  BY DEF WireStep, PublishAccepted, PublishUnsure, FlushAccepted, FlushUnsure, Return, Goto, Accept
<1>2. wire \in Seq(Sent(Made)) /\ r \in Sent(Made)
  BY WireMoves DEF TypeInv, DataTypes, Sent
<1>3. /\ DOMAIN wire = 1..Len(wire) /\ DOMAIN wire' = 1..Len(wire) + 1 /\ Len(wire) \in Nat
      /\ wire'[n] = r /\ \A i \in 1..Len(wire) : wire'[i] = wire[i]
  BY <1>1, <1>2
<1>4. n \in Nat \ DOMAIN wire /\ DOMAIN wire' = DOMAIN wire \cup {n}
  BY <1>3
<1>5. \A i \in DOMAIN wire : wire'[i] = wire[i] /\ i \in Nat /\ i < n
  BY <1>3
<1>. QED BY <1>3, <1>4, <1>5

(* Where the queue grows and shrinks.                                      *)
LEMMA QueueGrows ==
  ASSUME TypeInv, NEW t \in Threads, QueueMessage(t)
  PROVE  \E n \in Nat \ DOMAIN queue :
           /\ DOMAIN queue' = DOMAIN queue \cup {n}
           /\ \A i \in DOMAIN queue : queue'[i] = queue[i] /\ i \in Nat /\ i < n
           /\ queue'[n] = payload[t]
<1> DEFINE n == Len(queue) + 1
<1>1. queue' = Append(queue, payload[t]) /\ queue \in Seq(Made) /\ payload[t] \in Made
  BY DEF QueueMessage, Return, Goto, Holds, PublishPcs, TypeInv, ControlTypes, DataTypes
<1>2. /\ DOMAIN queue = 1..Len(queue) /\ DOMAIN queue' = 1..Len(queue) + 1 /\ Len(queue) \in Nat
      /\ queue'[n] = payload[t] /\ \A i \in 1..Len(queue) : queue'[i] = queue[i]
  BY <1>1
<1>3. n \in Nat \ DOMAIN queue /\ DOMAIN queue' = DOMAIN queue \cup {n}
  BY <1>2
<1>4. \A i \in DOMAIN queue : queue'[i] = queue[i] /\ i \in Nat /\ i < n
  BY <1>2
<1>. QED BY <1>2, <1>3, <1>4

LEMMA QueueShrinks ==
  ASSUME TypeInv, NEW t \in Threads, PopFront(t)
  PROVE  /\ 1 \in DOMAIN queue /\ payload'[t] = queue[1]
         /\ \A i \in DOMAIN queue' :
              i \in Nat /\ i > 0 /\ i + 1 \in DOMAIN queue /\ queue'[i] = queue[i + 1]
<1>1. queue \in Seq(Made) /\ queue # <<>> /\ payload'[t] = Head(queue) /\ queue' = Tail(queue)
  BY DEF PopFront, TypeInv, ControlTypes, DataTypes
<1>2. /\ DOMAIN queue = 1..Len(queue) /\ Len(queue) \in Nat /\ Len(queue) > 0
      /\ DOMAIN queue' = 1..Len(queue) - 1 /\ Head(queue) = queue[1]
      /\ \A i \in 1..Len(queue) - 1 : queue'[i] = queue[i + 1]
  BY <1>1, HeadTailProperties
<1>. QED BY <1>1, <1>2

(* The transport accepts a message: from publishSample(), which may be told *)
(* that it failed, or from flushQueue(), which has taken it off the queue.  *)
LEMMA WireKeepsOnce ==
  ASSUME TypeInv, OnceInv, NEW t \in Threads, WireStep(t) PROVE OnceInv'
<1> DEFINE m == payload[t]
<1>1. \A u \in Threads \ {t} : pc'[u] = pc[u] /\ payload'[u] = payload[u]
  BY OthersKeep DEF Step, PublishStep, FlushStep, WireStep
<1>2. /\ pc[t] \in {"send", "flushSend"} /\ UNCHANGED queue
      /\ unsure' = IF PublishUnsure(t) THEN unsure \cup {m} ELSE unsure
      /\ IF PublishUnsure(t) THEN pc[t] = "send" /\ pc'[t] = "push" /\ payload'[t] = m
         ELSE pc'[t] \in {"idle", "drain"}
  BY DEF WireStep, PublishAccepted, PublishUnsure, FlushAccepted, FlushUnsure, Return, Goto,
         TypeInv, ControlTypes
<1>3. PICK n \in Nat \ DOMAIN wire :
        /\ DOMAIN wire' = DOMAIN wire \cup {n}
        /\ \A i \in DOMAIN wire : wire'[i] = wire[i] /\ i \in Nat /\ i < n
        /\ wire'[n].msg = m /\ wire'[n].by = IF pc[t] = "send" THEN "publish" ELSE "flush"
  BY WireGrows
<1>4. Holds(t) /\ Accepted' = Accepted \cup {m}
  BY WireMoves
<1>5. /\ pc[t] = "send" => \A i \in DOMAIN wire : wire[i].msg # m
      /\ pc[t] = "flushSend" => Unsent(m)
  BY DEF OnceInv, WaitingUnsent, Accepted
<1>6. \A u \in Threads \ {t} : Holds(u) => payload[u] # m
  BY <1>4 DEF OnceInv, OneHolder
<1>7. m \notin Contents(queue)
  BY <1>4 DEF OnceInv, HeldNotQueued
<1>8. OneHolder' /\ HeldNotQueued' /\ QueuedOnce'
  BY <1>1, <1>2, <1>4 DEF OnceInv, OneHolder, HeldNotQueued, QueuedOnce, Holds, PublishPcs
<1>9. ASSUME NEW x, Unsent(x), x # m PROVE Unsent(x)'
  BY <1>2, <1>3, <1>9 DEF Unsent
<1>10. PublishUnsure(t) => Unsent(m)'
  BY <1>2, <1>3, <1>5 DEF Unsent
<1>11. WaitingUnsent'
  <2>1. \A x \in Contents(queue') : Unsent(x)'
    BY <1>2, <1>7, <1>9 DEF OnceInv, WaitingUnsent
  <2>2. ASSUME NEW u \in Threads, pc'[u] \in {"push", "flushSend"} PROVE Unsent(payload[u])'
    <3>1. CASE u = t
      BY <1>2, <1>10, <2>2, <3>1
    <3>2. CASE u # t
      <4>1. Unsent(payload[u]) /\ payload[u] # m /\ payload'[u] = payload[u]
        BY <1>1, <1>6, <2>2, <3>2 DEF OnceInv, WaitingUnsent, Holds, PublishPcs
      <4>. QED BY <1>9, <4>1 DEF Unsent
    <3>. QED BY <3>1, <3>2
  <2>3. ASSUME NEW u \in Threads, pc'[u] \in {"ask", "send"} PROVE payload'[u] \notin Accepted'
    BY <1>1, <1>2, <1>4, <1>6, <2>3 DEF OnceInv, WaitingUnsent, Holds, PublishPcs
  <2>. QED BY <2>1, <2>2, <2>3 DEF WaitingUnsent, Unsent
<1>12. WireOnce'
  BY <1>2, <1>3, <1>5 DEF OnceInv, WireOnce, Unsent
<1>. QED BY <1>8, <1>11, <1>12 DEF OnceInv

(* Messages are made, queued, taken off the queue and given up one by one. *)
LEMMA StepKeepsOnce ==
  ASSUME TypeInv, OnceInv, NEW t \in Threads, Step(t) PROVE OnceInv'
<1>1. \A u \in Threads \ {t} : pc'[u] = pc[u] /\ payload'[u] = payload[u]
  BY OthersKeep
<1> USE DEF OnceInv, OneHolder, HeldNotQueued, WaitingUnsent, Holds, PublishPcs
<1>2. CASE WireStep(t)
  BY <1>2, WireKeepsOnce
<1>3. CASE QueueMessage(t)
  <2>1. pc[t] = "push" /\ pc'[t] = "idle" /\ UNCHANGED <<wire, unsure>>
    BY <1>3 DEF QueueMessage, Return, Goto, TypeInv, ControlTypes
  <2>2. Contents(queue') = Contents(queue) \cup {payload[t]}
    BY <1>3, QueueMoves
  <2>3. QueuedOnce'
    <3>1. PICK n \in Nat \ DOMAIN queue :
            /\ DOMAIN queue' = DOMAIN queue \cup {n}
            /\ \A i \in DOMAIN queue : queue'[i] = queue[i] /\ i \in Nat /\ i < n
            /\ queue'[n] = payload[t]
      BY <1>3, QueueGrows
    <3>2. \A i \in DOMAIN queue : queue[i] # payload[t]
      BY <2>1 DEF Contents
    <3>. QED BY <3>1, <3>2 DEF QueuedOnce
  <2>4. OneHolder' /\ HeldNotQueued'
    BY <1>1, <2>1, <2>2
  <2>5. WaitingUnsent' /\ WireOnce'
    BY <1>1, <2>1, <2>2, Frames DEF Unsent, WireOnce
  <2>. QED BY <2>3, <2>4, <2>5
<1>4. CASE PopFront(t)
  <2>1. pc[t] = "drain" /\ pc'[t] = "flushSend" /\ UNCHANGED <<wire, unsure>>
    BY <1>4 DEF PopFront, Goto, TypeInv, ControlTypes
  <2>2. Contents(queue) = {payload'[t]} \cup Contents(queue')
    BY <1>4, QueueMoves
  <2>3. QueuedOnce' /\ payload'[t] \notin Contents(queue')
    BY <1>4, QueueShrinks DEF QueuedOnce, Contents
  <2>4. OneHolder' /\ HeldNotQueued'
    BY <1>1, <2>1, <2>2, <2>3
  <2>5. WaitingUnsent' /\ WireOnce'
    BY <1>1, <2>1, <2>2, Frames DEF Unsent, WireOnce
  <2>. QED BY <2>3, <2>4, <2>5
<1>5. CASE FlushRefused(t) \/ QuietStep(t)
  <2>1. UNCHANGED <<queue, wire, unsure>>
    BY <1>5, QuietKeeps DEF FlushRefused
  <2>2. Holds(t)' => Holds(t) /\ payload'[t] = payload[t]
    BY <1>5, QuietKeeps DEF FlushRefused, Return, Goto, TypeInv, ControlTypes
  <2>3. /\ pc'[t] = "send" => pc[t] = "ask"
        /\ pc'[t] = "push" => pc[t] \in {"ask", "send"}
        /\ pc'[t] \notin {"ask", "flushSend"}
    BY <1>5 DEF FlushRefused, QuietStep, FlushLock, AskConnected, PublishRefused, FlushOffline,
                FlushOnline, FlushDone, Return, Goto, TypeInv, ControlTypes
  <2>4. OneHolder' /\ HeldNotQueued' /\ QueuedOnce' /\ WireOnce'
    BY <1>1, <2>1, <2>2 DEF QueuedOnce, WireOnce
  <2>5. WaitingUnsent'
    <3>1. Accepted' = Accepted /\ \A x : Unsent(x)' <=> Unsent(x)
      BY <2>1, Frames DEF Unsent
    <3>2. pc'[t] = "push" => Unsent(payload'[t])
      BY <2>2, <2>3 DEF Unsent, Accepted
    <3>. QED BY <1>1, <2>1, <2>2, <2>3, <3>1, <3>2 DEF Unsent
  <2>. QED BY <2>4, <2>5
<1>6. CASE GenerateSample(t) \/ QueueCall(t)
  <2>1. /\ UNCHANGED <<queue, wire, unsure>> /\ pc'[t] \in {"ask", "push"}
        /\ payload'[t] = Len(made) + 1
    BY <1>6 DEF GenerateSample, QueueCall, Make, Goto, TypeInv, ControlTypes
  <2>2. payload'[t] \notin Made
    BY <2>1 DEF Made, TypeInv, MadeTypes
  <2>3. Contents(queue) \subseteq Made /\ Accepted \subseteq Made
    BY ContentsType, AcceptedType DEF TypeInv, DataTypes
  <2>4. \A u \in Threads : Holds(u) => payload[u] \in Made
    BY DEF TypeInv, ControlTypes
  <2>5. OneHolder' /\ HeldNotQueued' /\ QueuedOnce' /\ WireOnce'
    BY <1>1, <2>1, <2>2, <2>3, <2>4 DEF QueuedOnce, WireOnce
  <2>6. WaitingUnsent'
    <3>1. Accepted' = Accepted /\ \A x : Unsent(x)' <=> Unsent(x)
      BY <2>1, Frames DEF Unsent
    <3>2. Unsent(payload'[t]) /\ payload'[t] \notin Accepted
      BY <2>2, <2>3 DEF Unsent, Accepted
    <3>. QED BY <1>1, <2>1, <3>1, <3>2 DEF Unsent
  <2>. QED BY <2>5, <2>6
<1>. QED BY <1>2, <1>3, <1>4, <1>5, <1>6
         DEF Step, Call, PublishStep, FlushStep, WireStep, QuietStep

(* At most one copy of a message is on the wire, two when it was unsure.   *)
LEMMA WireOnceIsNoDuplicates == TypeInv /\ WireOnce => NoDuplicates
<1> SUFFICES ASSUME TypeInv, WireOnce, NEW m \in Made
             PROVE  Cardinality({i \in DOMAIN wire : wire[i].msg = m})
                      <= IF m \in unsure THEN 2 ELSE 1
  BY DEF NoDuplicates
<1> DEFINE copies == {i \in DOMAIN wire : wire[i].msg = m}
<1>1. \A i \in DOMAIN wire : wire[i].by \in {"publish", "flush"}
  <2> SUFFICES ASSUME NEW i \in DOMAIN wire PROVE wire[i].by \in {"publish", "flush"}
    OBVIOUS
  <2>1. wire[i] \in Sent(Made)
    BY DEF TypeInv, DataTypes
  <2>. QED BY <2>1 DEF Sent
<1>2. CASE copies = {}
  <2>1. Cardinality({}) = 0
    BY FS_EmptySet
  <2>. QED BY <1>2, <2>1
<1>3. CASE copies # {}
  <2>1. PICK i : i \in copies
    BY <1>3
  <2>2. CASE copies = {i}
    <3>1. Cardinality({i}) = 1
      BY FS_Singleton
    <3>. QED BY <2>2, <3>1
  <2>3. CASE copies # {i}
    <3>1. PICK j : j \in copies /\ j # i
      BY <2>1, <2>3
    <3>2. m \in unsure
      BY <2>1, <3>1 DEF WireOnce
    <3>3. copies = {i, j}
      BY <1>1, <2>1, <3>1 DEF WireOnce
    <3>4. Cardinality({i, j}) = 2
      <4>1. IsFiniteSet({i}) /\ Cardinality({i}) = 1
        BY FS_Singleton
      <4>2. Cardinality({i} \cup {j}) = Cardinality({i}) + 1
        BY <3>1, <4>1, FS_AddElement
      <4>3. {i} \cup {j} = {i, j}
        OBVIOUS
      <4>. QED BY <4>1, <4>2, <4>3
    <3>. QED BY <3>2, <3>3, <3>4
  <2>. QED BY <2>2, <2>3
<1>. QED BY <1>2, <1>3

-----------------------------------------------------------------------------
(* The order of a thread's messages.  What it has just made is its newest; *)
(* then come those in the queue, front first, the one flushQueue() has      *)
(* taken off it, and those it has sent.                                    *)
Newest ==
  \A t \in Threads : pc[t] \in PublishPcs =>
    made[payload[t]] = t /\ \A m \in Made : made[m] = t => m <= payload[t]

QueueInOrder ==
  \A i, j \in DOMAIN queue : i < j /\ made[queue[i]] = made[queue[j]] => queue[i] < queue[j]

TakenFirst ==
  \A t \in Threads : pc[t] = "flushSend" =>
    \A m \in Contents(queue) : made[m] = made[payload[t]] => payload[t] < m

SentBefore(m) ==
  \A i \in DOMAIN wire :
    wire[i].by = "flush" /\ made[wire[i].msg] = made[m] => wire[i].msg < m

SentFirst ==
  /\ \A m \in Contents(queue) : SentBefore(m)
  /\ \A t \in Threads : pc[t] = "flushSend" => SentBefore(payload[t])

OrderInv == Newest /\ QueueInOrder /\ TakenFirst /\ SentFirst /\ FlushedInOrder

(* The transport accepts a message.                                        *)
LEMMA WireKeepsOrder ==
  ASSUME TypeInv, OnceInv, OrderInv, NEW t \in Threads, WireStep(t) PROVE OrderInv'
<1> DEFINE m == payload[t]
<1>1. \A u \in Threads \ {t} : pc'[u] = pc[u] /\ payload'[u] = payload[u]
  BY OthersKeep DEF Step, PublishStep, FlushStep, WireStep
<1>2. /\ pc[t] \in {"send", "flushSend"} /\ UNCHANGED <<queue, made>> /\ Made' = Made
      /\ pc'[t] \in {"push", "idle", "drain"}
      /\ pc'[t] = "push" => pc[t] = "send" /\ payload'[t] = m
  BY Frames DEF WireStep, PublishAccepted, PublishUnsure, FlushAccepted, FlushUnsure, Return, Goto,
                TypeInv, ControlTypes
<1>3. PICK n \in Nat \ DOMAIN wire :
        /\ DOMAIN wire' = DOMAIN wire \cup {n}
        /\ \A i \in DOMAIN wire : wire'[i] = wire[i] /\ i \in Nat /\ i < n
        /\ wire'[n].msg = m /\ wire'[n].by = IF pc[t] = "send" THEN "publish" ELSE "flush"
  BY WireGrows
<1>4. Newest' /\ QueueInOrder' /\ TakenFirst'
  BY <1>1, <1>2 DEF OrderInv, Newest, QueueInOrder, TakenFirst, PublishPcs
<1>5. CASE pc[t] = "send"
  <2>1. SentFirst'
    BY <1>1, <1>2, <1>3, <1>5 DEF OrderInv, SentFirst, SentBefore
  <2>2. FlushedInOrder'
    BY <1>2, <1>3, <1>5 DEF OrderInv, FlushedInOrder
  <2>. QED BY <1>4, <2>1, <2>2 DEF OrderInv
<1>6. CASE pc[t] = "flushSend"
  <2>1. \A u \in Threads \ {t} : pc[u] # "flushSend"
    BY <1>6 DEF TypeInv, ControlTypes, FlushPcs
  <2>2. \A x \in Contents(queue) : made[x] = made[m] => m < x
    BY <1>6 DEF OrderInv, TakenFirst
  <2>3. SentFirst'
    BY <1>1, <1>2, <1>3, <1>6, <2>1, <2>2 DEF OrderInv, SentFirst, SentBefore
  <2>4. SentBefore(m)
    BY <1>6 DEF OrderInv, SentFirst
  <2>5. FlushedInOrder'
    BY <1>2, <1>3, <1>6, <2>4 DEF OrderInv, FlushedInOrder, SentBefore
  <2>. QED BY <1>4, <2>3, <2>5 DEF OrderInv
<1>. QED BY <1>2, <1>5, <1>6

(* A message goes to the back of the queue: it is its thread's newest.     *)
LEMMA QueueKeepsOrder ==
  ASSUME TypeInv, OnceInv, OrderInv, NEW t \in Threads, QueueMessage(t) PROVE OrderInv'
<1> DEFINE m == payload[t]
<1>1. \A u \in Threads \ {t} : pc'[u] = pc[u] /\ payload'[u] = payload[u]
  BY OthersKeep DEF Step, PublishStep
<1>2. /\ pc[t] = "push" /\ pc'[t] = "idle" /\ UNCHANGED <<wire, made>> /\ Made' = Made
      /\ mutex = NoThread
  BY Frames DEF QueueMessage, Return, Goto, TypeInv, ControlTypes
<1>3. PICK n \in Nat \ DOMAIN queue :
        /\ DOMAIN queue' = DOMAIN queue \cup {n}
        /\ \A i \in DOMAIN queue : queue'[i] = queue[i] /\ i \in Nat /\ i < n
        /\ queue'[n] = m
  BY QueueGrows
<1>4. Contents(queue') = Contents(queue) \cup {m}
  BY QueueMoves
<1>5. \A u \in Threads : pc[u] # "flushSend"
  BY <1>2 DEF TypeInv, ControlTypes, FlushPcs
<1>6. m \in Made /\ made[m] = t /\ \A x \in Made : made[x] = t => x <= m
  BY <1>2 DEF OrderInv, Newest, PublishPcs, TypeInv, ControlTypes, Holds
<1>7. ASSUME NEW x \in Made, made[x] = made[m], x # m PROVE x < m
  <2>1. x \in Nat /\ m \in Nat /\ x <= m
    BY <1>6, <1>7, MadeIsNat DEF TypeInv
  <2>. QED BY <1>7, <2>1
<1>8. Newest'
  BY <1>1, <1>2 DEF OrderInv, Newest, PublishPcs
<1>9. QueueInOrder'
  <2>1. \A i \in DOMAIN queue : queue[i] # m /\ queue[i] \in Made
    BY <1>2 DEF OnceInv, HeldNotQueued, Contents, Holds, PublishPcs, TypeInv, DataTypes
  <2>. QED BY <1>2, <1>3, <1>7, <2>1 DEF OrderInv, QueueInOrder
<1>10. TakenFirst'
  BY <1>1, <1>2, <1>5 DEF TakenFirst
<1>11. SentFirst'
  <2>1. SentBefore(m)
    <3> SUFFICES ASSUME NEW i \in DOMAIN wire, wire[i].by = "flush",
                        made[wire[i].msg] = made[m]
                 PROVE  wire[i].msg < m
      BY DEF SentBefore
    <3>1. wire[i].msg \in Made
      BY AcceptedType DEF Accepted
    <3>2. wire[i].msg # m
      BY <1>2 DEF OnceInv, WaitingUnsent, Unsent
    <3>. QED BY <1>7, <3>1, <3>2
  <2>. QED BY <1>1, <1>2, <1>4, <1>5, <2>1 DEF OrderInv, SentFirst, SentBefore
<1>. QED BY <1>2, <1>8, <1>9, <1>10, <1>11 DEF OrderInv, FlushedInOrder

(* flushQueue() takes the front of the queue.                              *)
LEMMA PopKeepsOrder ==
  ASSUME TypeInv, OrderInv, NEW t \in Threads, PopFront(t) PROVE OrderInv'
<1>1. \A u \in Threads \ {t} : pc'[u] = pc[u] /\ payload'[u] = payload[u]
  BY OthersKeep DEF Step, FlushStep
<1>2. /\ pc[t] = "drain" /\ pc'[t] = "flushSend" /\ UNCHANGED <<wire, made>> /\ Made' = Made
  BY Frames DEF PopFront, Goto, TypeInv, ControlTypes
<1>3. \A u \in Threads \ {t} : pc[u] # "flushSend"
  BY <1>2 DEF TypeInv, ControlTypes, FlushPcs
<1>4. Contents(queue) = {payload'[t]} \cup Contents(queue')
  BY QueueMoves
<1>5. Newest'
  BY <1>1, <1>2 DEF OrderInv, Newest, PublishPcs
<1>6. QueueInOrder'
  BY <1>2, QueueShrinks DEF OrderInv, QueueInOrder
<1>7. TakenFirst'
  <2>1. \A i \in DOMAIN queue' : made[queue'[i]] = made[payload'[t]] => payload'[t] < queue'[i]
    BY QueueShrinks DEF OrderInv, QueueInOrder
  <2>. QED BY <1>1, <1>2, <1>3, <2>1 DEF TakenFirst, Contents
<1>8. SentFirst'
  BY <1>1, <1>2, <1>3, <1>4 DEF OrderInv, SentFirst, SentBefore
<1>. QED BY <1>2, <1>5, <1>6, <1>7, <1>8 DEF OrderInv, FlushedInOrder

(* The other steps: a new message is newer than all, and the rest move none. *)
LEMMA StepKeepsOrder ==
  ASSUME TypeInv, OnceInv, OrderInv, NEW t \in Threads, Step(t) PROVE OrderInv'
<1>1. \A u \in Threads \ {t} : pc'[u] = pc[u] /\ payload'[u] = payload[u]
  BY OthersKeep
<1>2. CASE FlushRefused(t) \/ QuietStep(t)
  <2>1. UNCHANGED <<queue, wire, made>> /\ Made' = Made
    BY <1>2, QuietKeeps, Frames DEF FlushRefused
  <2>2. /\ pc'[t] # "flushSend"
        /\ pc'[t] \in PublishPcs => pc[t] \in PublishPcs /\ payload'[t] = payload[t]
    BY <1>2 DEF FlushRefused, QuietStep, FlushLock, AskConnected, PublishRefused, FlushOffline,
                FlushOnline, FlushDone, Return, Goto, TypeInv, ControlTypes, PublishPcs
  <2>3. Newest'
    BY <1>1, <2>1, <2>2 DEF OrderInv, Newest
  <2>4. QueueInOrder' /\ FlushedInOrder'
    BY <2>1 DEF OrderInv, QueueInOrder, FlushedInOrder
  <2>5. TakenFirst' /\ SentFirst'
    BY <1>1, <2>1, <2>2 DEF OrderInv, TakenFirst, SentFirst, SentBefore
  <2>. QED BY <2>3, <2>4, <2>5 DEF OrderInv
<1>3. CASE GenerateSample(t) \/ QueueCall(t)
  <2>1. /\ UNCHANGED <<queue, wire>> /\ pc'[t] \in {"ask", "push"}
        /\ payload'[t] = Len(made) + 1
    BY <1>3 DEF GenerateSample, QueueCall, Make, Goto, TypeInv, ControlTypes
  <2>2. /\ Len(made) \in Nat /\ Made' = Made \cup {Len(made) + 1} /\ made'[Len(made) + 1] = t
        /\ \A m \in Made : made'[m] = made[m] /\ m \in Nat /\ m <= Len(made)
    BY <1>3 DEF GenerateSample, QueueCall, Make, Made, TypeInv, MadeTypes
  <2>3. Contents(queue) \subseteq Made /\ Accepted \subseteq Made
    BY ContentsType, AcceptedType DEF TypeInv, DataTypes
  <2>4. \A i \in DOMAIN queue : queue[i] \in Made
    BY <2>3 DEF Contents
  <2>5. \A i \in DOMAIN wire : wire[i].msg \in Made
    BY <2>3 DEF Accepted
  <2>6. \A u \in Threads : Holds(u) => payload[u] \in Made
    BY DEF TypeInv, ControlTypes
  <2>7. Newest'
    BY <1>1, <2>1, <2>2, <2>6 DEF OrderInv, Newest, PublishPcs, Holds
  <2>8. QueueInOrder' /\ FlushedInOrder'
    BY <2>1, <2>2, <2>4, <2>5 DEF OrderInv, QueueInOrder, FlushedInOrder
  <2>9. TakenFirst'
    BY <1>1, <2>1, <2>2, <2>3, <2>6 DEF OrderInv, TakenFirst, Holds
  <2>10. SentFirst'
    <3>1. \A m \in Made : SentBefore(m) => SentBefore(m)'
      BY <2>1, <2>2, <2>5 DEF SentBefore
    <3>2. \A m \in Contents(queue') : SentBefore(m)'
      BY <2>1, <2>3, <3>1 DEF OrderInv, SentFirst
    <3>3. ASSUME NEW u \in Threads, pc'[u] = "flushSend" PROVE SentBefore(payload[u])'
      <4>1. u # t /\ pc[u] = "flushSend" /\ payload'[u] = payload[u] /\ payload[u] \in Made
        BY <1>1, <2>1, <2>6, <3>3 DEF Holds
      <4>2. SentBefore(payload[u])
        BY <4>1 DEF OrderInv, SentFirst
      <4>. QED BY <2>1, <2>2, <2>5, <4>1, <4>2 DEF SentBefore
    <3>. QED BY <3>2, <3>3 DEF SentFirst, SentBefore
  <2>. QED BY <2>7, <2>8, <2>9, <2>10 DEF OrderInv
<1>. QED
  BY <1>2, <1>3, WireKeepsOrder, QueueKeepsOrder, PopKeepsOrder
  DEF Step, Call, PublishStep, FlushStep, WireStep, QuietStep

-----------------------------------------------------------------------------
(* The inductive invariant.                                                *)
IInv == TypeInv /\ NothingVanishes /\ DueInv /\ OnceInv /\ OrderInv

(* The manager starts in the invariant.                                    *)
LEMMA InitIInv == Init => IInv
<1> SUFFICES ASSUME Init PROVE IInv
  OBVIOUS
<1>1. /\ Made = {} /\ DOMAIN queue = {} /\ DOMAIN wire = {} /\ Contents(queue) = {}
      /\ \A t \in Threads : pc[t] = "idle" /\ reply[t] = "none"
  BY DEF Init, Made, Contents
<1>2. NothingVanishes /\ DueInv
  BY <1>1 DEF NothingVanishes, DueInv, OnItsWay
<1>3. OnceInv
  BY <1>1 DEF OnceInv, OneHolder, HeldNotQueued, QueuedOnce, WaitingUnsent, WireOnce, Holds,
              PublishPcs
<1>4. OrderInv
  BY <1>1 DEF OrderInv, Newest, QueueInOrder, TakenFirst, SentFirst, FlushedInOrder, PublishPcs
<1>. QED BY InitTypeInv, <1>2, <1>3, <1>4 DEF IInv

(* The link changes without a message moving.                              *)
LEMMA LinkKeeps ==
  ASSUME IInv, LinkChange \/ UNCHANGED vars
  PROVE  NothingVanishes' /\ DueInv' /\ OnceInv' /\ OrderInv'
<1>1. /\ UNCHANGED <<mutex, queue, pc, payload, reply, made, wire, unsure, dropped, due>>
      /\ Made' = Made /\ Accepted' = Accepted
  BY Frames DEF LinkChange, vars
<1>2. NothingVanishes' /\ DueInv'
  BY <1>1 DEF IInv, NothingVanishes, Somewhere, Holds, DueInv, OnItsWay
<1>3. OnceInv'
  BY <1>1 DEF IInv, OnceInv, OneHolder, HeldNotQueued, QueuedOnce, WaitingUnsent, WireOnce, Holds,
              Unsent
<1>4. OrderInv'
  BY <1>1 DEF IInv, OrderInv, Newest, QueueInOrder, TakenFirst, SentFirst, SentBefore,
              FlushedInOrder
<1>. QED BY <1>2, <1>3, <1>4

(* IInv is an invariant.                                                   *)
THEOREM InvariantHolds == Spec => []IInv
<1>1. IInv /\ [Next]_vars => IInv'
  <2> SUFFICES ASSUME IInv, [Next]_vars PROVE IInv'
    OBVIOUS
  <2>1. TypeInv'
    BY NextPreservesTypes DEF IInv
  <2>2. ASSUME NEW t \in Threads, Step(t)
        PROVE  NothingVanishes' /\ DueInv' /\ OnceInv' /\ OrderInv'
    BY <2>2, StepLosesNothing, StepKeepsDue, StepKeepsOnce, StepKeepsOrder DEF IInv
  <2>. QED BY <2>1, <2>2, LinkKeeps DEF Next, Step, IInv
<1>. QED BY InitIInv, <1>1, PTL DEF Spec

(* A message is lost by a flushQueue() whose publish fails, or not at all. *)
THEOREM OnlyFlushLoses == Spec => []LostOnlyByFlush
<1>1. IInv => LostOnlyByFlush
  BY NothingVanishesIsLost DEF IInv
<1>. QED BY <1>1, InvariantHolds, PTL

(* The transport gets a message once, or twice when it was unsure of it.   *)
THEOREM SentOnce == Spec => []NoDuplicates
<1>1. IInv => NoDuplicates
  BY WireOnceIsNoDuplicates DEF IInv, OnceInv
<1>. QED BY <1>1, InvariantHolds, PTL

(* The queued messages of a thread are flushed in the order it made them.  *)
THEOREM FlushKeepsOrder == Spec => []FlushedInOrder
<1>1. IInv => FlushedInOrder
  BY DEF IInv, OrderInv
<1>. QED BY <1>1, InvariantHolds, PTL

(* flushQueue() = true: all it found in the queue was accepted.            *)
THEOREM FlushKeepsPromise == Spec => []FlushTrueDelivered
<1>1. IInv => FlushTrueDelivered
  BY DEF IInv, DueInv, OnItsWay, FlushTrueDelivered
<1>. QED BY <1>1, InvariantHolds, PTL

(* In flushQueue() mutex_ is held, so nobody else changes the queue.       *)
LEMMA FlushersExclude ==
  ASSUME TypeInv, NEW t \in Threads, pc[t] \in FlushPcs, NEW u \in Threads, u # t,
         Step(u)
  PROVE  queue' = queue /\ pc'[t] = pc[t]
<1> USE DEF Step
<1>1. mutex = t /\ pc[u] \notin FlushPcs
  BY DEF TypeInv, ControlTypes
<1>2. ~QueueMessage(u) /\ ~FlushLock(u) /\ ~FlushStep(u)
  BY <1>1 DEF QueueMessage, FlushLock, FlushStep, FlushOffline, FlushOnline, PopFront, FlushDone,
              FlushAccepted, FlushRefused, FlushUnsure, Goto, Return, FlushPcs
<1>. QED BY <1>2 DEF TypeInv, ControlTypes, Call, GenerateSample, QueueCall, Make, PublishStep,
                    AskConnected, PublishAccepted, PublishRefused, PublishUnsure, Goto, Return

(* A step of flushQueue() ends it or leaves less to do.                    *)
LEMMA FlushAdvances ==
  ASSUME TypeInv, NEW t \in Threads, FlushStep(t)
  PROVE  pc'[t] = "idle" \/ Left(t)' < Left(t)
<1>1. /\ Len(queue) \in Nat /\ queue \in Seq(Made)
      /\ pc \in [Threads -> {"idle"} \cup PublishPcs \cup FlushPcs]
  BY DEF TypeInv, ControlTypes, DataTypes
<1>2. CASE FlushOffline(t) \/ FlushDone(t) \/ FlushRefused(t) \/ FlushUnsure(t)
  BY <1>1, <1>2 DEF FlushOffline, FlushDone, FlushRefused, FlushUnsure, Return, Goto
<1>3. CASE FlushOnline(t) \/ FlushAccepted(t)
  <2>1. queue' = queue /\ pc[t] \in {"flushAsk", "flushSend"} /\ pc'[t] = "drain"
    BY <1>1, <1>3 DEF FlushOnline, FlushAccepted, Goto
  <2>. QED BY <1>1, <2>1 DEF Left
<1>4. CASE PopFront(t)
  <2>1. Len(queue') = Len(queue) - 1 /\ pc[t] = "drain" /\ pc'[t] = "flushSend"
    BY <1>1, <1>4 DEF PopFront, Goto
  <2>. QED BY <1>1, <2>1 DEF Left
<1>. QED BY <1>2, <1>3, <1>4 DEF FlushStep

(* flushQueue() runs down whatever the other threads do, for any number of *)
(* threads and of messages: only its own thread and the transport can      *)
(* delay its return.                                                       *)
THEOREM FlushAlwaysRunsDown == Spec => FlushRunsDown
<1> DEFINE Goal(t) == \/ pc'[t] = "idle" \/ Left(t)' < Left(t)
                      \/ pc'[t] = pc[t] /\ Left(t)' = Left(t)
<1> USE DEF Step
<1>1. ASSUME TypeInv, Next, NEW t \in Threads, pc[t] \in FlushPcs PROVE Goal(t)
  <2>1. CASE LinkChange
    BY <1>1, <2>1 DEF LinkChange, Left
  <2>2. CASE Step(t)
    <3>1. FlushStep(t)
      BY <1>1, <2>2 DEF Call, GenerateSample, QueueCall, Make, FlushLock, PublishStep,
                        AskConnected, PublishAccepted, PublishRefused, PublishUnsure,
                        QueueMessage, Goto, Return, FlushPcs
    <3>. QED BY <1>1, <3>1, FlushAdvances
  <2>3. ASSUME NEW u \in Threads, u # t, Step(u) PROVE Goal(t)
    BY <1>1, <2>3, FlushersExclude DEF Left
  <2>. QED BY <1>1, <2>1, <2>2, <2>3 DEF Next
<1>2. TypeInv /\ [Next]_vars => [\A t \in Threads : pc[t] \in FlushPcs => Goal(t)]_vars
  BY <1>1
<1>. QED BY <1>2, TypeInvHolds, PTL DEF Spec, FlushRunsDown
===============================================================================
