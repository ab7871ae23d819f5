------------------------------ MODULE DemoProofs ------------------------------
(***************************************************************************)
(* However its threads are scheduled, the demo ends with a payload shown   *)
(* and is not killed, unless accept() fails.                               *)
(*                                                                         *)
(* The worker sends at once and after kPublishIntervalSec, and main()      *)
(* stops it before the third sample (Schedule), so wake.worker tells how   *)
(* often it has sent; how far the listener and the connection can be by    *)
(* then say Link and Sent.  Of the two durations the proof uses no more    *)
(* than Durations says: it is what the demo depends on.                    *)
(***************************************************************************)
EXTENDS Demo, TLAPS

P == kPublishIntervalSec
R == kDemoRunDurationSec

(* The demo runs for longer than one interval and for less than two.       *)
LEMMA Durations == P \in Nat /\ R \in Nat /\ P < R /\ R < 2 * P
  BY DEF P, R, kPublishIntervalSec, kDemoRunDurationSec

Switches ==
  /\ stopReq \in BOOLEAN /\ listening \in BOOLEAN /\ inbox \in BOOLEAN
  /\ shown \in BOOLEAN /\ noAccept \in BOOLEAN

Types ==
  /\ main \in {"spawnListener", "start", "connect", "spawnWorker", "failed", "sleep",
               "joinWorker", "joinListener", "ended"}
  /\ worker \in {"none", "check", "publish", "sleep", "hangUp", "exited"}
  /\ listener \in {"none", "socket", "listen", "announce", "accept", "recv", "closeClient",
                   "close", "exited"}
  /\ Switches
  /\ wake \in [main : {0, R}, worker : {0, P, 2 * P}] /\ now \in {0, P, R, 2 * P}
  /\ conn \in {"none", "queued", "accepted", "peerClosed", "resetting", "aborted", "broken",
               "hungUp", "hungUpQueued"}

Schedule ==
  /\ listener = "none" <=> main = "spawnListener"
  /\ worker = "none" <=>
       \/ main \in {"spawnListener", "start", "connect", "spawnWorker", "failed"}
       \/ (main = "ended" /\ ~stopReq)
  /\ worker = "none" => now = 0 /\ wake.worker = 0 /\ status # "0"
  /\ worker # "none" => wake.main = R
  /\ stopReq <=> main \in {"joinWorker", "joinListener"} \/ (main = "ended" /\ worker # "none")
  /\ IF stopReq THEN now >= R ELSE now <= R
  /\ worker \in {"check", "publish"} => now = wake.worker
  /\ worker = "publish" => wake.worker # 2 * P
  /\ worker = "sleep" =>
       wake.worker # 0 /\ now <= wake.worker /\ (wake.worker = 2 * P => now >= P)
  /\ worker \in {"hangUp", "exited"} => wake.worker = 2 * P

(* Where the listener is when the connection is in this state.             *)
Link ==
  /\ conn = "none" <=> worker = "none" /\ main # "spawnWorker"
  /\ conn = "none" =>
       /\ listener \notin {"recv", "closeClient"}
       /\ listener \notin {"announce", "accept"} => ~listening
  /\ conn \in {"queued", "hungUpQueued"} => listener \in {"announce", "accept"}
  /\ conn \in {"accepted"} => listener \in {"recv", "closeClient"}
  /\ conn \in {"peerClosed", "resetting", "aborted", "broken"} => listener \in {"close", "exited"}
  /\ conn \in {"hungUp", "hungUpQueued"} => worker = "exited"
  /\ conn = "hungUp" => listener \in {"recv", "closeClient", "close", "exited"}

(* What has been sent, and what has become of it.                          *)
Sent ==
  /\ wake.worker = 0 =>
       conn \in {"none", "queued", "accepted"} /\ ~inbox /\ listener # "closeClient"
  /\ wake.worker = P => conn \in {"queued", "accepted", "peerClosed"}
  /\ wake.worker = P /\ listener = "closeClient" => ~inbox
  /\ wake.worker # 0 /\ listener \in {"announce", "accept", "recv"} => inbox
  /\ listener = "closeClient" \/ (listener \in {"close", "exited"} /\ conn # "none") => shown

(* The inductive invariant.                                                *)
IInv ==
  Types /\ Schedule /\ (~noAccept => Link /\ Sent /\ status # "killed" /\ (status = "0" => shown))

(* The demo starts in the invariant.                                       *)
LEMMA InitIInv == Init => IInv
<1> SUFFICES ASSUME Init PROVE IInv
  OBVIOUS
<1>1. Types
  <2>1. Switches
    BY DEF Init, Switches
  <2>. QED BY <2>1, Durations DEF Init, Types
<1>2. Schedule /\ Link /\ Sent /\ status = "running"
  BY Durations DEF Init, Schedule, Link, Sent
<1>. QED BY <1>1, <1>2 DEF IInv

(* main() takes no time, and asks the worker to stop when its time is up.  *)
LEMMA MainPreserves == ASSUME IInv, status = "running", MainStep PROVE IInv'
<1> USE Durations DEF IInv, Types, Switches, Schedule, Link, Sent, Main, network
<1>1. CASE SpawnListener
  BY <1>1 DEF SpawnListener
<1>2. CASE Authenticate
  BY <1>2 DEF Authenticate
<1>3. CASE Connect
  BY <1>3 DEF Connect
<1>4. CASE ReturnFailed
  BY <1>4 DEF ReturnFailed
<1>5. CASE SpawnWorker
  BY <1>5 DEF SpawnWorker, R
<1>6. CASE Stop
  BY <1>6 DEF Stop
<1>7. CASE JoinWorker
  BY <1>7 DEF JoinWorker
<1>8. CASE JoinListener
  BY <1>8 DEF JoinListener
<1>. QED BY <1>1, <1>2, <1>3, <1>4, <1>5, <1>6, <1>7, <1>8 DEF MainStep

(* The worker sends twice.                                                 *)
LEMMA WorkerPreserves == ASSUME IInv, status = "running", WorkerStep PROVE IInv'
<1> USE Durations DEF IInv, Types, Switches, Schedule, Link, Sent, Worker, network
<1>1. CASE CheckStop
  BY <1>1 DEF CheckStop
<1>2. CASE Publish
  <2>1. Types'
    <3>1. Switches'
      BY <1>2 DEF Publish
    <3>2. wake' = [wake EXCEPT !.worker = now + P] /\ now + P \in {P, 2 * P}
      BY <1>2 DEF Publish, P
    <3> HIDE DEF Switches, Schedule, Link, Sent
    <3>. QED BY <1>2, <3>1, <3>2 DEF Publish
  <2>2. Schedule'
    BY <1>2 DEF Publish, P
  <2>3. ASSUME ~noAccept' PROVE Link'
    BY <1>2, <2>3 DEF Publish, P
  <2>4. ASSUME ~noAccept' PROVE Sent'
    BY <1>2, <2>4 DEF Publish, P
  <2>5. ASSUME ~noAccept' PROVE status' # "killed" /\ (status' = "0" => shown')
    BY <1>2, <2>5 DEF Publish, P
  <2>. QED BY <2>1, <2>2, <2>3, <2>4, <2>5
<1>3. CASE WakeUp
  BY <1>3 DEF WakeUp
<1>4. CASE HangUp
  <2>1. Types'
    BY <1>4 DEF HangUp
  <2>2. Schedule'
    BY <1>4 DEF HangUp
  <2>3. ASSUME ~noAccept' PROVE Link'
    BY <1>4, <2>3 DEF HangUp
  <2>4. ASSUME ~noAccept' PROVE Sent'
    BY <1>4, <2>4 DEF HangUp
  <2>5. ASSUME ~noAccept' PROVE status' # "killed" /\ (status' = "0" => shown')
    BY <1>4, <2>5 DEF HangUp
  <2>. QED BY <2>1, <2>2, <2>3, <2>4, <2>5
<1>. QED BY <1>1, <1>2, <1>3, <1>4 DEF WorkerStep

(* The listener shows the first payload and closes.                        *)
LEMMA ListenerPreserves ==
  ASSUME IInv, status = "running", ListenerStep \/ AcceptFails PROVE IInv'
<1> USE Durations DEF IInv, Types, Switches, Schedule, Link, Sent, Listener, network
<1>1. CASE NoSocket
  BY <1>1 DEF NoSocket
<1>2. CASE Bind
  BY <1>2 DEF Bind
<1>3. CASE Listen
  BY <1>3 DEF Listen
<1>4. CASE Announce
  BY <1>4 DEF Announce
<1>5. CASE Accept
  BY <1>5 DEF Accept
<1>6. CASE AcceptFails
  BY <1>6 DEF AcceptFails
<1>7. CASE Recv
  <2>1. Types'
    <3>1. Switches'
      BY <1>7 DEF Recv
    <3> HIDE DEF Switches
    <3>. QED BY <1>7, <3>1 DEF Recv
  <2>2. Schedule'
    BY <1>7 DEF Recv
  <2>3. ASSUME ~noAccept' PROVE Link'
    BY <1>7, <2>3 DEF Recv
  <2>4. ASSUME ~noAccept' PROVE Sent'
    BY <1>7, <2>4 DEF Recv
  <2>5. ASSUME ~noAccept' PROVE status' # "killed" /\ (status' = "0" => shown')
    BY <1>7, <2>5 DEF Recv
  <2>. QED BY <2>1, <2>2, <2>3, <2>4, <2>5
<1>8. CASE CloseClient
  BY <1>8 DEF CloseClient
<1>9. CASE CloseServer
  <2>1. Types'
    <3>1. Switches'
      BY <1>9 DEF CloseServer
    <3> HIDE DEF Switches
    <3>. QED BY <1>9, <3>1 DEF CloseServer
  <2>2. Schedule'
    BY <1>9 DEF CloseServer
  <2>3. ASSUME ~noAccept' PROVE Link'
    BY <1>9, <2>3 DEF CloseServer
  <2>4. ASSUME ~noAccept' PROVE Sent'
    BY <1>9, <2>4 DEF CloseServer
  <2>5. ASSUME ~noAccept' PROVE status' # "killed" /\ (status' = "0" => shown')
    BY <1>9, <2>5 DEF CloseServer
  <2>. QED BY <2>1, <2>2, <2>3, <2>4, <2>5
<1>. QED BY <1>1, <1>2, <1>3, <1>4, <1>5, <1>6, <1>7, <1>8, <1>9 DEF ListenerStep

(* A reset arrives, or time passes.                                        *)
LEMMA OutsidePreserves == ASSUME IInv, status = "running", ResetArrives \/ Tick PROVE IInv'
<1> USE Durations DEF IInv, Types, Switches, Schedule, Link, Sent, network
<1>1. CASE ResetArrives
  BY <1>1 DEF ResetArrives
<1>2. CASE Tick
  BY <1>2 DEF Tick, Asleep
<1>. QED BY <1>1, <1>2

(* IInv is an invariant.                                                   *)
THEOREM InvariantHolds == Spec => []IInv
<1>1. IInv /\ UNCHANGED vars => IInv'
  BY DEF IInv, Types, Switches, Schedule, Link, Sent, vars
<1>2. IInv /\ [Next]_vars => IInv'
  BY <1>1, MainPreserves, WorkerPreserves, ListenerPreserves, OutsidePreserves DEF Next
<1>. QED BY InitIInv, <1>2, PTL DEF Spec

(* Unless accept() fails, the demo is not killed by SIGPIPE, and when it   *)
(* ends with 0 the listener has shown a payload.                           *)
THEOREM DemoEndsWithPayload == Spec => []EndsWithPayload
<1>1. IInv => EndsWithPayload
  BY DEF IInv, EndsWithPayload
<1>. QED BY <1>1, InvariantHolds, PTL
===============================================================================
