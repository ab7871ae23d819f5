--------------------------------- MODULE Demo ---------------------------------
(***************************************************************************)
(* The application of main.cpp: main(), the worker of ConnectivityService  *)
(* and the cloud listener thread, around one TCP connection.  Logging,     *)
(* authentication (DemoAuthBackend always grants, for longer than the demo *)
(* runs) and the branches of the loop that a SomeipClient which never      *)
(* notices a lost link cannot take are left out.                           *)
(*                                                                         *)
(* The steps of main() and of the worker take no time compared with the    *)
(* seconds they sleep: time moves on, to the next wake-up, when both sleep *)
(* or wait.  The listener may take any time.  No other process listens on  *)
(* the port.                                                               *)
(***************************************************************************)
EXTENDS Naturals

VARIABLES
  main,       \* where main() is
  worker,     \* where runLoop() is
  listener,   \* where runCloudListener() is
  wake,       \* until when main and the worker sleep
  now,        \* seconds since the demo began
  stopReq,    \* the stop_token of the worker
  listening,  \* the port accepts connections
  conn,       \* the connection, as the client's kernel sees it
  inbox,      \* the peer has bytes to read
  shown,      \* the listener has printed a payload
  noAccept,   \* history: accept() failed
  status      \* how the process ended

vars == <<main, worker, listener, wake, now, stopReq, listening, conn, inbox, shown,
          noAccept, status>>

kDemoRunDurationSec_Doubled == 12
kDemoRunDurationSec == 6
kPublishIntervalSec == 5

Init ==
  /\ main = "spawnListener" /\ worker = "none" /\ listener = "none"
  /\ wake = [main |-> 0, worker |-> 0] /\ now = 0 /\ stopReq = FALSE
  /\ listening = FALSE /\ conn = "none" /\ inbox = FALSE
  /\ shown = FALSE /\ noAccept = FALSE /\ status = "running"

network == <<listening, conn, inbox>>
Main(from, to) == main = from /\ main' = to
Worker(from, to) == worker = from /\ worker' = to
Listener(from, to) == listener = from /\ listener' = to

-----------------------------------------------------------------------------
(* main().                                                                 *)
SpawnListener ==
  /\ Main("spawnListener", "start") /\ listener' = "socket"
  /\ UNCHANGED <<worker, wake, now, stopReq, network, shown, noAccept, status>>

(* start(): authentication, which is always granted, then connect(), which  *)
(* is refused unless the listener listens by now.                          *)
Authenticate ==
  /\ Main("start", "connect")
  /\ UNCHANGED <<worker, listener, wake, now, stopReq, network, shown, noAccept, status>>

Connect ==
  /\ \/ Main("connect", "spawnWorker") /\ listening /\ conn' = "queued"
     \/ Main("connect", "failed") /\ ~listening /\ UNCHANGED conn
  /\ UNCHANGED <<worker, listener, wake, now, stopReq, listening, inbox, shown, noAccept, status>>

(* return 1 destroys cloud_listener, which is joinable even when its       *)
(* function has returned: std::terminate().                                *)
ReturnFailed ==
  /\ Main("failed", "ended") /\ status' = "terminated"
  /\ UNCHANGED <<worker, listener, wake, now, stopReq, network, shown, noAccept>>

SpawnWorker ==
  /\ Main("spawnWorker", "sleep") /\ worker' = "check"
  /\ wake' = [wake EXCEPT !.main = now + kDemoRunDurationSec]
  /\ UNCHANGED <<listener, now, stopReq, network, shown, noAccept, status>>

Stop ==
  /\ Main("sleep", "joinWorker") /\ now >= wake.main /\ stopReq' = TRUE
  /\ UNCHANGED <<worker, listener, wake, now, network, shown, noAccept, status>>

JoinWorker ==
  /\ Main("joinWorker", "joinListener") /\ worker = "exited"
  /\ UNCHANGED <<worker, listener, wake, now, stopReq, network, shown, noAccept, status>>

JoinListener ==
  /\ Main("joinListener", "ended") /\ listener = "exited" /\ status' = "0"
  /\ UNCHANGED <<worker, listener, wake, now, stopReq, network, shown, noAccept>>

-----------------------------------------------------------------------------
(* runLoop() and the SomeipClient under it.                                *)
CheckStop ==
  /\ Worker("check", IF stopReq THEN "hangUp" ELSE "publish")
  /\ UNCHANGED <<main, listener, wake, now, stopReq, network, shown, noAccept, status>>

(* send().  To a peer that has closed it succeeds and provokes a reset; a  *)
(* reset of an open connection fails the next send() with ECONNRESET; in   *)
(* both cases the send() after that raises SIGPIPE, which nobody handles.  *)
Publish ==
  /\ worker = "publish"
  /\ \/ /\ conn \in {"queued", "accepted"} /\ inbox' = TRUE
        /\ UNCHANGED <<conn, status>>
     \/ /\ conn \in {"peerClosed", "resetting"} /\ conn' = "resetting"
        /\ UNCHANGED <<inbox, status>>
     \/ /\ conn = "aborted" /\ conn' = "broken"
        /\ UNCHANGED <<inbox, status>>
     \/ /\ conn = "broken" /\ status' = "killed"
        /\ UNCHANGED <<conn, inbox>>
  /\ worker' = "sleep" /\ wake' = [wake EXCEPT !.worker = now + kPublishIntervalSec]
  /\ UNCHANGED <<main, listener, now, stopReq, listening, shown, noAccept>>

ResetArrives ==
  /\ conn = "resetting" /\ conn' = "broken"
  /\ UNCHANGED <<main, worker, listener, wake, now, stopReq, listening, inbox, shown, noAccept,
                 status>>

WakeUp ==
  /\ Worker("sleep", "check") /\ now >= wake.worker
  /\ UNCHANGED <<main, listener, wake, now, stopReq, network, shown, noAccept, status>>

HangUp ==
  /\ Worker("hangUp", "exited") /\ conn' = IF conn = "queued" THEN "hungUpQueued" ELSE "hungUp"
  /\ UNCHANGED <<main, listener, wake, now, stopReq, listening, inbox, shown, noAccept, status>>

-----------------------------------------------------------------------------
(* runCloudListener().                                                     *)
NoSocket ==
  /\ Listener("socket", "exited")
  /\ UNCHANGED <<main, worker, wake, now, stopReq, network, shown, noAccept, status>>

Bind ==
  /\ \/ Listener("socket", "listen")
     \/ Listener("socket", "close")
  /\ UNCHANGED <<main, worker, wake, now, stopReq, network, shown, noAccept, status>>

Listen ==
  /\ Listener("listen", "announce") /\ listening' = TRUE
  /\ UNCHANGED <<main, worker, wake, now, stopReq, conn, inbox, shown, noAccept, status>>

(* std::cout, which main and the worker use through the Logger meanwhile.  *)
Announce ==
  /\ Listener("announce", "accept")
  /\ UNCHANGED <<main, worker, wake, now, stopReq, network, shown, noAccept, status>>

(* A connection stays in the backlog when the client hangs up before.      *)
Accept ==
  /\ Listener("accept", "recv") /\ conn \in {"queued", "hungUpQueued"}
  /\ conn' = IF conn = "queued" THEN "accepted" ELSE "hungUp"
  /\ UNCHANGED <<main, worker, wake, now, stopReq, listening, inbox, shown, noAccept, status>>

AcceptFails ==
  /\ Listener("accept", "close") /\ noAccept' = TRUE
  /\ UNCHANGED <<main, worker, wake, now, stopReq, network, shown, status>>

Recv ==
  /\ Listener("recv", "closeClient") /\ (inbox \/ conn = "hungUp")
  /\ shown' = inbox /\ inbox' = FALSE
  /\ UNCHANGED <<main, worker, wake, now, stopReq, listening, conn, noAccept, status>>

CloseClient_AcceptsAgain ==
  /\ Listener("closeClient", "accept")
  /\ conn' = IF conn = "hungUp" THEN conn ELSE IF inbox THEN "aborted" ELSE "peerClosed"
  /\ UNCHANGED <<main, worker, wake, now, stopReq, listening, inbox, shown, noAccept, status>>

(* A close() with bytes still to be read resets the connection.            *)
CloseClient ==
  /\ Listener("closeClient", "close")
  /\ conn' = IF conn = "hungUp" THEN conn ELSE IF inbox THEN "aborted" ELSE "peerClosed"
  /\ UNCHANGED <<main, worker, wake, now, stopReq, listening, inbox, shown, noAccept, status>>

CloseServer ==
  /\ Listener("close", "exited") /\ listening' = FALSE
  /\ conn' = IF conn = "queued" THEN "aborted" ELSE conn
  /\ UNCHANGED <<main, worker, wake, now, stopReq, inbox, shown, noAccept, status>>

-----------------------------------------------------------------------------
Asleep ==
  /\ (main = "sleep" /\ now < wake.main) \/ (main = "joinWorker" /\ worker # "exited")
  /\ worker = "sleep" /\ now < wake.worker

Tick ==
  /\ Asleep
  /\ now' = IF main = "sleep" /\ wake.main < wake.worker THEN wake.main ELSE wake.worker
  /\ UNCHANGED <<main, worker, listener, wake, stopReq, network, shown, noAccept, status>>

MainStep ==
  SpawnListener \/ Authenticate \/ Connect \/ ReturnFailed \/ SpawnWorker \/ Stop
  \/ JoinWorker \/ JoinListener
WorkerStep == CheckStop \/ Publish \/ WakeUp \/ HangUp
ListenerStep ==
  NoSocket \/ Bind \/ Listen \/ Announce \/ Accept \/ Recv \/ CloseClient \/ CloseServer

Next ==
  /\ status = "running"
  /\ MainStep \/ WorkerStep \/ ListenerStep \/ AcceptFails \/ ResetArrives \/ Tick

(* Threads that can run are scheduled and time goes on; accept() need not  *)
(* fail, however long it waits.                                            *)
Spec ==
  /\ Init /\ [][Next]_vars
  /\ WF_vars(status = "running" /\ MainStep) /\ WF_vars(status = "running" /\ WorkerStep)
  /\ WF_vars(status = "running" /\ ListenerStep) /\ WF_vars(status = "running" /\ Tick)

-----------------------------------------------------------------------------
(* Properties.                                                             *)

(* The listener reads one payload and closes, the service goes on sending: *)
(* still the demo is not killed by SIGPIPE but ends with 0 and a payload   *)
(* shown, because main() stops the service between the second and the      *)
(* third sample.  Only a failing accept() changes that.                    *)
EndsWithPayload ==
  ~noAccept => status # "killed" /\ (status = "0" => shown)

(* Once start() has succeeded the demo ends: the worker notices the stop,  *)
(* and the listener gets a connection and then bytes or its end.           *)
StartedDemoEnds == worker # "none" ~> status # "running"

(* "Failed to initialize the connectivity service." is followed by         *)
(* return 1: a failed start is reported by the exit status.                *)
FailureReturnsOne == status # "terminated"
=============================================================================
