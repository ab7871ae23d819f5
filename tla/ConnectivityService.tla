------------------------- MODULE ConnectivityService -------------------------
(***************************************************************************)
(* ConnectivityService: start(), stop(), the destructor and the worker     *)
(* loop runLoop(), with the AuthClient, IMqttClient and TelemetryManager   *)
(* calls they make.  One action is one access to state that another thread *)
(* can see; a call into an injected backend is one action, taken when the  *)
(* call returns, with the outcome chosen nondeterministically.             *)
(*                                                                         *)
(* start(), stop() and the destructor are called by one control thread, or *)
(* by several that take turns: worker_ is a plain std::jthread, so two     *)
(* overlapping calls would race on it (LifecycleRaces has those, and       *)
(* backends that throw).  publishTelemetry() is called by anybody.  The    *)
(* clients are shared_ptr's: any other holder may clear the token or       *)
(* disconnect the transport at any moment (EnvClearToken, EnvDropLink).    *)
(* Assumed: the transport is handed over unconnected, and only the service *)
(* connects it.                                                            *)
(***************************************************************************)
EXTENDS Naturals

CONSTANTS
  Workers,     \* identities of the threads a std::jthread can hold
  NoThread,    \* a std::jthread that is not joinable
  MaxFaults,   \* bound on the disturbances by the environment
  MaxBacklog   \* the size at which the model stops counting queued samples

ASSUME ConstantsAssumption ==
  /\ NoThread \notin Workers
  /\ MaxFaults \in Nat
  /\ MaxBacklog \in Nat

VARIABLES
  state,     \* state_, an atomic ServiceState
  running,   \* running_, an atomic bool
  worker,    \* worker_, the thread owned by the service
  stopReq,   \* the stop_token of each thread
  wpc,       \* where each thread is in runLoop; "exited" when there is none
  cpc,       \* where the control thread is in start(), stop(), the destructor
  reply,     \* what the last completed start() or stop() returned
  token,     \* AuthClient: no token, an expired one, or a valid one
  up,        \* what IMqttClient::isConnected() returns
  backlog,   \* TelemetryManager::pendingCount(), saturating at MaxBacklog
  faults,    \* disturbances so far
  lastAuth,  \* history: outcome of the latest authenticate()
  late       \* history: samples a thread began after its stop was requested

vars == <<state, running, worker, stopReq, wpc, cpc, reply, token, up, backlog,
          faults, lastAuth, late>>

ServiceState == {"Starting", "Authenticating", "Connected", "Publishing",
                 "Disconnected", "Reconnecting", "Stopped"}

StartPcs == {"starting", "authenticate", "authenticated", "connect", "connected",
             "spawn", "spawned", "failed", "clearRunning"}
StopPcs  == {"requestStop", "join", "joined"}
ControlPcs == {"idle", "closing", "destroyed"} \cup StartPcs \cup StopPcs

PublishPcs == {"sample", "send", "enqueue"}
WorkerPcs  == {"check", "token", "tokenBad", "refresh", "nonEmpty", "refreshed",
               "refreshFailed", "link", "linkDown", "hangUp", "dial", "dialled",
               "dialFailed", "exit", "exited"} \cup PublishPcs

Live(w) == wpc[w] # "exited"

Init ==
  /\ state = "Stopped" /\ running = FALSE /\ worker = NoThread
  /\ stopReq = [w \in Workers |-> FALSE] /\ wpc = [w \in Workers |-> "exited"]
  /\ cpc = "idle" /\ reply = "none" /\ token = "none" /\ up = FALSE
  /\ backlog = 0 /\ faults = 0 /\ lastAuth = "none"
  /\ late = [w \in Workers |-> 0]

-----------------------------------------------------------------------------
(* AuthClient::authenticate().  A denial is an empty access_token and      *)
(* clears the stored one; a grant may carry expires_in = 0.                *)
AuthGranted == token' \in {"valid", "expired"} /\ lastAuth' = "granted"
AuthDenied == token' = "none" /\ lastAuth' = "denied"

-----------------------------------------------------------------------------
(* The control thread.  A definition X_Variant is a faulty version of X:   *)
(* it shows that a property below would notice that mistake.               *)
Control(from, to) == cpc = from /\ cpc' = to

ctlFrame == <<worker, stopReq, wpc, backlog, faults, late>>

ControlStore(from, s, to) ==
  /\ Control(from, to) /\ state' = s
  /\ UNCHANGED <<running, reply, token, up, lastAuth, ctlFrame>>

StartCall_NoGuard ==
  /\ Control("idle", "starting") /\ running' = TRUE
  /\ UNCHANGED <<state, reply, token, up, lastAuth, ctlFrame>>

StartCall ==
  /\ cpc = "idle"
  /\ running' = TRUE
  /\ IF running THEN reply' = "startTrue" /\ UNCHANGED cpc
                ELSE cpc' = "starting" /\ UNCHANGED reply
  /\ UNCHANGED <<state, token, up, lastAuth, ctlFrame>>

StoreStarting == ControlStore("starting", "Starting", "authenticate")

Authenticate ==
  /\ \/ Control("authenticate", "authenticated") /\ AuthGranted
     \/ Control("authenticate", "failed") /\ AuthDenied
  /\ UNCHANGED <<state, running, reply, up, ctlFrame>>

StoreAuthenticating == ControlStore("authenticated", "Authenticating", "connect")

Connect ==
  /\ \/ Control("connect", "connected") /\ up' = TRUE
     \/ Control("connect", "failed") /\ up' = FALSE
  /\ UNCHANGED <<state, running, reply, token, lastAuth, ctlFrame>>

StoreStartFailed_KeepsRunning == ControlStore("failed", "Disconnected", "idle")

StoreStartFailed == ControlStore("failed", "Disconnected", "clearRunning")

ReturnFailed ==
  /\ Control("clearRunning", "idle") /\ running' = FALSE /\ reply' = "startFalse"
  /\ UNCHANGED <<state, token, up, lastAuth, ctlFrame>>

StoreConnected == ControlStore("connected", "Connected", "spawn")

(* worker_ = std::jthread(...).  The assignment would stop and join a       *)
(* thread still held; here there is none, because every stop() joins the    *)
(* thread first (IInv in ConnectivityServiceProofs).                       *)
Spawn ==
  /\ Control("spawn", "spawned")
  /\ \E w \in Workers :
       /\ ~Live(w)
       /\ worker' = w
       /\ wpc' = [wpc EXCEPT ![w] = "check"]
       /\ stopReq' = [stopReq EXCEPT ![w] = FALSE]
       /\ late' = [late EXCEPT ![w] = 0]
  /\ UNCHANGED <<state, running, reply, token, up, backlog, faults, lastAuth>>

ReturnStarted ==
  /\ Control("spawned", "idle") /\ state' = "Publishing" /\ reply' = "startTrue"
  /\ UNCHANGED <<running, token, up, lastAuth, ctlFrame>>

StopCall ==
  /\ cpc = "idle"
  /\ running' = FALSE
  /\ IF running THEN cpc' = "requestStop" /\ UNCHANGED reply
                ELSE reply' = "stopTrue" /\ UNCHANGED cpc
  /\ UNCHANGED <<state, token, up, lastAuth, ctlFrame>>

RequestStop_StoresStopped ==
  /\ Control("requestStop", "join") /\ state' = "Stopped"
  /\ stopReq' = [stopReq EXCEPT ![worker] = TRUE]
  /\ UNCHANGED <<running, worker, wpc, reply, token, up, backlog, faults, lastAuth, late>>

RequestStop ==
  /\ Control("requestStop", "join")
  /\ stopReq' = [stopReq EXCEPT ![worker] = TRUE]
  /\ UNCHANGED <<state, running, worker, wpc, reply, token, up, backlog, faults,
                 lastAuth, late>>

Join_Detaches(from, to) ==
  /\ Control(from, to) /\ worker' = NoThread
  /\ UNCHANGED <<state, running, stopReq, wpc, reply, token, up, backlog, faults,
                 lastAuth, late>>

Join(from, to) ==
  /\ Control(from, to) /\ worker' = NoThread
  /\ worker \in Workers /\ ~Live(worker)
  /\ UNCHANGED <<state, running, stopReq, wpc, reply, token, up, backlog, faults,
                 lastAuth, late>>

ReturnStopped ==
  /\ Control("joined", "idle") /\ state' = "Stopped" /\ reply' = "stopTrue"
  /\ UNCHANGED <<running, token, up, lastAuth, ctlFrame>>

(* The implicit destructor: worker_ is the last member, so its ~jthread    *)
(* runs first and stops and joins the thread while the clients still live. *)
Destroy ==
  /\ Control("idle", IF worker = NoThread THEN "destroyed" ELSE "closing")
  /\ stopReq' = [stopReq EXCEPT ![worker] = TRUE]
  /\ UNCHANGED <<state, running, worker, wpc, reply, token, up, backlog, faults,
                 lastAuth, late>>

-----------------------------------------------------------------------------
(* The worker thread w in runLoop().  sleep_for changes nothing and is the *)
(* time that passes before the next "check".                               *)
Goto(w, from, to) == wpc[w] = from /\ wpc' = [wpc EXCEPT ![w] = to]

loopFrame == <<running, worker, stopReq, cpc, reply, faults>>

WorkerStore(w, from, s, to) ==
  /\ Goto(w, from, to) /\ state' = s
  /\ UNCHANGED <<token, up, backlog, lastAuth, late, loopFrame>>

Test(w, from, cond, yes, no) ==
  /\ Goto(w, from, IF cond THEN yes ELSE no)
  /\ UNCHANGED <<state, token, up, backlog, lastAuth, late, loopFrame>>

CheckStop_OnlyWithToken(w) ==
  Test(w, "check", stopReq[w] /\ token = "valid", "exit", "token")

CheckStop(w)  == Test(w, "check", stopReq[w], "exit", "token")
CheckToken(w) == Test(w, "token", token = "valid", "link", "tokenBad")

StoreRefreshing(w) == WorkerStore(w, "tokenBad", "Authenticating", "refresh")

RefreshGranted(w) ==
  /\ Goto(w, "refresh", "nonEmpty") /\ AuthGranted
  /\ UNCHANGED <<state, up, backlog, late, loopFrame>>

RefreshDenied(w) ==
  /\ Goto(w, "refresh", "refreshFailed") /\ AuthDenied
  /\ UNCHANGED <<state, up, backlog, late, loopFrame>>

CheckNonEmpty(w) == Test(w, "nonEmpty", token # "none", "refreshed", "refreshFailed")

StoreRefreshed(w)     == WorkerStore(w, "refreshed", "Publishing", "link")

StoreRefreshFailed_FallsThrough(w) == WorkerStore(w, "refreshFailed", "Disconnected", "link")
StoreRefreshFailed_RetriesInPlace(w) == WorkerStore(w, "refreshFailed", "Disconnected", "tokenBad")

StoreRefreshFailed(w) == WorkerStore(w, "refreshFailed", "Disconnected", "check")

CheckLink(w)         == Test(w, "link", up, "sample", "linkDown")
StoreReconnecting(w) == WorkerStore(w, "linkDown", "Reconnecting", "hangUp")

(* IMqttClient::reconnect() is disconnect() and then connect(), each under *)
(* the client's mutex but not both under one.  MqttClient gives up when    *)
(* disconnect() reports failure, SomeipClient dials regardless.            *)
HangUp_ReportsFailure(w) ==
  /\ Goto(w, "hangUp", "dialFailed") /\ up' = FALSE
  /\ UNCHANGED <<state, token, backlog, lastAuth, late, loopFrame>>

HangUp(w) ==
  /\ Goto(w, "hangUp", "dial") \/ Goto(w, "hangUp", "dialFailed")
  /\ up' = FALSE
  /\ UNCHANGED <<state, token, backlog, lastAuth, late, loopFrame>>

DialOk(w) ==
  /\ Goto(w, "dial", "dialled") /\ up' = TRUE
  /\ UNCHANGED <<state, token, backlog, lastAuth, late, loopFrame>>

DialFails(w) ==
  /\ Goto(w, "dial", "dialFailed") /\ up' = FALSE
  /\ UNCHANGED <<state, token, backlog, lastAuth, late, loopFrame>>

StoreReconnected(w) == WorkerStore(w, "dialled", "Connected", "sample")

StoreDialFailed(w) == WorkerStore(w, "dialFailed", "Disconnected", "check")

(* publishTelemetry(): TelemetryManager::publishSample() asks isConnected, *)
(* publishes, and queues the sample when either says no.                   *)
BeginSample(w) ==
  /\ Goto(w, "sample", IF up THEN "send" ELSE "enqueue")
  /\ late' = [late EXCEPT ![w] = IF stopReq[w] THEN @ + 1 ELSE @]
  /\ UNCHANGED <<state, token, up, backlog, lastAuth, loopFrame>>

Send(w) ==
  /\ (up /\ Goto(w, "send", "check")) \/ Goto(w, "send", "enqueue")
  /\ UNCHANGED <<state, token, up, backlog, lastAuth, late, loopFrame>>

Enqueue(w, size) ==
  /\ Goto(w, "enqueue", "check") /\ backlog' = size
  /\ UNCHANGED <<state, token, up, lastAuth, late, loopFrame>>

OneMore == IF backlog < MaxBacklog THEN backlog + 1 ELSE backlog

QueueMessage(w) == Enqueue(w, OneMore)

ExitLoop(w) ==
  /\ Goto(w, "exit", "exited") /\ up' = FALSE
  /\ UNCHANGED <<state, token, backlog, lastAuth, late, loopFrame>>

-----------------------------------------------------------------------------
(* publishTelemetry() called by the application, in whatever state the     *)
(* service is: of all it changes, a sample that is not sent stays queued.  *)
PublishTelemetry ==
  /\ cpc \notin {"closing", "destroyed"} /\ backlog' \in {backlog, OneMore}
  /\ UNCHANGED <<state, running, worker, stopReq, wpc, cpc, reply, token, up, faults,
                 lastAuth, late>>

(* Time and the other holders of the shared clients, MaxFaults times.      *)
Disturb ==
  /\ faults < MaxFaults /\ faults' = faults + 1
  /\ UNCHANGED <<state, running, worker, stopReq, wpc, cpc, reply, backlog,
                 lastAuth, late>>

EnvExpire     == Disturb /\ token = "valid" /\ token' = "expired" /\ UNCHANGED up
EnvClearToken == Disturb /\ token' = "none" /\ UNCHANGED up
EnvDropLink   == Disturb /\ up /\ up' = FALSE /\ UNCHANGED token

-----------------------------------------------------------------------------
StartStep ==
  \/ StoreStarting \/ Authenticate \/ StoreAuthenticating \/ Connect
  \/ StoreStartFailed \/ ReturnFailed \/ StoreConnected \/ Spawn \/ ReturnStarted

StopStep == RequestStop \/ Join("join", "joined") \/ ReturnStopped \/ Join("closing", "destroyed")

ControlStep == StartStep \/ StopStep

LoopStep(w) ==
  \/ CheckStop(w) \/ CheckToken(w) \/ StoreRefreshing(w) \/ RefreshGranted(w)
  \/ RefreshDenied(w) \/ CheckNonEmpty(w) \/ StoreRefreshed(w) \/ StoreRefreshFailed(w)
  \/ CheckLink(w) \/ StoreReconnecting(w) \/ HangUp(w) \/ DialOk(w) \/ DialFails(w)
  \/ StoreReconnected(w) \/ StoreDialFailed(w) \/ BeginSample(w) \/ Send(w)
  \/ QueueMessage(w) \/ ExitLoop(w)

EnvStep == EnvExpire \/ EnvClearToken \/ EnvDropLink

Next ==
  \/ StartCall \/ StopCall \/ Destroy \/ ControlStep
  \/ \E w \in Workers : LoopStep(w)
  \/ PublishTelemetry \/ EnvStep

Spec == Init /\ [][Next]_vars

(* Threads are scheduled and every backend call returns; nothing is assumed *)
(* of its outcome, nor that the application ever calls start() or stop().   *)
LiveSpec ==
  /\ Spec
  /\ WF_vars(ControlStep)
  /\ \A w \in Workers : WF_vars(LoopStep(w))

(* In addition a backend asked again and again says yes at some point.     *)
BackendsAcceptSometimes ==
  \A w \in Workers : /\ SF_vars(RefreshGranted(w)) /\ SF_vars(DialOk(w))
                     /\ SF_vars(HangUp(w) /\ Goto(w, "hangUp", "dial"))
                     /\ SF_vars(Send(w) /\ Goto(w, "send", "check"))

RecoverySpec == LiveSpec /\ BackendsAcceptSometimes

-----------------------------------------------------------------------------
(* Properties.                                                             *)

(* The variables keep the types of the members they stand for.  stop() and *)
(* the destructor never find worker_ empty where they tell its thread to   *)
(* stop and join it, which would throw std::system_error.                  *)
TypeOK ==
  /\ state \in ServiceState /\ running \in BOOLEAN
  /\ worker \in Workers \cup {NoThread}
  /\ stopReq \in [Workers -> BOOLEAN] /\ wpc \in [Workers -> WorkerPcs]
  /\ cpc \in ControlPcs /\ reply \in {"none", "startTrue", "startFalse", "stopTrue"}
  /\ token \in {"none", "valid", "expired"} /\ up \in BOOLEAN
  /\ backlog \in 0..MaxBacklog /\ faults \in 0..MaxFaults
  /\ lastAuth \in {"none", "granted", "denied"}
  /\ late \in [Workers -> Nat]
  /\ cpc \in {"requestStop", "join", "closing"} => worker \in Workers

NoLiveWorker == \A w \in Workers : ~Live(w)

(* The return values of start() and stop() are the truth until the next    *)
(* call: after start() = true a worker is alive, owned and not stopping;   *)
(* after start() = false or stop() = true no thread runs and the transport *)
(* is down.  Covers the failure paths of start() and the early returns.    *)
ReplyIsHonest ==
  cpc = "idle" =>
    /\ reply = "startTrue" =>
         running /\ worker \in Workers /\ Live(worker) /\ ~stopReq[worker]
    /\ reply \in {"startFalse", "stopTrue"} => ~running /\ NoLiveWorker /\ ~up

(* A live thread is the one worker_ holds, so two loops never publish side *)
(* by side after a restart, and none runs once the destructor is past its  *)
(* ~jthread and goes on to release the clients.                            *)
LiveWorkerIsOwned == \A w \in Workers : Live(w) => worker = w /\ cpc # "destroyed"

(* state() = Stopped is stored after the join: it is never read while the  *)
(* loop still runs or holds the transport open.                            *)
StoppedIsQuiet == state = "Stopped" => NoLiveWorker /\ ~up

(* While the loop generates, sends or queues a sample, state() reads       *)
(* Connected or Publishing, whatever sequence of failed refreshes and      *)
(* reconnects came before and wherever start() is with its own last store. *)
HealthyWhenPublishing ==
  \A w \in Workers : wpc[w] \in PublishPcs => state \in {"Connected", "Publishing"}

(* The loop produces no sample while the latest answer of the auth backend *)
(* is a denial; one the application publishes is not held back.            *)
NoSampleAfterDenial ==
  \A w \in Workers : wpc[w] \in PublishPcs => lastAuth = "granted"

(* The loop looks at its stop_token often enough that at most one sample   *)
(* is begun after stop() has requested the stop.                           *)
AtMostOneLateSample == \A w \in Workers : late[w] <= 1

(* Once Stopped is advertised only a start() replaces it; no store of the  *)
(* worker arrives late.                                                    *)
StoppedIsFinal == [][state = "Stopped" /\ state' # "Stopped" => cpc = "starting"]_vars

(* After finitely many disturbances a running service hands a sample to    *)
(* the transport again, unless it is told to stop, if its backends accept  *)
(* at some point when they are asked again and again.                      *)
Republishes ==
  BackendsAcceptSometimes =>
    ((running /\ cpc = "idle") ~>
       ((\E w \in Workers : wpc[w] = "send") \/ cpc \in StopPcs \cup {"closing"}))

(* "Telemetry publish queued for later": while the service runs on and its *)
(* transport accepts samples, the queue is emptied at some later time.     *)
BacklogDrains ==
  backlog > 0 ~> (backlog = 0 \/ ~running \/ cpc \in {"closing", "destroyed"})

(* The refinement mapping to ServiceLifecycle.                             *)
phase ==
  CASE cpc = "idle"      -> IF running THEN "running" ELSE "stopped"
    [] cpc \in StartPcs  -> "starting"
    [] cpc \in StopPcs   -> "stopping"
    [] cpc = "closing"   -> "closing"
    [] cpc = "destroyed" -> "closed"

active == \E w \in Workers : Live(w)

Lifecycle == INSTANCE ServiceLifecycle WITH phase <- phase, active <- active

(* The service implements ServiceLifecycle: background activity begins only *)
(* inside a start() that succeeds, never ends by itself, and is over before *)
(* stop() or the destructor returns.  All three return, however often the  *)
(* backends refuse: every retry path of the loop leads to its stop check.  *)
ImplementsLifecycle == Lifecycle!Spec
=============================================================================
