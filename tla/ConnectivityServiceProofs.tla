----------------------- MODULE ConnectivityServiceProofs -----------------------
(***************************************************************************)
(* The safety properties of ConnectivityService hold for every set of      *)
(* thread identities and every MaxFaults and MaxBacklog, and the service   *)
(* implements the safety part of ServiceLifecycle.                         *)
(*                                                                         *)
(* IInv (ConnectivityServiceInv) is inductive: InitIInv, then one lemma    *)
(* per group of actions with one step per action, then InvariantHolds.     *)
(* Every property follows from IInv.                                       *)
(***************************************************************************)
EXTENDS ConnectivityServiceInv, TLAPS

(* The sets and state predicates every step unfolds.                       *)
USE ConstantsAssumption
    DEF HoldsWorker, Working, NoLiveWorker, Healthy, Live, ServiceState, ControlPcs,
        WorkerPcs, StartPcs, StopPcs, PublishPcs

(* The service starts in the invariant.                                    *)
LEMMA InitIInv == Init => IInv
<1> SUFFICES ASSUME Init PROVE IInv
  OBVIOUS
<1>1. TypeOK
  <2>1. late \in [Workers -> Nat] /\ backlog \in 0..MaxBacklog /\ faults \in 0..MaxFaults
    BY SMT DEF Init
  <2>2. wpc \in [Workers -> WorkerPcs] /\ stopReq \in [Workers -> BOOLEAN]
    BY SMT DEF Init
  <2>. QED BY <2>1, <2>2 DEF Init, TypeOK
<1>2. Ownership /\ Flags /\ LinkInv
  BY DEF Init, Ownership, Flags, LinkInv
<1>3. AuthInv /\ HealthInv /\ StoppedInv /\ LateInv
  BY DEF Init, AuthInv, HealthInv, StoppedInv, LateInv
<1>. QED BY <1>1, <1>2, <1>3 DEF IInv

(* start(): no thread is alive until Spawn, so no worker step interferes. *)
LEMMA StartPreserves ==
  ASSUME IInv, StartStep PROVE IInv'
<1> USE DEF IInv, TypeOK, Ownership, Flags, LinkInv, AuthInv, HealthInv, StoppedInv,
          LateInv, Control, ctlFrame
<1>1. CASE StoreStarting
  BY <1>1 DEF StoreStarting, ControlStore
<1>2. CASE Authenticate
  BY <1>2 DEF Authenticate, AuthGranted, AuthDenied
<1>3. CASE StoreAuthenticating
  BY <1>3 DEF StoreAuthenticating, ControlStore
<1>4. CASE Connect
  <2>1. CASE Control("connect", "connected") /\ up' = TRUE
    BY <1>4, <2>1 DEF Connect
  <2>2. CASE Control("connect", "failed") /\ up' = FALSE
    <3>1. up' \in BOOLEAN
      BY <2>2, Zenon
    <3>2. TypeOK' /\ Ownership' /\ Flags'
      BY <1>4, <2>2, <3>1 DEF Connect
    <3>3. LinkInv' /\ AuthInv' /\ HealthInv'
      BY <1>4, <2>2 DEF Connect
    <3>4. StoppedInv' /\ LateInv'
      BY <1>4, <2>2 DEF Connect
    <3>. QED BY <3>2, <3>3, <3>4
  <2>. QED BY <1>4, <2>1, <2>2 DEF Connect
<1>5. CASE StoreStartFailed
  BY <1>5 DEF StoreStartFailed, ControlStore
<1>6. CASE ReturnFailed
  BY <1>6 DEF ReturnFailed
<1>7. CASE StoreConnected
  BY <1>7 DEF StoreConnected, ControlStore
<1>8. CASE Spawn
  BY <1>8 DEF Spawn
<1>9. CASE ReturnStarted
  BY <1>9 DEF ReturnStarted
<1>. QED BY <1>1, <1>2, <1>3, <1>4, <1>5, <1>6, <1>7, <1>8, <1>9 DEF StartStep

(* stop() and the destructor: the join waits for the thread to leave the loop. *)
LEMMA StopPreserves ==
  ASSUME IInv, StopStep PROVE IInv'
<1> USE DEF IInv, TypeOK, Ownership, Flags, LinkInv, AuthInv, HealthInv, StoppedInv,
          LateInv, Control, ctlFrame
<1>1. CASE RequestStop
  BY <1>1 DEF RequestStop
<1>2. CASE Join("join", "joined")
  BY <1>2 DEF Join
<1>3. CASE ReturnStopped
  BY <1>3 DEF ReturnStopped
<1>4. CASE Join("closing", "destroyed")
  BY <1>4 DEF Join
<1>. QED BY <1>1, <1>2, <1>3, <1>4 DEF StopStep

(* The exchange that begins each call, with its early return. *)
LEMMA CallPreserves ==
  ASSUME IInv, StartCall \/ StopCall \/ Destroy PROVE IInv'
<1> USE DEF IInv, TypeOK, Ownership, Flags, LinkInv, AuthInv, HealthInv, StoppedInv,
          LateInv, Control, ctlFrame
<1>1. CASE StartCall
  <2>1. CASE running
    BY <1>1, <2>1 DEF StartCall
  <2>2. CASE ~running
    BY <1>1, <2>2 DEF StartCall
  <2>. QED BY <2>1, <2>2
<1>2. CASE StopCall
  <2>1. CASE running
    BY <1>2, <2>1 DEF StopCall
  <2>2. CASE ~running
    <3>1. TypeOK' /\ Ownership' /\ Flags'
      BY <1>2, <2>2 DEF StopCall
    <3>2. LinkInv' /\ AuthInv' /\ HealthInv' /\ StoppedInv' /\ LateInv'
      BY <1>2, <2>2 DEF StopCall
    <3>. QED BY <3>1, <3>2
  <2>. QED BY <2>1, <2>2
<1>3. CASE Destroy
  <2>1. TypeOK'
    BY <1>3 DEF Destroy
  <2>2. Ownership' /\ Flags'
    BY <1>3 DEF Destroy
  <2>3. LinkInv' /\ AuthInv' /\ HealthInv' /\ StoppedInv' /\ LateInv'
    BY <1>3 DEF Destroy
  <2>. QED BY <2>1, <2>2, <2>3
<1>. QED BY <1>1, <1>2, <1>3 DEF IInv

(* The worker loop: t is the thread the service owns. *)
LEMMA LoopPreserves ==
  ASSUME IInv, NEW t \in Workers, LoopStep(t) PROVE IInv'
<1> USE DEF IInv, TypeOK, Ownership, Flags, LinkInv, AuthInv, HealthInv, StoppedInv,
          LateInv, Goto, loopFrame
<1>1. CASE CheckStop(t)
  BY <1>1 DEF CheckStop, Test
<1>2. CASE CheckToken(t)
  BY <1>2 DEF CheckToken, Test
<1>3. CASE StoreRefreshing(t)
  BY <1>3 DEF StoreRefreshing, WorkerStore
<1>4. CASE RefreshGranted(t)
  BY <1>4 DEF RefreshGranted, AuthGranted
<1>5. CASE RefreshDenied(t)
  BY <1>5 DEF RefreshDenied, AuthDenied
<1>6. CASE CheckNonEmpty(t)
  BY <1>6 DEF CheckNonEmpty, Test
<1>7. CASE StoreRefreshed(t)
  BY <1>7 DEF StoreRefreshed, WorkerStore
<1>8. CASE StoreRefreshFailed(t)
  BY <1>8 DEF StoreRefreshFailed, WorkerStore
<1>9. CASE CheckLink(t)
  BY <1>9 DEF CheckLink, Test
<1>10. CASE StoreReconnecting(t)
  BY <1>10 DEF StoreReconnecting, WorkerStore
<1>11. CASE HangUp(t)
  <2> USE <1>11 DEF HangUp
  <2>1. TypeOK'
    <3>1. up' \in BOOLEAN
      BY Zenon
    <3>. QED BY <3>1
  <2>2. Ownership'
    OBVIOUS
  <2>3. Flags'
    OBVIOUS
  <2>4. LinkInv'
    OBVIOUS
  <2>5. AuthInv'
    OBVIOUS
  <2>6. HealthInv'
    OBVIOUS
  <2>7. StoppedInv'
    OBVIOUS
  <2>8. LateInv'
    OBVIOUS
  <2>. QED BY <2>1, <2>2, <2>3, <2>4, <2>5, <2>6, <2>7, <2>8
<1>12. CASE DialOk(t)
  BY <1>12 DEF DialOk
<1>13. CASE DialFails(t)
  <2>1. up' \in BOOLEAN
    BY <1>13, Zenon DEF DialFails
  <2>2. TypeOK' /\ Ownership' /\ Flags'
    BY <1>13, <2>1 DEF DialFails
  <2>3. LinkInv' /\ AuthInv' /\ HealthInv'
    BY <1>13 DEF DialFails
  <2>4. StoppedInv' /\ LateInv'
    BY <1>13 DEF DialFails
  <2>. QED BY <2>2, <2>3, <2>4
<1>14. CASE StoreReconnected(t)
  BY <1>14 DEF StoreReconnected, WorkerStore
<1>15. CASE StoreDialFailed(t)
  BY <1>15 DEF StoreDialFailed, WorkerStore
<1>16. CASE BeginSample(t)
  BY <1>16 DEF BeginSample
<1>17. CASE Send(t)
  BY <1>17 DEF Send
<1>18. CASE QueueMessage(t)
  BY <1>18 DEF QueueMessage, Enqueue, OneMore
<1>19. CASE ExitLoop(t)
  <2> USE <1>19 DEF ExitLoop
  <2>1. TypeOK'
    <3>1. up' \in BOOLEAN
      BY Zenon
    <3>. QED BY <3>1
  <2>2. Ownership'
    OBVIOUS
  <2>3. Flags'
    OBVIOUS
  <2>4. LinkInv'
    OBVIOUS
  <2>5. AuthInv'
    OBVIOUS
  <2>6. HealthInv'
    OBVIOUS
  <2>7. StoppedInv'
    OBVIOUS
  <2>8. LateInv'
    OBVIOUS
  <2>. QED BY <2>1, <2>2, <2>3, <2>4, <2>5, <2>6, <2>7, <2>8
<1>. QED BY <1>1, <1>2, <1>3, <1>4, <1>5, <1>6, <1>7, <1>8, <1>9, <1>10,
         <1>11, <1>12, <1>13, <1>14, <1>15, <1>16, <1>17, <1>18, <1>19 DEF LoopStep

(* The application, time and the other holders of the shared clients.     *)
LEMMA EnvPreserves ==
  ASSUME IInv, PublishTelemetry \/ EnvStep PROVE IInv'
<1> USE DEF IInv, TypeOK, Ownership, Flags, LinkInv, AuthInv, HealthInv, StoppedInv,
          LateInv, Disturb
<1>1. CASE EnvExpire
  BY <1>1 DEF EnvExpire
<1>2. CASE EnvClearToken
  BY <1>2 DEF EnvClearToken
<1>3. CASE EnvDropLink
  <2> USE <1>3 DEF EnvDropLink
  <2>1. TypeOK'
    <3>1. up' \in BOOLEAN
      BY Zenon
    <3>. QED BY <3>1
  <2>2. Ownership'
    OBVIOUS
  <2>3. Flags'
    OBVIOUS
  <2>4. LinkInv'
    OBVIOUS
  <2>5. AuthInv'
    OBVIOUS
  <2>6. HealthInv'
    OBVIOUS
  <2>7. StoppedInv'
    OBVIOUS
  <2>8. LateInv'
    OBVIOUS
  <2>. QED BY <2>1, <2>2, <2>3, <2>4, <2>5, <2>6, <2>7, <2>8
<1>4. CASE PublishTelemetry
  BY <1>4 DEF PublishTelemetry, OneMore
<1>. QED BY <1>1, <1>2, <1>3, <1>4 DEF EnvStep

(* IInv is inductive.                                                      *)
LEMMA NextPreserves == IInv /\ [Next]_vars => IInv'
<1> SUFFICES ASSUME IInv, [Next]_vars PROVE IInv'
  OBVIOUS
<1>1. CASE StartCall \/ StopCall \/ Destroy
  BY <1>1, CallPreserves
<1>2. CASE ControlStep
  BY <1>2, StartPreserves, StopPreserves DEF ControlStep
<1>3. ASSUME NEW t \in Workers, LoopStep(t) PROVE IInv'
  BY <1>3, LoopPreserves
<1>4. CASE PublishTelemetry \/ EnvStep
  BY <1>4, EnvPreserves
<1>5. CASE UNCHANGED vars
  BY <1>5 DEF vars, IInv, TypeOK, Ownership, Flags, LinkInv, AuthInv, HealthInv,
              StoppedInv, LateInv
<1>. QED BY <1>1, <1>2, <1>3, <1>4, <1>5 DEF Next

(* The inductive invariant holds in every reachable state.                 *)
THEOREM InvariantHolds == Spec => []IInv
<1>1. Init => IInv
  BY InitIInv
<1>2. IInv /\ [Next]_vars => IInv'
  BY NextPreserves
<1>. QED BY <1>1, <1>2, PTL DEF Spec

(* Every variable keeps its type.                                          *)
THEOREM TypeCorrect == Spec => []TypeOK
<1>1. IInv => TypeOK
  BY DEF IInv
<1>. QED BY <1>1, InvariantHolds, PTL

(* What start() and stop() returned is true until the next call.           *)
THEOREM RepliesAreHonest == Spec => []ReplyIsHonest
<1>1. IInv => ReplyIsHonest
  <2> SUFFICES ASSUME IInv, cpc = "idle" PROVE ReplyIsHonest
    BY DEF ReplyIsHonest
  <2>1. reply = "startTrue" => running /\ worker \in Workers /\ Live(worker) /\ ~stopReq[worker]
    BY DEF IInv, Ownership, Flags
  <2>2. reply \in {"startFalse", "stopTrue"} => ~running /\ NoLiveWorker /\ ~up
    <3> SUFFICES ASSUME reply \in {"startFalse", "stopTrue"}
                 PROVE ~running /\ NoLiveWorker /\ ~up
      OBVIOUS
    <3>1. ~running
      BY DEF IInv, TypeOK, Flags
    <3>2. NoLiveWorker
      BY <3>1 DEF IInv, Ownership
    <3>. QED BY <3>1, <3>2 DEF IInv, LinkInv
  <2>. QED BY <2>1, <2>2 DEF ReplyIsHonest
<1>. QED BY <1>1, InvariantHolds, PTL

(* A live thread is the one worker_ holds, and none survives ~jthread.     *)
THEOREM WorkersAreOwned == Spec => []LiveWorkerIsOwned
<1>1. IInv => LiveWorkerIsOwned
  BY DEF IInv, Ownership, LiveWorkerIsOwned
<1>. QED BY <1>1, InvariantHolds, PTL

(* Stopped is advertised only when the loop is over.                       *)
THEOREM StoppedMeansQuiet == Spec => []StoppedIsQuiet
<1>1. IInv => StoppedIsQuiet
  BY DEF IInv, StoppedInv, StoppedIsQuiet
<1>. QED BY <1>1, InvariantHolds, PTL

(* Samples are produced in a healthy state only.                           *)
THEOREM PublishingIsHealthy == Spec => []HealthyWhenPublishing
<1>1. IInv => HealthyWhenPublishing
  BY DEF IInv, HealthInv, HealthyWhenPublishing
<1>. QED BY <1>1, InvariantHolds, PTL

(* No sample while the latest answer of the auth backend is a denial.      *)
THEOREM DenialIsRespected == Spec => []NoSampleAfterDenial
<1>1. IInv => NoSampleAfterDenial
  BY DEF IInv, AuthInv, NoSampleAfterDenial
<1>. QED BY <1>1, InvariantHolds, PTL

(* At most one sample is begun after the stop request.                     *)
THEOREM LateSamplesAreBounded == Spec => []AtMostOneLateSample
<1>1. IInv => AtMostOneLateSample
  <2> SUFFICES ASSUME IInv, NEW w \in Workers PROVE late[w] <= 1
    BY Zenon DEF AtMostOneLateSample
  <2>1. late[w] = 0 \/ late[w] = 1
    BY DEF IInv, LateInv
  <2>. QED BY <2>1, SMT
<1>. QED BY <1>1, InvariantHolds, PTL

(* Only start() replaces an advertised Stopped.                            *)
THEOREM StoppedStays == Spec => StoppedIsFinal
<1> DEFINE Step == state = "Stopped" /\ state' # "Stopped" => cpc = "starting"
<1>1. IInv /\ [Next]_vars => [Step]_vars
  <2> SUFFICES ASSUME IInv, Next, state = "Stopped", state' # "Stopped"
               PROVE  cpc = "starting"
    BY DEF Step
  <2>1. NoLiveWorker /\ cpc \in {"idle", "starting", "destroyed"}
    BY DEF IInv, StoppedInv
  <2>2. ~ \E w \in Workers : LoopStep(w)
    BY <2>1 DEF LoopStep, CheckStop, CheckToken, StoreRefreshing, RefreshGranted,
              RefreshDenied, CheckNonEmpty, StoreRefreshed, StoreRefreshFailed, CheckLink,
              StoreReconnecting, HangUp, DialOk, DialFails, StoreReconnected,
              StoreDialFailed, BeginSample, Send, QueueMessage, Enqueue, ExitLoop,
              Test, WorkerStore, Goto
  <2>3. ~(StartCall \/ StopCall \/ Destroy \/ PublishTelemetry \/ EnvStep)
    BY DEF StartCall, StopCall, Destroy, PublishTelemetry, EnvStep, EnvExpire, EnvClearToken,
           EnvDropLink, Disturb
  <2>4. ~StopStep
    BY <2>1 DEF StopStep, RequestStop, Join, ReturnStopped, Control
  <2>5. StartStep => cpc = "starting"
    BY <2>1 DEF StartStep, StoreStarting, Authenticate, StoreAuthenticating, Connect,
              StoreStartFailed, ReturnFailed, StoreConnected, Spawn, ReturnStarted,
              ControlStore, Control
  <2>. QED BY <2>2, <2>3, <2>4, <2>5 DEF Next, ControlStep
<1>. QED BY <1>1, InvariantHolds, PTL DEF Spec, StoppedIsFinal, Step

(* The steps of start(), stop() and the destructor.                        *)
LEMMA ControlRefines ==
  ASSUME IInv, IInv', StartCall \/ StopCall \/ Destroy \/ ControlStep
  PROVE  [Lifecycle!Next]_(Lifecycle!vars)
<1> USE DEF IInv, TypeOK, Ownership, Flags, Control, ControlStore, ctlFrame, phase, active,
            Lifecycle!Move, Lifecycle!vars, Lifecycle!Next
<1>1. CASE StartCall
  BY <1>1 DEF StartCall, Lifecycle!BeginStart
<1>2. CASE StopCall
  BY <1>2 DEF StopCall, Lifecycle!BeginStop
<1>3. CASE Destroy
  BY <1>3 DEF Destroy, Lifecycle!BeginClose
<1>4. CASE StoreStarting \/ Authenticate \/ StoreAuthenticating \/ Connect
           \/ StoreStartFailed \/ StoreConnected
  BY <1>4 DEF StoreStarting, Authenticate, StoreAuthenticating, Connect, StoreStartFailed,
              StoreConnected
<1>5. CASE ReturnFailed
  BY <1>5 DEF ReturnFailed, Lifecycle!FailStart
<1>6. CASE Spawn
  BY <1>6 DEF Spawn, Lifecycle!Launch
<1>7. CASE ReturnStarted
  BY <1>7 DEF ReturnStarted, Lifecycle!FinishStart
<1>8. CASE RequestStop
  BY <1>8 DEF RequestStop
<1>9. CASE Join("join", "joined")
  BY <1>9 DEF Join
<1>10. CASE ReturnStopped
  BY <1>10 DEF ReturnStopped, Lifecycle!FinishStop
<1>11. CASE Join("closing", "destroyed")
  BY <1>11 DEF Join, Lifecycle!FinishClose
<1>. QED BY <1>1, <1>2, <1>3, <1>4, <1>5, <1>6, <1>7, <1>8, <1>9, <1>10, <1>11
         DEF ControlStep, StartStep, StopStep

(* The worker: leaving the loop winds the service down, all else is hidden. *)
LEMMA LoopRefines ==
  ASSUME IInv, IInv', NEW t \in Workers, LoopStep(t)
  PROVE  [Lifecycle!Next]_(Lifecycle!vars)
<1>1. CASE ExitLoop(t)
  <2>1. cpc \in {"join", "closing"} /\ UNCHANGED <<cpc, running>>
    BY <1>1 DEF ExitLoop, Goto, loopFrame, IInv, Ownership, TypeOK
  <2>2. active /\ ~active'
    BY <1>1 DEF ExitLoop, Goto, IInv, Ownership, TypeOK, active
  <2>3. phase \in {"stopping", "closing"} /\ phase' = phase
    BY <2>1 DEF phase
  <2>. QED BY <2>2, <2>3 DEF Lifecycle!Next, Lifecycle!WindDown, active
<1>2. CASE ~ExitLoop(t)
  <2>1. UNCHANGED <<cpc, running>> /\ Live(t) /\ Live(t)'
        /\ (\A w \in Workers : w # t => wpc'[w] = wpc[w])
    BY <1>2 DEF LoopStep, IInv, TypeOK, CheckStop, CheckToken, StoreRefreshing,
              RefreshGranted, RefreshDenied,
              CheckNonEmpty, StoreRefreshed, StoreRefreshFailed, CheckLink,
              StoreReconnecting, HangUp, DialOk, DialFails, StoreReconnected,
              StoreDialFailed, BeginSample, Send, QueueMessage, Enqueue, Test,
              WorkerStore, Goto, loopFrame
  <2>2. phase' = phase
    BY <2>1 DEF phase
  <2>3. active' = active
    BY <2>1, Zenon DEF active
  <2>. QED BY <2>2, <2>3 DEF Lifecycle!vars
<1>. QED BY <1>1, <1>2

(* The safety part of ServiceLifecycle is implemented.                     *)
THEOREM LifecycleImplemented == Spec => Lifecycle!SafeSpec
<1>1. Init => Lifecycle!Init
  BY DEF Init, Lifecycle!Init, phase, active
<1>2. IInv /\ IInv' /\ [Next]_vars => [Lifecycle!Next]_(Lifecycle!vars)
  <2> SUFFICES ASSUME IInv, IInv', [Next]_vars
               PROVE  [Lifecycle!Next]_(Lifecycle!vars)
    OBVIOUS
  <2>1. CASE StartCall \/ StopCall \/ Destroy \/ ControlStep
    BY <2>1, ControlRefines
  <2>2. ASSUME NEW t \in Workers, LoopStep(t)
        PROVE  [Lifecycle!Next]_(Lifecycle!vars)
    BY <2>2, LoopRefines
  <2>3. CASE PublishTelemetry \/ EnvStep \/ UNCHANGED vars
    <3>1. UNCHANGED <<cpc, running, wpc>>
      BY <2>3 DEF PublishTelemetry, EnvStep, EnvExpire, EnvClearToken, EnvDropLink, Disturb, vars
    <3>2. phase' = phase /\ active' = active
      BY <3>1 DEF phase, active
    <3>. QED BY <3>2 DEF Lifecycle!vars
  <2>. QED BY <2>1, <2>2, <2>3 DEF Next
<1>. QED BY <1>1, <1>2, InvariantHolds, PTL DEF Spec, Lifecycle!SafeSpec

================================================================================
