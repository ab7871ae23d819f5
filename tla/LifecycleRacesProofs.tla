------------------------- MODULE LifecycleRacesProofs -------------------------
(***************************************************************************)
(* The safety properties of LifecycleRaces hold for every set of threads.  *)
(*                                                                         *)
(* While no stop() overlaps a start(), running_.exchange() lets one call   *)
(* through at a time (OneCall), and what worker_ holds at each point of    *)
(* that call (Holder) and between two calls (Settled) follows from what    *)
(* the previous one left behind.  In whatever order they come, who told a  *)
(* loop to stop waits for it (Waited).                                     *)
(***************************************************************************)
EXTENDS LifecycleRaces, TLAPS

Waited == worker \in {"told", "ended"} => \E t \in Threads : pc[t] \in {"join", "replace"}

OneCall ==
  order # "broken" => \A t, u \in Threads : pc[t] # "idle" /\ pc[u] # "idle" => t = u

(* running_ and worker_ during a call.  One that mends finds a worker_ of   *)
(* which it knows nothing.                                                 *)
Holder(t) ==
  /\ order # "broken" =>
       /\ pc[t] \in StartPcs => running /\ threw = "no"
       /\ pc[t] = "assigned" => worker = "runs"
       /\ pc[t] \in StopPcs => ~running
       /\ pc[t] = "joined" => worker = "empty"
  /\ order = "kept" =>
       /\ pc[t] \in StartPcs \ {"assigned"} => worker = "empty"
       /\ pc[t] = "clearRunning" => state = "Disconnected"
       /\ pc[t] = "requestStop" => \/ worker = "runs" /\ threw = "no"
                                   \/ worker = "empty" /\ threw = "start"

(* What a call leaves behind for the next one.                             *)
Settled ==
  order = "kept" /\ (\A t \in Threads : pc[t] = "idle") =>
    IF worker = "runs" THEN running /\ threw = "no" /\ state \in LoopStates
    ELSE /\ running <=> threw = "start"
         /\ threw = "no" => state \in {"Stopped", "Disconnected"}

Types ==
  /\ state \in LoopStates \cup {"Starting", "Stopped"} /\ running \in BOOLEAN
  /\ worker \in {"empty", "runs", "told", "ended"} /\ threw \in {"no", "start", "stop"}
  /\ order \in {"kept", "broken", "mending"}
  /\ pc \in [Threads -> {"idle"} \cup StartPcs \cup StopPcs]

(* The inductive invariant.                                                *)
IInv == Types /\ Waited /\ OneCall /\ Settled /\ \A t \in Threads : Holder(t)

USE DEF StartPcs, StopPcs, LoopStates

(* The service starts in the invariant.                                    *)
LEMMA InitIInv == Init => IInv
<1> SUFFICES ASSUME Init PROVE IInv
  OBVIOUS
<1>1. Types
  BY DEF Init, Types
<1>2. Waited /\ OneCall /\ Settled /\ \A t \in Threads : Holder(t)
  BY DEF Init, Waited, OneCall, Settled, Holder
<1>. QED BY <1>1, <1>2 DEF IInv

(* start(): the call that went through has worker_ for itself.             *)
LEMMA StartPreserves ==
  ASSUME IInv, NEW t \in Threads,
         \/ StartCall(t) \/ StartBody(t) \/ ClearRunning(t) \/ Spawn(t) \/ Assign(t)
         \/ Replace(t) \/ ReturnStarted(t) \/ Throws(t)
  PROVE  IInv'
<1> USE DEF IInv, Types, Waited, OneCall, Settled, Holder, Goto, workerFrame
<1>1. CASE StartCall(t)
  <2>1. CASE Goto(t, "idle", "idle") /\ running /\ UNCHANGED <<state, running, threw, workerFrame>>
    <3>1. UNCHANGED vars
      BY <2>1 DEF vars
    <3>. QED BY <3>1 DEF vars
  <2>2. CASE /\ Goto(t, "idle", "starting") /\ ~running /\ running' = TRUE /\ threw' = "no"
             /\ Enter(StopPcs) /\ UNCHANGED <<state, worker>>
    <3>1. Types'
      BY <2>2 DEF Enter
    <3>2. order' # "broken" => \A u \in Threads : pc[u] = "idle"
      BY <2>2 DEF Enter, Quiescent, NobodyIn
    <3>3. order' = "kept" => order = "kept"
      BY <2>2 DEF Enter
    <3>4. Waited' /\ OneCall' /\ Settled'
      BY <2>2, <3>2
    <3>5. \A u \in Threads : Holder(u)'
      BY <2>2, <3>2, <3>3
    <3>. QED BY <3>1, <3>4, <3>5
  <2>. QED BY <1>1, <2>1, <2>2 DEF StartCall
<1>2. CASE StartBody(t)
  <2>1. CASE \/ Ask(t, "authenticate", "authenticated") \/ Ask(t, "connect", "connected")
    BY <2>1 DEF Ask
  <2>2. CASE \/ Store(t, "starting", "Starting", "authenticate")
             \/ Store(t, "authenticated", "Authenticating", "connect")
             \/ Store(t, "connected", "Connected", "spawn")
             \/ Store(t, "failed", "Disconnected", "clearRunning")
    BY <2>2 DEF Store
  <2>. QED BY <1>2, <2>1, <2>2 DEF StartBody
<1>3. CASE ClearRunning(t)
  <2>1. Types' /\ Waited' /\ OneCall'
    BY <1>3 DEF ClearRunning
  <2>2. Settled' /\ \A u \in Threads : Holder(u)'
    BY <1>3 DEF ClearRunning
  <2>. QED BY <2>1, <2>2
<1>4. CASE Spawn(t)
  BY <1>4 DEF Spawn
<1>5. CASE Assign(t)
  BY <1>5 DEF Assign
<1>6. CASE Replace(t)
  BY <1>6 DEF Replace
<1>7. CASE ReturnStarted(t)
  BY <1>7 DEF ReturnStarted, Mend
<1>8. CASE Throws(t)
  BY <1>8 DEF Throws
<1>. QED BY <1>1, <1>2, <1>3, <1>4, <1>5, <1>6, <1>7, <1>8

(* stop(): it joins what it found, or throws because there is nothing.     *)
LEMMA StopPreserves ==
  ASSUME IInv, NEW t \in Threads,
         StopCall(t) \/ RequestStop(t) \/ Join(t) \/ JoinThrows(t) \/ StoreStopped(t)
  PROVE  IInv'
<1> USE DEF IInv, Types, Waited, OneCall, Settled, Holder, Goto, workerFrame
<1>1. CASE StopCall(t)
  <2>1. CASE Goto(t, "idle", "idle") /\ ~running /\ UNCHANGED <<state, running, threw, workerFrame>>
    <3>1. UNCHANGED vars
      BY <2>1 DEF vars
    <3>. QED BY <3>1 DEF vars
  <2>2. CASE /\ Goto(t, "idle", "requestStop") /\ running /\ running' = FALSE
             /\ Enter(StartPcs) /\ UNCHANGED <<state, threw, worker>>
    <3>1. Types'
      BY <2>2 DEF Enter
    <3>2. order' # "broken" => \A u \in Threads : pc[u] = "idle"
      BY <2>2 DEF Enter, Quiescent, NobodyIn
    <3>3. order' = "kept" => order = "kept"
      BY <2>2 DEF Enter
    <3>4. Waited' /\ OneCall' /\ Settled'
      BY <2>2, <3>2
    <3>5. \A u \in Threads : Holder(u)'
      BY <2>2, <3>2, <3>3
    <3>. QED BY <3>1, <3>4, <3>5
  <2>. QED BY <1>1, <2>1, <2>2 DEF StopCall
<1>2. CASE RequestStop(t)
  BY <1>2 DEF RequestStop
<1>3. CASE Join(t)
  BY <1>3 DEF Join
<1>4. CASE JoinThrows(t)
  BY <1>4 DEF JoinThrows
<1>5. CASE StoreStopped(t)
  BY <1>5 DEF StoreStopped, Mend
<1>. QED BY <1>1, <1>2, <1>3, <1>4, <1>5

(* The worker loop stores its states, and ends when it is told to.         *)
LEMMA LoopPreserves ==
  ASSUME IInv, LoopStores \/ LoopReturns PROVE IInv'
<1> USE DEF IInv, Types, Waited, OneCall, Settled, Holder, workerFrame
<1>1. CASE LoopStores
  BY <1>1 DEF LoopStores, LoopRuns, NobodyIn
<1>2. CASE LoopReturns
  BY <1>2 DEF LoopReturns
<1>. QED BY <1>1, <1>2

(* IInv is an invariant.                                                   *)
THEOREM InvariantHolds == Spec => []IInv
<1>1. IInv /\ [Next]_vars => IInv'
  <2>1. ASSUME IInv, UNCHANGED vars PROVE IInv'
    BY <2>1 DEF IInv, Types, Waited, OneCall, Settled, Holder, vars
  <2>. QED BY <2>1, StartPreserves, StopPreserves, LoopPreserves DEF Next
<1>. QED BY InitIInv, <1>1, PTL DEF Spec

(* The variables keep their types, and no loop is told to stop and left.   *)
THEOREM TypeCorrect == Spec => []TypeOK
<1>1. IInv => TypeOK
  BY DEF IInv, Types, Waited, TypeOK, NobodyIn
<1>. QED BY <1>1, InvariantHolds, PTL

(* worker_ is assigned, told to stop or joined by one thread at a time, and *)
(* two loops never run side by side, unless a stop() overlaps a start().   *)
THEOREM WorkerAlwaysExclusive == Spec => []WorkerIsExclusive
<1>1. IInv => WorkerIsExclusive
  BY DEF IInv, OneCall, Types, Holder, NobodyIn, WorkerIsExclusive
<1>. QED BY <1>1, InvariantHolds, PTL

(* When no call is under way worker_ holds the one loop there may be, and  *)
(* unless a stop() overlapped a start() running() and state() agree with it. *)
THEOREM AlwaysSettles == Spec => []SettledIsTrue
<1>1. IInv => SettledIsTrue
  BY DEF IInv, Types, Waited, Settled, SettledIsTrue, Quiescent, NobodyIn
<1>. QED BY <1>1, InvariantHolds, PTL
===============================================================================
