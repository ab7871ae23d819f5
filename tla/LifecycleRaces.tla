---------------------------- MODULE LifecycleRaces ----------------------------
(***************************************************************************)
(* start() and stop() of ConnectivityService called by several threads at  *)
(* once, with backends and a thread constructor that may throw.  state_    *)
(* and running_ are atomic, worker_ is not: what keeps two threads off it  *)
(* is that running_.exchange() lets one caller through.                    *)
(*                                                                         *)
(* It does not keep a stop() out of a start() that is still under way, or  *)
(* a start() out of a stop(): then worker_ may be used by two of them at   *)
(* once (Racing).  That is undefined behaviour, and a behaviour ends there. *)
(* Where they come one after the other, a loop may be left that runs while *)
(* running_ is false, out of reach of stop() until another start().        *)
(* Of the loop, which ConnectivityService models, its stores and its end   *)
(* are left.                                                               *)
(***************************************************************************)
EXTENDS Naturals

CONSTANT Threads  \* the threads that call the service

VARIABLES
  state,    \* state_
  running,  \* running_
  pc,       \* where each thread is in start() or stop()
  worker,   \* worker_: "empty", or its loop "runs", is "told" to stop, has "ended"
  threw,    \* history: "start" after one threw, "stop" after the stop() that
            \* follows it threw too, "no" from the next start() or stop() on
  order     \* history: "broken" by a start() and a stop() that overlap, "mending"
            \* in a call that found the service so and is alone, else "kept"

vars == <<state, running, pc, worker, threw, order>>

LoopStates == {"Authenticating", "Connected", "Publishing", "Disconnected", "Reconnecting"}
StartPcs == {"starting", "authenticate", "authenticated", "connect", "connected", "spawn",
             "assign", "replace", "assigned", "failed", "clearRunning"}
StopPcs  == {"requestStop", "join", "joined"}

Init ==
  /\ state = "Stopped" /\ running = FALSE /\ pc = [t \in Threads |-> "idle"]
  /\ worker = "empty" /\ threw = "no" /\ order = "kept"

Goto(t, from, to) == pc[t] = from /\ pc' = [pc EXCEPT ![t] = to]
NobodyIn(pcs) == \A t \in Threads : pc[t] \notin pcs
Quiescent == NobodyIn(StartPcs \cup StopPcs)

(* Two threads are at worker_, and one of them is going to write it; a     *)
(* join() that has a thread to wait for resets it.                         *)
Racing ==
  \E t, u \in Threads :
    /\ t # u
    /\ \/ pc[t] \in {"assign", "replace"} /\ pc[u] \in {"assign", "replace", "requestStop", "join"}
       \/ pc[t] = "join" /\ pc[u] = "join" /\ worker # "empty"

(* The loops that run: that of worker_, and those new in a temporary.      *)
LoopRuns == worker \in {"runs", "told"} \/ ~NobodyIn({"assign", "replace"})

workerFrame == <<worker, order>>

Store(t, from, s, to) ==
  Goto(t, from, to) /\ state' = s /\ UNCHANGED <<running, threw, workerFrame>>

(* A call that gets through its exchange() while calls of the other kind   *)
(* are under way, or alone.                                                *)
Enter(others) ==
  order' = IF ~NobodyIn(others) THEN "broken"
           ELSE IF order = "broken" /\ Quiescent THEN "mending" ELSE order
Mend == order' = IF order = "mending" THEN "kept" ELSE order

-----------------------------------------------------------------------------
(* start().  A definition X_Variant is a faulty version of X.              *)
StartCall_LoadThenStore(t) ==
  /\ \/ Goto(t, "idle", IF running THEN "idle" ELSE "sawFalse") /\ UNCHANGED running
     \/ Goto(t, "sawFalse", "starting") /\ running' = TRUE
  /\ UNCHANGED <<state, threw, workerFrame>>

StartCall(t) ==
  \/ Goto(t, "idle", "idle") /\ running /\ UNCHANGED <<state, running, threw, workerFrame>>
  \/ /\ Goto(t, "idle", "starting") /\ ~running /\ running' = TRUE /\ threw' = "no"
     /\ Enter(StopPcs) /\ UNCHANGED <<state, worker>>

(* A call into a backend: it says yes or no, or throws.                    *)
Ask(t, from, yes) ==
  /\ Goto(t, from, yes) \/ Goto(t, from, "failed")
  /\ UNCHANGED <<state, running, threw, workerFrame>>

StartBody(t) ==
  \/ Store(t, "starting", "Starting", "authenticate")
  \/ Ask(t, "authenticate", "authenticated")
  \/ Store(t, "authenticated", "Authenticating", "connect")
  \/ Ask(t, "connect", "connected")
  \/ Store(t, "connected", "Connected", "spawn")
  \/ Store(t, "failed", "Disconnected", "clearRunning")

ClearRunning_Forgotten(t) ==
  Goto(t, "clearRunning", "idle") /\ UNCHANGED <<state, running, threw, workerFrame>>

ClearRunning(t) ==
  /\ Goto(t, "clearRunning", "idle") /\ running' = FALSE
  /\ UNCHANGED <<state, threw, workerFrame>>

(* worker_ = std::jthread(...): the new loop runs in a temporary.  A loop  *)
(* that worker_ still has is told to stop and joined first.                *)
Spawn(t) == Goto(t, "spawn", "assign") /\ UNCHANGED <<state, running, threw, workerFrame>>

Assign(t) ==
  /\ Goto(t, "assign", "replace")
  /\ worker' = IF worker = "runs" THEN "told" ELSE worker
  /\ UNCHANGED <<state, running, threw, order>>

Replace(t) ==
  /\ Goto(t, "replace", "assigned") /\ worker \in {"empty", "ended"} /\ worker' = "runs"
  /\ UNCHANGED <<state, running, threw, order>>

ReturnStarted(t) ==
  /\ Goto(t, "assigned", "idle") /\ state' = "Publishing" /\ Mend
  /\ UNCHANGED <<running, worker, threw>>

(* Nothing in start() catches, and running_ stays set.                     *)
Throws(t) ==
  /\ \E from \in {"authenticate", "connect", "spawn"} : Goto(t, from, "idle")
  /\ threw' = "start"
  /\ UNCHANGED <<state, running, workerFrame>>

-----------------------------------------------------------------------------
(* stop().                                                                 *)
StopCall(t) ==
  \/ Goto(t, "idle", "idle") /\ ~running /\ UNCHANGED <<state, running, threw, workerFrame>>
  \/ /\ Goto(t, "idle", "requestStop") /\ running /\ running' = FALSE
     /\ Enter(StartPcs) /\ UNCHANGED <<state, threw, worker>>

RequestStop(t) ==
  /\ Goto(t, "requestStop", "join") /\ worker' = IF worker = "runs" THEN "told" ELSE worker
  /\ UNCHANGED <<state, running, threw, order>>

(* A bug: the loop is left to end on its own.                              *)
Join_NotWaited(t) ==
  /\ Goto(t, "join", "joined") /\ worker # "empty"
  /\ UNCHANGED <<state, running, threw, workerFrame>>

(* join() waits for the loop.                                              *)
Join(t) ==
  /\ Goto(t, "join", "joined") /\ worker = "ended" /\ worker' = "empty"
  /\ UNCHANGED <<state, running, threw, order>>

(* With nothing to join, after a start() that threw or in one that has not *)
(* come so far, join() throws std::system_error.                           *)
JoinThrows(t) ==
  /\ Goto(t, "join", "idle") /\ worker = "empty" /\ threw' = "stop"
  /\ UNCHANGED <<state, running, workerFrame>>

StoreStopped(t) ==
  /\ Goto(t, "joined", "idle") /\ state' = "Stopped" /\ threw' = "no" /\ Mend
  /\ UNCHANGED <<running, worker>>

-----------------------------------------------------------------------------
LoopStores ==
  /\ LoopRuns /\ state' \in LoopStates
  /\ UNCHANGED <<running, pc, threw, workerFrame>>

LoopReturns ==
  /\ worker = "told" /\ worker' = "ended"
  /\ UNCHANGED <<state, running, pc, threw, order>>

Next ==
  /\ ~Racing
  /\ \/ \E t \in Threads :
          \/ StartCall(t) \/ StartBody(t) \/ ClearRunning(t) \/ Spawn(t) \/ Assign(t)
          \/ Replace(t) \/ ReturnStarted(t) \/ Throws(t)
          \/ StopCall(t) \/ RequestStop(t) \/ Join(t) \/ JoinThrows(t) \/ StoreStopped(t)
     \/ LoopStores \/ LoopReturns

Spec == Init /\ [][Next]_vars

-----------------------------------------------------------------------------
(* Properties.                                                             *)

(* The variables keep their types.  A loop that worker_ has was told to    *)
(* stop only by a thread that still waits for it, however the calls overlap. *)
TypeOK ==
  /\ state \in LoopStates \cup {"Starting", "Stopped"} /\ running \in BOOLEAN
  /\ \A t \in Threads : pc[t] \in {"idle"} \cup StartPcs \cup StopPcs
  /\ worker \in {"empty", "runs", "told", "ended"} /\ threw \in {"no", "start", "stop"}
  /\ order \in {"kept", "broken", "mending"}
  /\ worker \in {"told", "ended"} => ~NobodyIn({"join", "replace"})

(* However many threads call start() and stop(), whatever throws, as long   *)
(* as no stop() overlaps a start(): worker_, which has no lock, is used by *)
(* one thread at a time, and the one that creates a loop finds it empty:   *)
(* no old loop to wait for, no two side by side.  After such an overlap    *)
(* the first call that is alone has worker_ for itself again.              *)
WorkerIsExclusive ==
  /\ order # "broken" =>
       \A t, u \in Threads :
         {pc[t], pc[u]} \subseteq {"spawn", "assign", "replace", "requestStop", "join"} => t = u
  /\ order = "kept" => NobodyIn({"spawn", "assign", "replace"}) \/ worker = "empty"

(* When no call is under way, however they overlapped before, at most one   *)
(* loop runs, which has not been told to stop and which worker_ holds.  If *)
(* none overlapped, or a start() or stop() that was alone has come to its  *)
(* end since, running() and state() agree with it.  The exception is a     *)
(* start() that threw: the stop() after it resets running_, though it      *)
(* throws as well, and the next start() is a real one.                     *)
SettledIsTrue ==
  Quiescent =>
    /\ worker \in {"empty", "runs"}
    /\ order = "kept" =>
         IF worker = "runs" THEN running /\ threw = "no" /\ state # "Stopped"
         ELSE /\ running <=> threw = "start"
              /\ threw = "no" => state \in {"Stopped", "Disconnected"}
=============================================================================
