----------------------------- MODULE RemoteCalls -----------------------------
(***************************************************************************)
(* A process that exports the three SOME/IP services with their default    *)
(* stubs and a process that calls them through the generated proxies.  The *)
(* methods go over UDP (the bindings pass isReliable = false), so messages *)
(* are lost, duplicated and reordered; services come and go.  The runtime  *)
(* between proxy and adapter is external: it matches a reply with its call *)
(* and ends every call, with an error if need be.                          *)
(***************************************************************************)
EXTENDS FrancaInterfaces, Naturals, FiniteSets

CONSTANTS
  Calls,    \* identities of the calls
  Adapters, \* the stub adapters that can be made, each a service and a number
  None      \* no adapter

Con == INSTANCE ConnectivityBinding
Dia == INSTANCE DiagnosticsBinding
Veh == INSTANCE VehicleSignalBinding

Services == {"connectivity", "diagnostics", "vehicle"}
Modes == {"sync", "async"}

ASSUME AdaptersAssumption == Adapters \subseteq Services \X Nat /\ None \notin Adapters

Select(s, c, d, v) == CASE s = "connectivity" -> c [] s = "diagnostics" -> d [] s = "vehicle" -> v

MethodsOf(s) == Select(s, ConnectivityMethods, DiagnosticsMethods, VehicleSignalMethods)
Methods == UNION {DOMAIN MethodsOf(s) : s \in Services}
ServiceOf(m) == CHOOSE s \in Services : m \in DOMAIN MethodsOf(s)
Franca == [m \in Methods |-> MethodsOf(ServiceOf(m))[m]]

VARIABLES
  call,        \* what each call is at
  net,         \* messages under way
  offered,     \* the adapters the runtime owns and offers, of each service
  alive,       \* the adapters not destroyed yet
  stubAdapter, \* stubAdapter_ of each stub: a weak pointer to an adapter
  firing,      \* the adapter a thread in fireSignalChangedEvent() has locked
  missed       \* history: a broadcast was dropped while the service was offered

vars == <<call, net, offered, alive, stubAdapter, firing, missed>>

NotMade == [state |-> "idle"]

Init ==
  /\ call = [c \in Calls |-> NotMade]
  /\ net = {} /\ offered = {} /\ alive = {}
  /\ stubAdapter = [s \in Services |-> None]
  /\ firing = None /\ missed = FALSE

callsFrame   == <<call, net>>
adapterFrame == <<offered, alive, stubAdapter, firing, missed>>

-----------------------------------------------------------------------------
(* The proxy.                                                              *)
Delegate(mode, m) ==
  Select(ServiceOf(m), Con!delegate, Dia!delegate, Veh!delegate)[mode][m]

ProxyFor(s) == Select(s, Con!registerProxy, Dia!registerProxy, Veh!registerProxy)
ProxyVersion(s) == Select(s, Con!getOwnVersion, Dia!getOwnVersion, Veh!getOwnVersion)
Interface(s) == Select(s, Con!getInterface, Dia!getInterface, Veh!getInterface)

(* The runtime builds a proxy for an interface it finds registered.        *)
CallMethod(c, m, mode) ==
  LET s == ServiceOf(m) IN
  /\ call[c] = NotMade /\ ProxyFor(s) = Interface(s)
  /\ call' = [call EXCEPT ![c] = [state |-> "waiting", method |-> m, mode |-> mode]]
  /\ net' = net \cup {[kind |-> "request", call |-> c, to |-> ProxyFor(s),
                       version |-> ProxyVersion(s), id |-> Delegate(mode, m).id,
                       in |-> Delegate(mode, m).in]}
  /\ UNCHANGED adapterFrame

(* How a call ends.  The synchronous methods copy the value of every out    *)
(* Deployable to the caller's variables, and the asynchronous ones hand it *)
(* to the callback, whatever the status: after an error it was never set.  *)
Ended(c, status, values, by) ==
  [call EXCEPT ![c] = [state |-> "returned", method |-> @.method, mode |-> @.mode,
                       status |-> status, out |-> values, by |-> by]]

Unset == <<"unset">>
Nobody == [handler |-> "nobody", got |-> {}]

Fails(c) == Ended(c, "NOT_AVAILABLE", Unset, Nobody)

(* What the declared callback or the out parameters of the call can take.  *)
Takes(mode, m) ==
  IF mode = "sync" THEN Types(Delegate(mode, m).out)
  ELSE Select(ServiceOf(m), Con!AsyncCallback, Dia!AsyncCallback, Veh!AsyncCallback)[m]

Receive(r) ==
  LET c == r.call
      ok == /\ r.out = Types(Delegate(call[c].mode, call[c].method).out)
            /\ r.out = Takes(call[c].mode, call[c].method)
  IN
  /\ r \in net /\ r.kind = "reply"
  /\ net' = net \ {r}
  /\ call' = IF call[c].state # "waiting" THEN call
             ELSE IF ok THEN Ended(c, r.status, r.values, r.by)
             ELSE Ended(c, "SERIALIZATION_ERROR", Unset, r.by)
  /\ UNCHANGED adapterFrame

(* No answer in time, or no service to ask.                                *)
TimeOut(c) == call[c].state = "waiting" /\ call' = Fails(c) /\ UNCHANGED <<net, adapterFrame>>

Lose(m) == m \in net /\ net' = net \ {m} /\ UNCHANGED <<call, adapterFrame>>

-----------------------------------------------------------------------------
(* The stub adapter and the default stub.                                  *)
AdapterFor(s) ==
  Select(s, Con!registerStubAdapter, Dia!registerStubAdapter, Veh!registerStubAdapter)
AdapterVersion(s) ==
  Select(s, Con!getInterfaceVersion, Dia!getInterfaceVersion, Veh!getInterfaceVersion)
DispatchersOf(s) == Select(s, Con!StubDispatchers, Dia!StubDispatchers, Veh!StubDispatchers)
HasElement(s, i) == Select(s, Con!hasElement(i), Dia!hasElement(i), Veh!hasElement(i))
Parameters(s, h) == Select(s, Con!Stub, Dia!Stub, Veh!Stub)[h]
DefaultAnswer(s, h) == Select(s, Con!StubDefault, Dia!StubDefault, Veh!StubDefault)[h]

Accepts(s, r, d) == d.id = r.id /\ HasElement(s, d.element) /\ d.in = Types(r.in)

(* The handler runs with its parameters bound by position and answers in   *)
(* place.  "got" records which argument each parameter was given.          *)
Answer(s, r, d) ==
  LET ps == Parameters(s, d.handler) IN
  [kind |-> "reply", call |-> r.call, status |-> "SUCCESS", out |-> d.out,
   values |-> DefaultAnswer(s, d.handler),
   by |-> [handler |-> d.handler, got |-> {<<ps[i], Names(r.in)[i]>> : i \in DOMAIN ps}]]

Refusal(r) == [kind |-> "reply", call |-> r.call, status |-> "REMOTE_ERROR", out |-> <<>>,
               values |-> Unset, by |-> Nobody]

Dispatch(a, r) ==
  LET s == a[1]
      matching == {d \in DispatchersOf(s) : Accepts(s, r, d)}
  IN
  /\ a \in offered /\ r \in net /\ r.kind = "request"
  /\ r.to = AdapterFor(s) /\ r.version[1] = AdapterVersion(s)[1]
  /\ \E answer \in IF matching = {} THEN {Refusal(r)} ELSE {Answer(s, r, d) : d \in matching} :
       \/ net' = (net \ {r}) \cup {answer}
       \/ net' = net \cup {answer}           \* a duplicate is still to come
  /\ UNCHANGED <<call, adapterFrame>>

-----------------------------------------------------------------------------
(* Adapters are shared: owned by the runtime while offered, and by a thread *)
(* that fires a broadcast from the lock of stubAdapter_ to the end of the  *)
(* send.  The last owner to let go runs the destructor.  stubAdapter_ has   *)
(* no lock of its own: its assignment in initStubAdapter() and its lock()  *)
(* in a broadcast are one step each, which the code grants only when the   *)
(* application orders the two; a data race on it is outside this model.    *)
HeldByFire_NotAtAll(a) == FALSE
HeldByFire(a) == a = firing

Register_KeepsFirstAdapter(a) ==
  /\ a \notin alive /\ \A b \in offered : b[1] # a[1]
  /\ offered' = offered \cup {a} /\ alive' = alive \cup {a}
  /\ stubAdapter' = [stubAdapter EXCEPT ![a[1]] = IF @ = None THEN a ELSE @]
  /\ UNCHANGED <<firing, missed, callsFrame>>

Register(a) ==
  /\ a \notin alive /\ \A b \in offered : b[1] # a[1]
  /\ offered' = offered \cup {a} /\ alive' = alive \cup {a}
  /\ stubAdapter' = [stubAdapter EXCEPT ![a[1]] = a]      \* initStubAdapter()
  /\ UNCHANGED <<firing, missed, callsFrame>>

Unregister_StillOffered(a) ==
  /\ a \in offered /\ alive' = IF HeldByFire(a) THEN alive ELSE alive \ {a}
  /\ UNCHANGED <<offered, stubAdapter, firing, missed, callsFrame>>

Unregister(a) ==
  /\ a \in offered /\ offered' = offered \ {a}
  /\ alive' = IF HeldByFire(a) THEN alive ELSE alive \ {a}
  /\ UNCHANGED <<stubAdapter, firing, missed, callsFrame>>

(* fireSignalChangedEvent(): lock the weak pointer, and send through what  *)
(* it yields; nothing is sent when the adapter has gone.                   *)
LockAdapter ==
  /\ firing = None
  /\ firing' = IF stubAdapter["vehicle"] \in alive THEN stubAdapter["vehicle"] ELSE None
  /\ missed' = (missed \/ (firing' = None /\ \E a \in offered : a[1] = "vehicle"))
  /\ UNCHANGED <<offered, alive, stubAdapter, callsFrame>>

SendEvent ==
  /\ firing # None /\ firing' = None
  /\ net' = net \cup {[kind |-> "event", id |-> Veh!fireSignalChanged.id,
                       out |-> Veh!fireSignalChanged.out, type |-> Veh!registerEvent]}
  /\ alive' = IF firing \in offered THEN alive ELSE alive \ {firing}
  /\ UNCHANGED <<call, offered, stubAdapter, missed>>

(* A listener takes an event it has subscribed to and can read.            *)
Hears(m) ==
  /\ m.id = Veh!signalChanged.id /\ m.type = [id |-> m.id, reliability |-> Veh!signalChanged.reliability]
  /\ Types(m.out) = Veh!signalChanged.types

HearEvent(m) ==
  /\ m \in net /\ m.kind = "event" /\ Hears(m)
  /\ net' = net \ {m} /\ UNCHANGED <<call, adapterFrame>>

Next ==
  \/ \E c \in Calls : TimeOut(c) \/ \E m \in Methods, mode \in Modes : CallMethod(c, m, mode)
  \/ \E m \in net : Receive(m) \/ Lose(m) \/ HearEvent(m) \/ \E a \in Adapters : Dispatch(a, m)
  \/ \E a \in Adapters : Register(a) \/ Unregister(a)
  \/ LockAdapter \/ SendEvent

Spec == Init /\ [][Next]_vars

-----------------------------------------------------------------------------
(* Properties.                                                             *)

(* Every call is not made yet, waiting or returned; the runtime offers at   *)
(* most one adapter of a service, which has not been destroyed.            *)
TypeOK ==
  /\ \A c \in Calls : call[c].state \in {"idle", "waiting", "returned"}
  /\ \A m \in net : m.kind \in {"request", "reply", "event"}
  /\ offered \subseteq alive /\ alive \subseteq Adapters
  /\ \A a, b \in offered : a[1] = b[1] => a = b
  /\ stubAdapter \in [Services -> Adapters \cup {None}]
  /\ firing \in Adapters \cup {None} /\ missed \in BOOLEAN

Returned(c, status) == call[c].state = "returned" /\ call[c].status = status

(* A call that succeeds was answered by the handler of the method called,  *)
(* each of whose parameters received the argument of that name, and no     *)
(* adapter refuses a request nor a proxy a reply: the dispatch tables, the *)
(* stubs, the proxies and their callbacks agree across nine files.         *)
AnsweredByItsHandler ==
  \A c \in Calls :
    /\ ~Returned(c, "REMOTE_ERROR") /\ ~Returned(c, "SERIALIZATION_ERROR")
    /\ Returned(c, "SUCCESS") =>
         LET m == call[c].method
             ps == Names(Franca[m].in)
         IN /\ call[c].by = [handler |-> m, got |-> {<<ps[i], ps[i]>> : i \in DOMAIN ps}]
            /\ call[c].out = DefaultAnswer(ServiceOf(m), m)

(* What is under way has the ids, types and order of the FIDL and FDEPL    *)
(* files the bindings were generated from, and a broadcast is one that the *)
(* proxy has subscribed to and can read.                                   *)
FollowsFranca ==
  \A m \in net :
    IF m.kind = "event" THEN [id |-> m.id, out |-> m.out] = SignalChanged /\ Hears(m)
    ELSE LET f == Franca[call[m.call].method] IN
         IF m.kind = "request" THEN m.id = f.id /\ m.in = f.in
         ELSE m.status = "SUCCESS" => m.out = Types(f.out)

(* No broadcast goes through an adapter whose destructor has deinitialised *)
(* it, although it may be unregistered between the lock and the send.      *)
SendsThroughLiveAdapter == firing # None => firing \in alive

(* A broadcast is not lost in the stub while the service is offered: after *)
(* any number of re-registrations, also when one overlaps a send through   *)
(* the previous adapter, the stub knows the adapter that is offered.  One   *)
(* sent through an adapter that was withdrawn meanwhile counts as sent.    *)
NoBroadcastMissed == ~missed
=============================================================================
