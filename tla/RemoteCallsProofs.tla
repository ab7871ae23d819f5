--------------------------- MODULE RemoteCallsProofs ---------------------------
(***************************************************************************)
(* The safety properties of RemoteCalls hold for every number of calls and *)
(* every set of adapters.                                                  *)
(***************************************************************************)
EXTENDS RemoteCalls, TLAPS

USE AdaptersAssumption DEF AdaptersAssumption

-----------------------------------------------------------------------------
(* The adapters.                                                           *)

AdapterTypes ==
  /\ offered \subseteq alive /\ alive \subseteq Adapters
  /\ stubAdapter \in [Services -> Adapters \cup {None}]
  /\ firing \in Adapters \cup {None} /\ missed \in BOOLEAN

(* An offered adapter is the one its stub knows, so there is one a service. *)
Known == \A a \in offered : stubAdapter[a[1]] = a

AdapterIInv == AdapterTypes /\ Known /\ SendsThroughLiveAdapter /\ NoBroadcastMissed

(* Nothing is offered at first.                                            *)
LEMMA AdapterInit == Init => AdapterIInv
  BY DEF Init, AdapterIInv, AdapterTypes, Known, SendsThroughLiveAdapter, NoBroadcastMissed

(* An adapter comes or goes, or a broadcast is sent through one.           *)
LEMMA AdapterStep ==
  ASSUME AdapterIInv,
         (\E a \in Adapters : Register(a) \/ Unregister(a)) \/ LockAdapter \/ SendEvent
  PROVE  AdapterIInv'
<1> USE DEF AdapterIInv, AdapterTypes, Known, SendsThroughLiveAdapter, NoBroadcastMissed
<1>1. ASSUME NEW a \in Adapters, Register(a) PROVE AdapterIInv'
  BY <1>1 DEF Register, Services
<1>2. ASSUME NEW a \in Adapters, Unregister(a) PROVE AdapterIInv'
  BY <1>2 DEF Unregister, HeldByFire
<1>3. CASE LockAdapter
  BY <1>3 DEF LockAdapter, Services
<1>4. CASE SendEvent
  BY <1>4 DEF SendEvent
<1>. QED BY <1>1, <1>2, <1>3, <1>4

-----------------------------------------------------------------------------
(* The tables: what the FIDL files declare of a method, and what its proxy, *)
(* its stub adapter and its stub make of it.                               *)

(* The types and the names of up to three fields.                          *)
LEMMA Columns ==
  /\ Types(<<>>) = <<>> /\ Names(<<>>) = <<>>
  /\ \A a, x : Types(<< <<a, x>> >>) = <<a>> /\ Names(<< <<a, x>> >>) = <<x>>
  /\ \A a, b, x, y : /\ Types(<< <<a, x>>, <<b, y>> >>) = <<a, b>>
                     /\ Names(<< <<a, x>>, <<b, y>> >>) = <<x, y>>
  /\ \A a, b, c, x, y, z : /\ Types(<< <<a, x>>, <<b, y>>, <<c, z>> >>) = <<a, b, c>>
                           /\ Names(<< <<a, x>>, <<b, y>>, <<c, z>> >>) = <<x, y, z>>
  BY DEF Types, Names

(* Every method is of one service.                                         *)
LEMMA MethodsAre ==
  /\ Methods = {"connect", "disconnect", "publishDiagnostic", "getSpeed", "getBatteryVoltage"}
  /\ ServiceOf("connect") = "connectivity" /\ ServiceOf("disconnect") = "connectivity"
  /\ ServiceOf("publishDiagnostic") = "diagnostics"
  /\ ServiceOf("getSpeed") = "vehicle" /\ ServiceOf("getBatteryVoltage") = "vehicle"
<1>1. /\ DOMAIN MethodsOf("connectivity") = {"connect", "disconnect"}
      /\ DOMAIN MethodsOf("diagnostics") = {"publishDiagnostic"}
      /\ DOMAIN MethodsOf("vehicle") = {"getSpeed", "getBatteryVoltage"}
  BY DEF MethodsOf, Select, ConnectivityMethods, DiagnosticsMethods, VehicleSignalMethods
<1>2. Methods = {"connect", "disconnect", "publishDiagnostic", "getSpeed", "getBatteryVoltage"}
  BY <1>1 DEF Methods, Services
<1>. QED BY <1>1, <1>2 DEF ServiceOf, Services

(* The proxy sends and expects what the method is declared to carry, its   *)
(* dispatcher accepts that and runs the handler of the method, and the     *)
(* handler's parameters are the declared ones.                             *)
Agree(m) ==
  LET s == ServiceOf(m)
      f == Franca[m]
  IN /\ \A mode \in Modes : Delegate(mode, m) = f /\ Takes(mode, m) = Types(f.out)
     /\ \A d \in DispatchersOf(s) : d.id = f.id => d.handler = m /\ d.out = Types(f.out)
     /\ \E d \in DispatchersOf(s) : Accepts(s, [id |-> f.id, in |-> f.in], d)
     /\ Parameters(s, m) = Names(f.in)

(* connect.                                                                *)
LEMMA ConnectAgrees == Agree("connect")
<1> DEFINE f == Franca["connect"]
<1>1. f = [id |-> \h1001,
           in |-> <<String("brokerHost"), UInt16("brokerPort"), String("clientId")>>,
           out |-> <<Boolean("success"), String("message")>>]
  BY MethodsAre DEF Franca, MethodsOf, Select, ConnectivityMethods, Declare,
                    Method, SomeIpID, Outcome
<1>2. /\ Types(f.in) = <<"String", "UInt16", "String">>
      /\ Names(f.in) = <<"brokerHost", "brokerPort", "clientId">>
      /\ Types(f.out) = <<"Boolean", "String">>
  BY <1>1, Columns DEF Boolean, String, UInt16
<1> HIDE DEF f
<1>3. \A mode \in Modes : Delegate(mode, "connect") = f
  BY <1>1, MethodsAre
     DEF Modes, Delegate, Select, Con!delegate, Con!connect, Con!connectAsync, Con!Method,
         Boolean, String, UInt16, Con!Boolean, Con!String, Con!UInt16
<1>4. \A mode \in Modes : Takes(mode, "connect") = Types(f.out)
  BY <1>2, <1>3, MethodsAre DEF Takes, Select, Con!AsyncCallback
<1>5. \A d \in DispatchersOf("connectivity") :
        d.id = \h1001 => d.handler = "connect" /\ d.out = <<"Boolean", "String">>
  BY DEF DispatchersOf, Select, Con!StubDispatchers, Con!Dispatcher
<1>6. \E d \in DispatchersOf("connectivity") :
        d.id = \h1001 /\ d.in = <<"String", "UInt16", "String">>
        /\ HasElement("connectivity", d.element)
  <2> DEFINE d == Con!Dispatcher(\h1001, "connect", 0, <<"String", "UInt16", "String">>,
                             <<"Boolean", "String">>)
  <2>1. d \in DispatchersOf("connectivity")
    BY DEF DispatchersOf, Select, Con!StubDispatchers
  <2>2. d.id = \h1001 /\ d.in = <<"String", "UInt16", "String">> /\ d.element = 0
    BY DEF Con!Dispatcher
  <2>3. HasElement("connectivity", 0)
    BY DEF HasElement, Select, Con!hasElement
  <2> HIDE DEF d
  <2>. QED BY <2>1, <2>2, <2>3
<1>7. Parameters("connectivity", "connect") = <<"brokerHost", "brokerPort", "clientId">>
  BY DEF Parameters, Select, Con!Stub
<1>. QED BY <1>1, <1>2, <1>3, <1>4, <1>5, <1>6, <1>7, MethodsAre DEF Agree, Accepts, f

(* disconnect.                                                             *)
LEMMA DisconnectAgrees == Agree("disconnect")
<1> DEFINE f == Franca["disconnect"]
<1>1. f = [id |-> \h1002, in |-> <<>>,
           out |-> <<Boolean("success"), String("message")>>]
  BY MethodsAre DEF Franca, MethodsOf, Select, ConnectivityMethods, Declare,
                    Method, SomeIpID, Outcome
<1>2. /\ Types(f.in) = <<>> /\ Names(f.in) = <<>>
      /\ Types(f.out) = <<"Boolean", "String">>
  BY <1>1, Columns DEF Boolean, String
<1> HIDE DEF f
<1>3. \A mode \in Modes : Delegate(mode, "disconnect") = f
  BY <1>1, MethodsAre
     DEF Modes, Delegate, Select, Con!delegate, Con!disconnect, Con!disconnectAsync, Con!Method,
         Boolean, String, Con!Boolean, Con!String
<1>4. \A mode \in Modes : Takes(mode, "disconnect") = Types(f.out)
  BY <1>2, <1>3, MethodsAre DEF Takes, Select, Con!AsyncCallback
<1>5. \A d \in DispatchersOf("connectivity") :
        d.id = \h1002 => d.handler = "disconnect" /\ d.out = <<"Boolean", "String">>
  BY DEF DispatchersOf, Select, Con!StubDispatchers, Con!Dispatcher
<1>6. \E d \in DispatchersOf("connectivity") :
        d.id = \h1002 /\ d.in = <<>> /\ HasElement("connectivity", d.element)
  <2> DEFINE d == Con!Dispatcher(\h1002, "disconnect", 1, <<>>, <<"Boolean", "String">>)
  <2>1. d \in DispatchersOf("connectivity")
    BY DEF DispatchersOf, Select, Con!StubDispatchers
  <2>2. d.id = \h1002 /\ d.in = <<>> /\ d.element = 1
    BY DEF Con!Dispatcher
  <2>3. HasElement("connectivity", 1)
    BY DEF HasElement, Select, Con!hasElement
  <2> HIDE DEF d
  <2>. QED BY <2>1, <2>2, <2>3
<1>7. Parameters("connectivity", "disconnect") = <<>>
  BY DEF Parameters, Select, Con!Stub
<1>. QED BY <1>1, <1>2, <1>3, <1>4, <1>5, <1>6, <1>7, MethodsAre DEF Agree, Accepts, f

(* publishDiagnostic.                                                      *)
LEMMA PublishDiagnosticAgrees == Agree("publishDiagnostic")
<1> DEFINE f == Franca["publishDiagnostic"]
<1>1. f = [id |-> \h1003, in |-> <<String("code"), String("severity"), String("detail")>>,
           out |-> <<Boolean("success"), String("message")>>]
  BY MethodsAre DEF Franca, MethodsOf, Select, DiagnosticsMethods, Declare,
                    Method, SomeIpID, Outcome
<1>2. /\ Types(f.in) = <<"String", "String", "String">>
      /\ Names(f.in) = <<"code", "severity", "detail">>
      /\ Types(f.out) = <<"Boolean", "String">>
  BY <1>1, Columns DEF Boolean, String
<1> HIDE DEF f
<1>3. \A mode \in Modes : Delegate(mode, "publishDiagnostic") = f
  BY <1>1, MethodsAre
     DEF Modes, Delegate, Select, Dia!delegate, Dia!publishDiagnostic, Dia!publishDiagnosticAsync,
         Dia!Method,
         Boolean, String, Dia!Boolean, Dia!String
<1>4. \A mode \in Modes : Takes(mode, "publishDiagnostic") = Types(f.out)
  BY <1>2, <1>3, MethodsAre DEF Takes, Select, Dia!AsyncCallback
<1>5. \A d \in DispatchersOf("diagnostics") :
        d.id = \h1003 => d.handler = "publishDiagnostic" /\ d.out = <<"Boolean", "String">>
  BY DEF DispatchersOf, Select, Dia!StubDispatchers, Dia!Dispatcher
<1>6. \E d \in DispatchersOf("diagnostics") :
        d.id = \h1003 /\ d.in = <<"String", "String", "String">>
        /\ HasElement("diagnostics", d.element)
  <2> DEFINE d == Dia!Dispatcher(\h1003, "publishDiagnostic", 0, <<"String", "String", "String">>,
                             <<"Boolean", "String">>)
  <2>1. d \in DispatchersOf("diagnostics")
    BY DEF DispatchersOf, Select, Dia!StubDispatchers
  <2>2. d.id = \h1003 /\ d.in = <<"String", "String", "String">> /\ d.element = 0
    BY DEF Dia!Dispatcher
  <2>3. HasElement("diagnostics", 0)
    BY DEF HasElement, Select, Dia!hasElement
  <2> HIDE DEF d
  <2>. QED BY <2>1, <2>2, <2>3
<1>7. Parameters("diagnostics", "publishDiagnostic") = <<"code", "severity", "detail">>
  BY DEF Parameters, Select, Dia!Stub
<1>. QED BY <1>1, <1>2, <1>3, <1>4, <1>5, <1>6, <1>7, MethodsAre DEF Agree, Accepts, f

(* getSpeed.                                                               *)
LEMMA GetSpeedAgrees == Agree("getSpeed")
<1> DEFINE f == Franca["getSpeed"]
<1>1. f = [id |-> \h1004, in |-> <<>>,
           out |-> <<UInt16("speed")>>]
  BY MethodsAre DEF Franca, MethodsOf, Select, VehicleSignalMethods, Declare, Method, SomeIpID
<1>2. /\ Types(f.in) = <<>> /\ Names(f.in) = <<>>
      /\ Types(f.out) = <<"UInt16">>
  BY <1>1, Columns DEF UInt16
<1> HIDE DEF f
<1>3. \A mode \in Modes : Delegate(mode, "getSpeed") = f
  BY <1>1, MethodsAre
     DEF Modes, Delegate, Select, Veh!delegate, Veh!getSpeed, Veh!getSpeedAsync, Veh!Method,
         UInt16, Veh!UInt16
<1>4. \A mode \in Modes : Takes(mode, "getSpeed") = Types(f.out)
  BY <1>2, <1>3, MethodsAre DEF Takes, Select, Veh!AsyncCallback
<1>5. \A d \in DispatchersOf("vehicle") :
        d.id = \h1004 => d.handler = "getSpeed" /\ d.out = <<"UInt16">>
  BY DEF DispatchersOf, Select, Veh!StubDispatchers, Veh!Dispatcher
<1>6. \E d \in DispatchersOf("vehicle") :
        d.id = \h1004 /\ d.in = <<>> /\ HasElement("vehicle", d.element)
  <2> DEFINE d == Veh!Dispatcher(\h1004, "getSpeed", 0, <<>>, <<"UInt16">>)
  <2>1. d \in DispatchersOf("vehicle")
    BY DEF DispatchersOf, Select, Veh!StubDispatchers
  <2>2. d.id = \h1004 /\ d.in = <<>> /\ d.element = 0
    BY DEF Veh!Dispatcher
  <2>3. HasElement("vehicle", 0)
    BY DEF HasElement, Select, Veh!hasElement
  <2> HIDE DEF d
  <2>. QED BY <2>1, <2>2, <2>3
<1>7. Parameters("vehicle", "getSpeed") = <<>>
  BY DEF Parameters, Select, Veh!Stub
<1>. QED BY <1>1, <1>2, <1>3, <1>4, <1>5, <1>6, <1>7, MethodsAre DEF Agree, Accepts, f

(* getBatteryVoltage.                                                      *)
LEMMA GetBatteryVoltageAgrees == Agree("getBatteryVoltage")
<1> DEFINE f == Franca["getBatteryVoltage"]
<1>1. f = [id |-> \h1005, in |-> <<>>,
           out |-> <<Double("voltage")>>]
  BY MethodsAre DEF Franca, MethodsOf, Select, VehicleSignalMethods, Declare, Method, SomeIpID
<1>2. /\ Types(f.in) = <<>> /\ Names(f.in) = <<>>
      /\ Types(f.out) = <<"Double">>
  BY <1>1, Columns DEF Double
<1> HIDE DEF f
<1>3. \A mode \in Modes : Delegate(mode, "getBatteryVoltage") = f
  BY <1>1, MethodsAre
     DEF Modes, Delegate, Select, Veh!delegate, Veh!getBatteryVoltage, Veh!getBatteryVoltageAsync,
         Veh!Method,
         Double, Veh!Double
<1>4. \A mode \in Modes : Takes(mode, "getBatteryVoltage") = Types(f.out)
  BY <1>2, <1>3, MethodsAre DEF Takes, Select, Veh!AsyncCallback
<1>5. \A d \in DispatchersOf("vehicle") :
        d.id = \h1005 => d.handler = "getBatteryVoltage" /\ d.out = <<"Double">>
  BY DEF DispatchersOf, Select, Veh!StubDispatchers, Veh!Dispatcher
<1>6. \E d \in DispatchersOf("vehicle") :
        d.id = \h1005 /\ d.in = <<>> /\ HasElement("vehicle", d.element)
  <2> DEFINE d == Veh!Dispatcher(\h1005, "getBatteryVoltage", 1, <<>>, <<"Double">>)
  <2>1. d \in DispatchersOf("vehicle")
    BY DEF DispatchersOf, Select, Veh!StubDispatchers
  <2>2. d.id = \h1005 /\ d.in = <<>> /\ d.element = 1
    BY DEF Veh!Dispatcher
  <2>3. HasElement("vehicle", 1)
    BY DEF HasElement, Select, Veh!hasElement
  <2> HIDE DEF d
  <2>. QED BY <2>1, <2>2, <2>3
<1>7. Parameters("vehicle", "getBatteryVoltage") = <<>>
  BY DEF Parameters, Select, Veh!Stub
<1>. QED BY <1>1, <1>2, <1>3, <1>4, <1>5, <1>6, <1>7, MethodsAre DEF Agree, Accepts, f

(* Proxies and adapters of a service, and of no other, find each other.    *)
LEMMA Routes == \A s, t \in Services : ProxyFor(s) = AdapterFor(t) => s = t
  BY DEF Services, ProxyFor, AdapterFor, Select,
         Con!registerProxy, Dia!registerProxy, Veh!registerProxy,
         Con!registerStubAdapter, Dia!registerStubAdapter, Veh!registerStubAdapter

(* All methods agree.                                                      *)
LEMMA AllAgree == \A m \in Methods : Agree(m) /\ ServiceOf(m) \in Services
  BY MethodsAre, ConnectAgrees, DisconnectAgrees, PublishDiagnosticAgrees, GetSpeedAgrees,
     GetBatteryVoltageAgrees DEF Services

(* The broadcast that is sent is the declared one, and the proxy hears it. *)
LEMMA EventAgrees ==
  LET m == [kind |-> "event", id |-> Veh!fireSignalChanged.id,
            out |-> Veh!fireSignalChanged.out, type |-> Veh!registerEvent]
  IN [id |-> m.id, out |-> m.out] = SignalChanged /\ Hears(m)
<1>1. Types(<<UInt16("speed"), Double("battery")>>) = <<"UInt16", "Double">>
  BY Columns DEF UInt16, Double
<1>2. Veh!fireSignalChanged = SignalChanged
  BY DEF Veh!fireSignalChanged, SignalChanged, SomeIpID, UInt16, Double, Veh!UInt16, Veh!Double
<1>. QED BY <1>1, <1>2 DEF Hears, SignalChanged, SomeIpID, Veh!signalChanged, Veh!registerEvent

-----------------------------------------------------------------------------
(* Calls and messages.                                                     *)

Made(c) ==
  /\ c \in Calls /\ call[c].state \in {"waiting", "returned"}
  /\ call[c].method \in Methods /\ call[c].mode \in Modes

(* What the stub answers a call of a method.                               *)
ByHandler(m) ==
  LET ps == Names(Franca[m].in)
  IN [handler |-> m, got |-> {<<ps[i], ps[i]>> : i \in DOMAIN ps}]

(* A message under way is of a call that was made, and is what the         *)
(* declaration of the method it calls says.                                *)
GoodRequest(r) ==
  LET m == call[r.call].method
  IN Made(r.call) /\ r.to = ProxyFor(ServiceOf(m)) /\ r.id = Franca[m].id /\ r.in = Franca[m].in

GoodReply(r) ==
  LET m == call[r.call].method
  IN /\ Made(r.call) /\ r.status = "SUCCESS" /\ r.out = Types(Franca[m].out)
     /\ r.values = DefaultAnswer(ServiceOf(m), m) /\ r.by = ByHandler(m)

GoodEvent(r) == [id |-> r.id, out |-> r.out] = SignalChanged /\ Hears(r)

Good(r) ==
  \/ r.kind = "request" /\ GoodRequest(r)
  \/ r.kind = "reply" /\ GoodReply(r)
  \/ r.kind = "event" /\ GoodEvent(r)

(* A call that has returned was answered by its handler, or failed.        *)
GoodCall(c) ==
  \/ call[c] = NotMade
  \/ /\ Made(c)
     /\ call[c].state = "returned" =>
          \/ call[c].status = "NOT_AVAILABLE"
          \/ /\ call[c].status = "SUCCESS" /\ call[c].by = ByHandler(call[c].method)
             /\ call[c].out = DefaultAnswer(ServiceOf(call[c].method), call[c].method)

CallIInv ==
  /\ DOMAIN call = Calls
  /\ \A c \in Calls : GoodCall(c)
  /\ \A r \in net : Good(r)

(* What agreement says of a method and of its service.                     *)
LEMMA Agreed ==
  ASSUME NEW m \in Methods
  PROVE  /\ ServiceOf(m) \in Services
         /\ \A mode \in Modes :
              Delegate(mode, m) = Franca[m] /\ Takes(mode, m) = Types(Franca[m].out)
         /\ \A d \in DispatchersOf(ServiceOf(m)) :
              d.id = Franca[m].id => d.handler = m /\ d.out = Types(Franca[m].out)
         /\ \E d \in DispatchersOf(ServiceOf(m)) :
              /\ d.id = Franca[m].id /\ d.in = Types(Franca[m].in)
              /\ HasElement(ServiceOf(m), d.element)
         /\ Parameters(ServiceOf(m), m) = Names(Franca[m].in)
  BY AllAgree DEF Agree, Accepts

(* No call is made at first.                                               *)
LEMMA CallInit == Init => CallIInv
  BY DEF Init, CallIInv, GoodCall

(* A step that leaves what was called alone leaves a message good.         *)
LEMMA StaysGood ==
  ASSUME NEW r, Good(r),
         \A c \in Calls : Made(c) =>
           Made(c)' /\ call'[c].method = call[c].method
  PROVE  Good(r)'
  BY DEF Good, GoodRequest, GoodReply, GoodEvent, Made

(* A call is made.                                                         *)
LEMMA CallMethodPreserves ==
  ASSUME CallIInv, NEW c \in Calls, NEW m \in Methods, NEW mode \in Modes, CallMethod(c, m, mode)
  PROVE  CallIInv'
<1> DEFINE request ==
      [kind |-> "request", call |-> c, to |-> ProxyFor(ServiceOf(m)),
       version |-> ProxyVersion(ServiceOf(m)), id |-> Delegate(mode, m).id,
       in |-> Delegate(mode, m).in]
<1>1. /\ call' = [call EXCEPT ![c] = [state |-> "waiting", method |-> m, mode |-> mode]]
      /\ call[c] = NotMade /\ net' = net \cup {request}
  BY DEF CallMethod
<1>2. /\ DOMAIN call' = Calls /\ Made(c)' /\ call'[c].state = "waiting" /\ call'[c].method = m
      /\ \A b \in Calls : b # c => call'[b] = call[b]
  BY <1>1 DEF CallIInv, Made
<1>3. ~Made(c)
  BY <1>1 DEF Made, NotMade
<1>4. \A b \in Calls : Made(b) => Made(b)' /\ call'[b].method = call[b].method
  BY <1>2, <1>3 DEF Made
<1>5. \A b \in Calls : GoodCall(b)'
  BY <1>2 DEF CallIInv, GoodCall, Made
<1>6. Good(request)'
  BY <1>2, Agreed DEF Good, GoodRequest
<1>7. \A r \in net : Good(r)'
  BY <1>4, StaysGood DEF CallIInv
<1>. QED BY <1>1, <1>2, <1>5, <1>6, <1>7 DEF CallIInv

(* A call ends, with a reply or without.                                   *)
LEMMA EndPreserves ==
  ASSUME CallIInv, NEW c \in Calls, net' \subseteq net, Made(c), call[c].state = "waiting",
         \/ call' = Fails(c)
         \/ \E r : GoodReply(r) /\ r.call = c /\ call' = Ended(c, r.status, r.values, r.by)
  PROVE  CallIInv'
<1>1. /\ DOMAIN call' = Calls /\ \A b \in Calls : b # c => call'[b] = call[b]
      /\ call'[c].state = "returned" /\ call'[c].method = call[c].method
      /\ call'[c].mode = call[c].mode
  BY DEF CallIInv, Fails, Ended
<1>2. \A b \in Calls : Made(b) => Made(b)' /\ call'[b].method = call[b].method
  BY <1>1 DEF Made
<1>3. GoodCall(c)'
  <2>1. CASE call' = Fails(c)
    <3>1. call'[c].status = "NOT_AVAILABLE"
      BY <2>1 DEF Fails, Ended, CallIInv
    <3>. QED BY <1>1, <1>2, <3>1 DEF GoodCall
  <2>2. ASSUME NEW r, GoodReply(r), r.call = c, call' = Ended(c, r.status, r.values, r.by)
        PROVE  GoodCall(c)'
    <3>1. call'[c].status = r.status /\ call'[c].by = r.by /\ call'[c].out = r.values
      BY <2>2 DEF Ended, CallIInv
    <3>. QED BY <1>1, <1>2, <2>2, <3>1 DEF GoodCall, GoodReply
  <2>. QED BY <2>1, <2>2
<1>4. \A b \in Calls : b # c => GoodCall(b)'
  BY <1>1, <1>2 DEF CallIInv, GoodCall
<1>5. \A r \in net' : Good(r)'
  BY <1>2, StaysGood DEF CallIInv
<1>. QED BY <1>1, <1>3, <1>4, <1>5 DEF CallIInv

(* Nothing happens to the calls, and no message comes up.                  *)
LEMMA QuietPreserves ==
  ASSUME CallIInv, UNCHANGED call, \A r \in net' : r \in net \/ Good(r)
  PROVE  CallIInv'
<1>1. \A b \in Calls : Made(b) => Made(b)' /\ call'[b].method = call[b].method
  BY DEF Made
<1>2. \A r \in net' : Good(r)'
  BY <1>1, StaysGood DEF CallIInv
<1>3. \A c \in Calls : GoodCall(c)'
  BY DEF CallIInv, GoodCall, Made
<1>. QED BY <1>2, <1>3 DEF CallIInv

(* A reply is taken: it is the one its call waits for, or comes too late.  *)
LEMMA ReceivePreserves == ASSUME CallIInv, NEW r \in net, Receive(r) PROVE CallIInv'
<1> DEFINE c == r.call
<1>1. GoodReply(r) /\ Made(c) /\ c \in Calls
  BY DEF CallIInv, Receive, Good, GoodReply, Made
<1>2. /\ r.out = Types(Delegate(call[c].mode, call[c].method).out)
      /\ r.out = Takes(call[c].mode, call[c].method)
  BY <1>1, Agreed DEF GoodReply, Made
<1>3. net' \subseteq net
  BY DEF Receive
<1>4. CASE call[c].state = "waiting"
  BY <1>1, <1>2, <1>3, <1>4, EndPreserves DEF Receive
<1>5. CASE call[c].state # "waiting"
  BY <1>3, <1>5, QuietPreserves DEF Receive
<1>. QED BY <1>4, <1>5

(* A request is dispatched: to its handler, and never refused.             *)
LEMMA DispatchPreserves ==
  ASSUME CallIInv, NEW r \in net, NEW a \in Adapters, Dispatch(a, r) PROVE CallIInv'
<1> DEFINE m == call[r.call].method
           s == a[1]
           matching == {d \in DispatchersOf(s) : Accepts(s, r, d)}
<1>1. GoodRequest(r) /\ Made(r.call) /\ m \in Methods
  BY DEF CallIInv, Dispatch, Good, GoodRequest, Made
<1>2. s = ServiceOf(m)
  <2>1. s \in Services /\ ServiceOf(m) \in Services
    BY <1>1, Agreed
  <2>. QED BY <1>1, <2>1, Routes DEF GoodRequest, Dispatch
<1>3. matching # {}
  <2>1. PICK d \in DispatchersOf(s) : /\ d.id = Franca[m].id /\ d.in = Types(Franca[m].in)
                                      /\ HasElement(s, d.element)
    BY <1>1, <1>2, Agreed
  <2>. QED BY <1>1, <2>1 DEF Accepts, GoodRequest
<1>4. ASSUME NEW d \in matching PROVE Good(Answer(s, r, d))
  <2>1. d.handler = m /\ d.out = Types(Franca[m].out)
    BY <1>1, <1>2, Agreed DEF Accepts, GoodRequest
  <2>2. Parameters(s, m) = Names(Franca[m].in) /\ r.in = Franca[m].in
    BY <1>1, <1>2, Agreed DEF GoodRequest
  <2> DEFINE answer == Answer(s, r, d)
  <2>3. /\ answer.kind = "reply" /\ answer.call = r.call /\ answer.status = "SUCCESS"
        /\ answer.out = Types(Franca[m].out) /\ answer.values = DefaultAnswer(s, m)
    BY <2>1 DEF Answer
  <2>4. answer.by = ByHandler(m)
    BY <2>1, <2>2 DEF Answer, ByHandler
  <2> HIDE DEF answer
  <2>5. Good(answer)
    BY <1>1, <1>2, <2>3, <2>4 DEF Good, GoodReply
  <2>. QED BY <2>5 DEF answer
<1>5. UNCHANGED call /\ \A x \in net' : x \in net \/ \E d \in matching : x = Answer(s, r, d)
  BY <1>3 DEF Dispatch, adapterFrame
<1>. QED BY <1>4, <1>5, QuietPreserves

(* The steps of the adapters send nothing but the broadcast.               *)
LEMMA AdaptersPreserve ==
  ASSUME CallIInv,
         (\E a \in Adapters : Register(a) \/ Unregister(a)) \/ LockAdapter \/ SendEvent
  PROVE  CallIInv'
<1>1. CASE (\E a \in Adapters : Register(a) \/ Unregister(a)) \/ LockAdapter
  BY <1>1, QuietPreserves DEF Register, Unregister, LockAdapter, callsFrame
<1>2. CASE SendEvent
  <2> DEFINE event == [kind |-> "event", id |-> Veh!fireSignalChanged.id,
                       out |-> Veh!fireSignalChanged.out, type |-> Veh!registerEvent]
  <2>1. Good(event)
    BY EventAgrees DEF Good, GoodEvent
  <2>2. UNCHANGED call /\ net' = net \cup {event}
    BY <1>2 DEF SendEvent
  <2>. QED BY <2>1, <2>2, QuietPreserves
<1>. QED BY <1>1, <1>2

-----------------------------------------------------------------------------
(* Theorems.                                                               *)

(* The inductive invariant.                                                *)
IInv == AdapterIInv /\ CallIInv

(* IInv is an invariant.                                                   *)
THEOREM InvariantHolds == Spec => []IInv
<1>1. Init => IInv
  BY AdapterInit, CallInit DEF IInv
<1>2. IInv /\ [Next]_vars => IInv'
  <2> SUFFICES ASSUME IInv, [Next]_vars PROVE IInv'
    OBVIOUS
  <2>1. AdapterIInv /\ CallIInv
    BY DEF IInv
  <2>2. ASSUME UNCHANGED adapterFrame PROVE AdapterIInv'
    BY <2>1, <2>2 DEF adapterFrame, AdapterIInv, AdapterTypes, Known,
                      SendsThroughLiveAdapter, NoBroadcastMissed
  <2>3. ASSUME NEW c \in Calls, TimeOut(c) PROVE IInv'
    <3>1. Made(c) /\ call[c].state = "waiting"
      BY <2>1, <2>3 DEF TimeOut, CallIInv, GoodCall, NotMade
    <3>2. CallIInv'
      BY <2>1, <2>3, <3>1, EndPreserves DEF TimeOut
    <3>. QED BY <2>2, <2>3, <3>2 DEF TimeOut, IInv
  <2>4. ASSUME NEW c \in Calls, NEW m \in Methods, NEW mode \in Modes, CallMethod(c, m, mode)
        PROVE  IInv'
    BY <2>1, <2>2, <2>4, CallMethodPreserves DEF CallMethod, IInv
  <2>5. ASSUME NEW m \in net, Receive(m) PROVE IInv'
    BY <2>1, <2>2, <2>5, ReceivePreserves DEF Receive, IInv
  <2>6. ASSUME NEW m \in net, Lose(m) \/ HearEvent(m) PROVE IInv'
    BY <2>1, <2>2, <2>6, QuietPreserves DEF Lose, HearEvent, IInv
  <2>7. ASSUME NEW m \in net, NEW a \in Adapters, Dispatch(a, m) PROVE IInv'
    BY <2>1, <2>2, <2>7, DispatchPreserves DEF Dispatch, IInv
  <2>8. CASE (\E a \in Adapters : Register(a) \/ Unregister(a)) \/ LockAdapter \/ SendEvent
    BY <2>1, <2>8, AdapterStep, AdaptersPreserve DEF IInv
  <2>9. CASE UNCHANGED vars
    <3>1. CallIInv'
      BY <2>1, <2>9, QuietPreserves DEF vars
    <3>. QED BY <2>2, <2>9, <3>1 DEF vars, adapterFrame, IInv
  <2>. QED BY <2>3, <2>4, <2>5, <2>6, <2>7, <2>8, <2>9 DEF Next
<1>. QED BY <1>1, <1>2, PTL DEF Spec

(* The runtime offers at most one adapter of a service, which is alive.    *)
THEOREM TypeCorrect == Spec => []TypeOK
<1>1. IInv => TypeOK
  <2> SUFFICES ASSUME IInv PROVE TypeOK
    OBVIOUS
  <2>1. \A c \in Calls : call[c].state \in {"idle", "waiting", "returned"}
    BY DEF IInv, CallIInv, GoodCall, Made, NotMade
  <2>2. \A m \in net : m.kind \in {"request", "reply", "event"}
    BY DEF IInv, CallIInv, Good
  <2>3. \A a, b \in offered : a[1] = b[1] => a = b
    BY DEF IInv, AdapterIInv, Known
  <2>4. missed \in BOOLEAN
    BY DEF IInv, AdapterIInv, AdapterTypes
  <2>. QED BY <2>1, <2>2, <2>3, <2>4 DEF IInv, AdapterIInv, AdapterTypes, TypeOK
<1>. QED BY <1>1, InvariantHolds, PTL

(* A call that succeeds was answered by the handler of the method called,  *)
(* with the arguments in their places, and nothing is ever refused.        *)
THEOREM AlwaysAnsweredByItsHandler == Spec => []AnsweredByItsHandler
<1>1. IInv => AnsweredByItsHandler
  BY DEF IInv, CallIInv, GoodCall, Made, NotMade, ByHandler, AnsweredByItsHandler, Returned
<1>. QED BY <1>1, InvariantHolds, PTL

(* Every message is as the FIDL and FDEPL files declare it.                *)
THEOREM AlwaysFollowsFranca == Spec => []FollowsFranca
<1>1. IInv => FollowsFranca
  BY DEF IInv, CallIInv, Good, GoodRequest, GoodReply, GoodEvent, FollowsFranca
<1>. QED BY <1>1, InvariantHolds, PTL

(* A broadcast never goes through an adapter that has been destroyed.      *)
THEOREM AlwaysSendsThroughLiveAdapter == Spec => []SendsThroughLiveAdapter
<1>1. IInv => SendsThroughLiveAdapter
  BY DEF IInv, AdapterIInv
<1>. QED BY <1>1, InvariantHolds, PTL

(* No broadcast is dropped in the stub while the service is offered.       *)
THEOREM NeverMissesBroadcast == Spec => []NoBroadcastMissed
<1>1. IInv => NoBroadcastMissed
  BY DEF IInv, AdapterIInv
<1>. QED BY <1>1, InvariantHolds, PTL
===============================================================================
