------------------------- MODULE ConnectivityBinding -------------------------
(***************************************************************************)
(* The binding generated for connectivity.ConnectivityService: what each   *)
(* proxy method sends and expects, what the stub adapter reads, runs and   *)
(* answers, and the names both register under.                             *)
(***************************************************************************)
EXTENDS Wire, Naturals

getInterface == "connectivity.ConnectivityService:v1_0"
getInterfaceVersion == <<1, 0>>
getOwnVersion == <<1, 0>>
registerProxy == "connectivity.ConnectivityService:v1_0"
registerStubAdapter == "connectivity.ConnectivityService:v1_0"

connect == Method(\h1001, <<String("brokerHost"), UInt16("brokerPort"), String("clientId")>>,
                          <<Boolean("success"), String("message")>>)
connectAsync == Method(\h1001, <<String("brokerHost"), UInt16("brokerPort"), String("clientId")>>,
                               <<Boolean("success"), String("message")>>)
disconnect == Method(\h1002, <<>>, <<Boolean("success"), String("message")>>)
disconnectAsync == Method(\h1002, <<>>, <<Boolean("success"), String("message")>>)

(* ConnectivityServiceProxy: the call each wrapper method delegates to.    *)
delegate == [sync  |-> [connect |-> connect, disconnect |-> disconnect],
             async |-> [connect |-> connectAsync, disconnect |-> disconnectAsync]]

(* What the callback of an asynchronous call is declared to take.          *)
AsyncCallback == [connect |-> <<"Boolean", "String">>, disconnect |-> <<"Boolean", "String">>]

StubDispatchers ==
  { Dispatcher(\h1001, "connect", 0, <<"String", "UInt16", "String">>, <<"Boolean", "String">>),
    Dispatcher(\h1002, "disconnect", 1, <<>>, <<"Boolean", "String">>) }

hasElement(id) == id < 2

(* The parameters of the stub's handlers, and the default answers.         *)
(* X_Variant is a faulty X, which the properties of RemoteCalls notice.    *)
(* Two strings that change places keep every type as it is.                *)
Stub_ClientFirst == [connect |-> <<"clientId", "brokerPort", "brokerHost">>, disconnect |-> <<>>]
Stub == [connect |-> <<"brokerHost", "brokerPort", "clientId">>, disconnect |-> <<>>]
StubDefault == [connect |-> <<"false", "">>, disconnect |-> <<"false", "">>]
=============================================================================
