-------------------------- MODULE FrancaInterfaces --------------------------
(***************************************************************************)
(* The interfaces as fidl/ declares them and the ids their deployment      *)
(* gives them: the reference the generated bindings are compared with.     *)
(***************************************************************************)
EXTENDS Wire

SomeIpID == [connect |-> \h1001, disconnect |-> \h1002, publishDiagnostic |-> \h1003,
             getSpeed |-> \h1004, getBatteryVoltage |-> \h1005, SignalChanged |-> \h2001]

Outcome == <<Boolean("success"), String("message")>>
Declare(name, in, out) == Method(SomeIpID[name], in, out)

ConnectivityMethods ==
  [connect    |-> Declare("connect", <<String("brokerHost"), UInt16("brokerPort"),
                                       String("clientId")>>, Outcome),
   disconnect |-> Declare("disconnect", <<>>, Outcome)]

DiagnosticsMethods ==
  [publishDiagnostic |-> Declare("publishDiagnostic",
                           <<String("code"), String("severity"), String("detail")>>, Outcome)]

VehicleSignalMethods ==
  [getSpeed          |-> Declare("getSpeed", <<>>, <<UInt16("speed")>>),
   getBatteryVoltage |-> Declare("getBatteryVoltage", <<>>, <<Double("voltage")>>)]

SignalChanged == [id |-> SomeIpID.SignalChanged, out |-> <<UInt16("speed"), Double("battery")>>]
=============================================================================
