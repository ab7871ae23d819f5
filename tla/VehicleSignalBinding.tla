------------------------ MODULE VehicleSignalBinding ------------------------
(***************************************************************************)
(* The binding generated for vehicle.VehicleSignalService, which has a     *)
(* broadcast besides its methods; the other definitions have the meaning   *)
(* they have in ConnectivityBinding.                                       *)
(***************************************************************************)
EXTENDS Wire, Naturals

getInterface == "vehicle.VehicleSignalService:v1_0"
getInterfaceVersion == <<1, 0>>
getOwnVersion == <<1, 0>>
registerProxy == "vehicle.VehicleSignalService:v1_0"
registerStubAdapter == "vehicle.VehicleSignalService:v1_0"

getSpeed == Method(\h1004, <<>>, <<UInt16("speed")>>)
getSpeedAsync == Method(\h1004, <<>>, <<UInt16("speed")>>)
getBatteryVoltage == Method(\h1005, <<>>, <<Double("voltage")>>)
getBatteryVoltageAsync == Method(\h1005, <<>>, <<Double("voltage")>>)

delegate == [sync  |-> [getSpeed |-> getSpeed, getBatteryVoltage |-> getBatteryVoltage],
             async |-> [getSpeed |-> getSpeedAsync,
                        getBatteryVoltage |-> getBatteryVoltageAsync]]

AsyncCallback == [getSpeed |-> <<"UInt16">>, getBatteryVoltage |-> <<"Double">>]

StubDispatchers ==
  { Dispatcher(\h1004, "getSpeed", 0, <<>>, <<"UInt16">>),
    Dispatcher(\h1005, "getBatteryVoltage", 1, <<>>, <<"Double">>) }

hasElement(id) == id < 3

Stub == [getSpeed |-> <<>>, getBatteryVoltage |-> <<>>]
StubDefault == [getSpeed |-> <<"0">>, getBatteryVoltage |-> <<"0.0">>]

(* SignalChanged: what the proxy listens to, what the adapter registers    *)
(* and what it sends.                                                      *)
signalChanged == [id |-> \h2001, reliability |-> "RT_UNRELIABLE", types |-> <<"UInt16", "Double">>]
registerEvent == [id |-> \h2001, reliability |-> "RT_UNRELIABLE"]
fireSignalChanged == [id |-> \h2001, out |-> <<UInt16("speed"), Double("battery")>>]
=============================================================================
