------------------------- MODULE DiagnosticsBinding -------------------------
(***************************************************************************)
(* The binding generated for diagnostics.DiagnosticsService; the           *)
(* definitions have the meaning they have in ConnectivityBinding.          *)
(***************************************************************************)
EXTENDS Wire, Naturals

getInterface == "diagnostics.DiagnosticsService:v1_0"
getInterfaceVersion == <<1, 0>>
getOwnVersion == <<1, 0>>
registerProxy == "diagnostics.DiagnosticsService:v1_0"
registerStubAdapter == "diagnostics.DiagnosticsService:v1_0"

publishDiagnostic == Method(\h1003, <<String("code"), String("severity"), String("detail")>>,
                                    <<Boolean("success"), String("message")>>)
publishDiagnosticAsync_SeverityFirst ==
  Method(\h1003, <<String("severity"), String("code"), String("detail")>>,
                 <<Boolean("success"), String("message")>>)
publishDiagnosticAsync == Method(\h1003, <<String("code"), String("severity"), String("detail")>>,
                                         <<Boolean("success"), String("message")>>)

delegate == [sync  |-> [publishDiagnostic |-> publishDiagnostic],
             async |-> [publishDiagnostic |-> publishDiagnosticAsync]]

AsyncCallback == [publishDiagnostic |-> <<"Boolean", "String">>]

StubDispatchers ==
  { Dispatcher(\h1003, "publishDiagnostic", 0, <<"String", "String", "String">>,
               <<"Boolean", "String">>) }

hasElement(id) == id < 1

Stub == [publishDiagnostic |-> <<"code", "severity", "detail">>]
StubDefault == [publishDiagnostic |-> <<"false", "">>]
=============================================================================
