-------------------------------- MODULE Wire --------------------------------
(***************************************************************************)
(* What the proxies and stub adapters generated for SOME/IP agree on.  A   *)
(* field is a Franca type and the name of the parameter it carries; bytes, *)
(* sizes and string encodings are left to the runtime.                     *)
(***************************************************************************)
EXTENDS Sequences

String(name)  == <<"String", name>>
UInt16(name)  == <<"UInt16", name>>
Boolean(name) == <<"Boolean", name>>
Double(name)  == <<"Double", name>>

(* A method: its id, what its request carries and what its reply carries.  *)
Method(id, in, out) == [id |-> id, in |-> in, out |-> out]

(* A stub dispatcher: the handler it runs, the index it asks hasElement()  *)
(* about, the types it reads from a request and writes into a reply.       *)
Dispatcher(id, handler, element, in, out) ==
  [id |-> id, handler |-> handler, element |-> element, in |-> in, out |-> out]

Types(fields) == [i \in DOMAIN fields |-> fields[i][1]]
Names(fields) == [i \in DOMAIN fields |-> fields[i][2]]
=============================================================================
