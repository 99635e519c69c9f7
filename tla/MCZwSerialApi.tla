--------------------------- MODULE MCZwSerialApi ---------------------------
(***************************************************************************)
(* Model checking of ZwSerialApi: one thread sends data, another calls the *)
(* other functions.                                                        *)
(***************************************************************************)
EXTENDS ZwSerialApi

CONSTANTS c1, c2

MCKindsOf == (c1 :> {"send", "sendrecv", "broadcast"}) @@ (c2 :> {"get", "add"})
=============================================================================
