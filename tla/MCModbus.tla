------------------------------ MODULE MCModbus ------------------------------
(***************************************************************************)
(* Model checking of Modbus: requests of three bytes, answers of two and   *)
(* errors of one.                                                          *)
(***************************************************************************)
EXTENDS Modbus

MCAnswerLen == [op \in Ops |-> 2]
=============================================================================
