--------------------------- MODULE MCSourceClient ---------------------------
(***************************************************************************)
(* Instances of SourceClient for TLC: all kinds of client, or one.         *)
(***************************************************************************)
EXTENDS SourceClient

AllKinds == {"modbus", "opcua", "redis"}
Modbus == {"modbus"}
=============================================================================
