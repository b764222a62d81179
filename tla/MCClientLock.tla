---------------------------- MODULE MCClientLock ----------------------------
(***************************************************************************)
(* Instances of ClientLock for TLC.                                        *)
(***************************************************************************)
EXTENDS ClientLock

CONSTANTS r1, r2, w1, w2

TwoReaders == {r1, r2}
TwoWriters == {w1, w2}
AllKinds == {"modbus", "opcua", "redis"}
OPCUA == {"opcua"}
=============================================================================
