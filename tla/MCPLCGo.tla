------------------------------ MODULE MCPLCGo ------------------------------
(***************************************************************************)
(* An instance of PLCGo for TLC: two sources of different protocols, of    *)
(* which one is enabled, one variable, a request and publishUpdates.  The  *)
(* MQTT source has Sparkplug.                                              *)
(***************************************************************************)
EXTENDS PLCGo, TLC

CONSTANTS v1, p1, r1, i1, mqtt, redis

OneVar == {v1}
OnePublisher == {p1}
OneRequest == {r1}
Both == {mqtt, redis}
InOrder == (mqtt :> 1) @@ (redis :> 2)
OnlyMqtt == {mqtt}
OneId == {i1}
NoValues == {}
=============================================================================
