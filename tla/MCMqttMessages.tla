--------------------------- MODULE MCMqttMessages ---------------------------
(***************************************************************************)
(* An instance of MqttMessages for TLC: two handlers of one topic.         *)
(***************************************************************************)
EXTENDS MqttMessages

CONSTANTS t1, h1, h2

OneTopic == {t1}
TwoHandlers == {h1, h2}
OfOneTopic == [h \in TwoHandlers |-> t1]
=============================================================================
