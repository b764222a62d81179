--------------------------- MODULE LossyDelivery ---------------------------
(***************************************************************************)
(* What a bounded channel that drops what it has no room for promises to   *)
(* its receiver: of what each sender has sent, some may be missing, but    *)
(* nothing comes back, late or out of thin air.  The abstract              *)
(* specification of updateCh (VariableUpdates), of the snapshots that the  *)
(* GraphQL server publishes (GraphQLUpdates) and of what an MQTT handler   *)
(* is called with over one link (MqttMessages).                            *)
(***************************************************************************)
EXTENDS Naturals

CONSTANT Senders

VARIABLES
    sent,    \* sent[w]: how many items w has sent
    received \* received[w]: the number of the last item of w received

vars == <<sent, received>>

TypeOK == sent \in [Senders -> Nat] /\ received \in [Senders -> Nat]

Init ==
    /\ sent = [w \in Senders |-> 0]
    /\ received = [w \in Senders |-> 0]

\* One store may be an item of several senders, as may one delivery.
Send ==
    /\ \E W \in SUBSET Senders :
          sent' = [w \in Senders |-> IF w \in W THEN sent[w] + 1 ELSE sent[w]]
    /\ UNCHANGED received

Receive ==
    /\ received' \in [Senders -> Nat]
    /\ \A w \in Senders : received[w] <= received'[w] /\ received'[w] <= sent[w]
    /\ UNCHANGED sent

Next == Send \/ Receive

Spec == Init /\ [][Next]_vars
=============================================================================
