------------------------- MODULE MqttMessagesProofs -------------------------
(***************************************************************************)
(* Proofs about MqttMessages, for any topics and handlers, and any number  *)
(* of paho clients, lost links, calls of Unsubscribe and messages.         *)
(***************************************************************************)
EXTENDS MqttMessages, TLAPS

(***************************************************************************)
(* Order.  What waits on a link is newer than what handlers have heard, or *)
(* are called with, over that link; a later link starts from nothing.      *)
(***************************************************************************)
InboxInOrder ==
    \A m \in inbox :
        /\ m.over <= links /\ m.number <= sent[m.topic]
        /\ \A h \in Handlers : TopicOf[h] = m.topic => heard[h][m.over] < m.number
        /\ \A c \in calls :
              c.over = m.over /\ TopicOf[c.handler] = m.topic => c.number < m.number

CallsInOrder ==
    \A c \in calls :
        /\ c.over <= links /\ c.number <= sent[TopicOf[c.handler]]
        /\ heard[c.handler][c.over] <= c.number

\* The calls under way over one link are for one message.
OneMessage ==
    \A c, d \in calls :
        c.over = d.over => TopicOf[c.handler] = TopicOf[d.handler] /\ c.number = d.number

KeptWasSent == \A m \in kept \cup delivered : m.number <= sent[m.topic]

HeardWasSent ==
    \A h \in Handlers : \A l \in Links :
        /\ heard[h][l] <= sent[TopicOf[h]]
        /\ l > links => heard[h][l] = 0

OrderInv == InboxInOrder /\ CallsInOrder /\ OneMessage /\ KeptWasSent /\ HeardWasSent

(***************************************************************************)
(* Silence.  A handler that is registered, or will be, was not removed; one*)
(* that was removed is not called with anything newer.                     *)
(***************************************************************************)
NotYetRemoved ==
    \A h \in Handlers :
        (spc[h] = "new" \/ h \in handlers[TopicOf[h]]) => removed[h] = MaxMessages

CallsAreOld == \A c \in calls : c.number <= removed[c.handler]

SilenceInv == NotYetRemoved /\ CallsAreOld /\ UnsubscribedIsSilent

(***************************************************************************)
(* Delivery.  While the session lasts in which a handler was subscribed,   *)
(* its topic has its callback and its subscription, and the last message   *)
(* since then is on its way to it.                                         *)
(***************************************************************************)
Lasting(h) ==
    /\ h \in handlers[TopicOf[h]] /\ h \notin contested
    /\ spc[h] = "subscribed" /\ since[h].session = session

\* Who subscribes while the topic is unsubscribed is contested.
UnsubscribingContests == \A t \in Topics : upc[t] = "removed" => handlers[t] \subseteq contested

SessionHolds ==
    \A h \in Handlers : Lasting(h) =>
        /\ TopicOf[h] \in routes[made] /\ TopicOf[h] \in subs
        /\ link # "none"
        /\ clean => link = "up"

Last(t) == [topic |-> t, number |-> sent[t]]
LastOver(l, t) == [topic |-> t, number |-> sent[t], over |-> l]
CalledWithLast(h) ==
    \E c \in calls : c.handler = h /\ c.number = sent[TopicOf[h]] /\ owner[c.over] = made

OnItsWay(h) ==
    \/ link = "up" /\ LastOver(links, TopicOf[h]) \in inbox
    \/ Last(TopicOf[h]) \in kept
    \/ CalledWithLast(h)
    \/ \E l \in Links : heard[h][l] = sent[TopicOf[h]]

LastIsOnItsWay ==
    \A h \in Handlers : (Lasting(h) /\ since[h].number < sent[TopicOf[h]]) => OnItsWay(h)

DeliveryInv == UnsubscribingContests /\ SessionHolds /\ LastIsOnItsWay

IInv == TypeOK /\ OrderInv /\ SilenceInv /\ DeliveryInv

-----------------------------------------------------------------------------
(* What the parts of the state are.                                        *)

LEMMA Bounds ==
    ASSUME TypeOK
    PROVE  /\ made \in Nat /\ drops \in Nat /\ links \in Nat
           /\ made <= MaxLinks /\ links <= made + drops /\ made + drops <= MaxLinks
           /\ link = "up" => links \in Links /\ made \in Clients /\ owner[links] = made
           /\ link = "dialling" => links + 1 \in Links /\ made \in Clients
BY ConstantsAssumption DEF TypeOK, Links, Clients

LEMMA CallFacts ==
    ASSUME TypeOK, NEW c \in calls
    PROVE  /\ c.handler \in Handlers /\ TopicOf[c.handler] \in Topics
           /\ c.number \in 1 .. MaxMessages /\ c.over \in Links
BY ConstantsAssumption DEF TypeOK, Calls

LEMMA ItemFacts ==
    ASSUME TypeOK, NEW m \in inbox
    PROVE  m.topic \in Topics /\ m.number \in 1 .. MaxMessages /\ m.over \in Links
BY DEF TypeOK, Items

LEMMA HeardFacts ==
    ASSUME TypeOK, NEW h \in Handlers, NEW l \in Links
    PROVE  heard[h][l] \in 0 .. MaxMessages /\ TopicOf[h] \in Topics /\ sent[TopicOf[h]] \in Nat
BY ConstantsAssumption DEF TypeOK

LEMMA OverTyped ==
    ASSUME NEW l \in Links, NEW Q \in SUBSET Messages PROVE Over(l, Q) \subseteq Items
BY DEF Over, Messages, Items

LEMMA PlainTyped == ASSUME NEW Q \in SUBSET Items PROVE Plain(Q) \subseteq Messages
BY DEF Plain, Messages, Items

LEMMA EndsTyped ==
    ASSUME TypeOK, LinkEnds
    PROVE  inbox' \subseteq inbox /\ kept' \subseteq Messages /\ delivered' = {}
<1>1. Plain(OnTheWay) \subseteq Messages
  BY PlainTyped DEF OnTheWay, TypeOK
<1>2. delivered \subseteq Messages
  BY DEF TypeOK
<1> QED
  BY <1>1, <1>2 DEF LinkEnds, Unacknowledged

-----------------------------------------------------------------------------
(* Type correctness.                                                       *)

LEMMA TypeInit == Init => TypeOK
<1> SUFFICES ASSUME Init PROVE TypeOK
  OBVIOUS
<1>1. heard \in [Handlers -> [Links -> 0 .. MaxMessages]] /\ owner \in [Links -> 0 .. made]
  BY ConstantsAssumption DEF Init
<1> QED
  BY <1>1, ConstantsAssumption DEF Init, TypeOK

LEMMA SinceIs ==
    ASSUME TypeOK
    PROVE  session \in Nat /\ since \in [Handlers -> [session : 0 .. session, number : 0 .. MaxMessages]]
BY DEF TypeOK

\* A later session only widens what since may hold.
LEMMA SinceGrows ==
    ASSUME TypeOK, UNCHANGED since, session' = session + 1
    PROVE  since' \in [Handlers -> [session : 0 .. session', number : 0 .. MaxMessages]]
<1>1. \A h \in Handlers : since[h] \in [session : 0 .. session', number : 0 .. MaxMessages]
  BY SinceIs
<1> QED
  BY <1>1, SinceIs

\* The parts of the type that several steps leave alone.
ClientType ==
    /\ clean \in BOOLEAN
    /\ link \in {"none", "dialling", "up"}
    /\ made \in Nat /\ drops \in Nat /\ made + drops <= MaxLinks
    /\ links \in 0 .. made + drops /\ owner \in [Links -> 0 .. made]
    /\ (link = "up" => made > 0 /\ links > 0 /\ owner[links] = made)
    /\ (link = "dialling" => made > 0 /\ links < made + drops)
    /\ session \in Nat
HandlerType ==
    /\ handlers \in [Topics -> SUBSET Handlers]
    /\ \A t \in Topics : \A h \in handlers[t] : TopicOf[h] = t /\ spc[h] # "new"
    /\ spc \in [Handlers -> {"new", "registered", "subscribed", "failed"}]
CallType ==
    /\ via \in [Handlers -> 0 .. made]
    /\ upc \in [Topics -> {"idle", "removed"}] /\ uvia \in [Topics -> 0 .. made]
    /\ removed \in [Handlers -> 0 .. MaxMessages]
    /\ since \in [Handlers -> [session : 0 .. session, number : 0 .. MaxMessages]]
    /\ contested \subseteq Handlers
    /\ unsubscribes \in 0 .. MaxUnsubscribes
BrokerType ==
    /\ routes \in [Clients -> SUBSET Topics] /\ subs \subseteq Topics
    /\ sent \in [Topics -> 0 .. MaxMessages]
DeliveryType ==
    /\ inbox \subseteq Items /\ calls \subseteq Calls
    /\ kept \subseteq Messages /\ delivered \subseteq Messages
    /\ (link = "up" => kept = {}) /\ (link # "up" => delivered = {})
    /\ heard \in [Handlers -> [Links -> 0 .. MaxMessages]]

LEMMA TypeParts ==
    ASSUME ClientType', HandlerType', CallType', BrokerType', DeliveryType' PROVE TypeOK'
BY DEF TypeOK, ClientType, HandlerType, CallType, BrokerType, DeliveryType

LEMMA ClientSame ==
    ASSUME TypeOK, UNCHANGED <<clean, link, made, linkVars, drops, session>> PROVE ClientType'
BY DEF TypeOK, ClientType, linkVars

LEMMA HandlerSame == ASSUME TypeOK, UNCHANGED <<handlers, spc>> PROVE HandlerType'
BY DEF TypeOK, HandlerType

LEMMA CallSame ==
    ASSUME TypeOK, made' \in {made, made + 1}, session' \in {session, session + 1},
           UNCHANGED <<via, upc, uvia, removed, since, contested, unsubscribes>>
    PROVE  CallType'
<1>1. since' \in [Handlers -> [session : 0 .. session', number : 0 .. MaxMessages]]
  BY SinceGrows, SinceIs
<1>2. via' \in [Handlers -> 0 .. made'] /\ uvia' \in [Topics -> 0 .. made']
  BY DEF TypeOK
<1> QED
  BY <1>1, <1>2 DEF TypeOK, CallType

LEMMA BrokerSame == ASSUME TypeOK, UNCHANGED <<routes, subs, sent>> PROVE BrokerType'
BY DEF TypeOK, BrokerType

LEMMA DeliverySame ==
    ASSUME TypeOK, UNCHANGED <<link, kept, delivered, inbox, calls, heard>> PROVE DeliveryType'
BY DEF TypeOK, DeliveryType

LEMMA ConnectType == ASSUME TypeOK, Connect PROVE TypeOK'
<1>1. ClientType'
  BY ConstantsAssumption DEF Connect, TypeOK, ClientType, linkVars
<1>2. HandlerType' /\ CallType' /\ BrokerType'
  BY HandlerSame, CallSame, BrokerSame DEF Connect, callVars, brokerVars
<1>3. DeliveryType'
  BY DEF Connect, TypeOK, DeliveryType, brokerVars, deliveryVars
<1> QED
  BY <1>1, <1>2, <1>3, TypeParts

LEMMA LinkUpType == ASSUME TypeOK, LinkUp PROVE TypeOK'
<1>1. links + 1 \in Links /\ made \in Clients /\ links \in Nat /\ made \in Nat
  BY Bounds DEF LinkUp
<1>2. owner' \in [Links -> 0 .. made'] /\ owner'[links'] = made'
  BY <1>1 DEF LinkUp, TypeOK
<1>3. ClientType'
  BY <1>1, <1>2 DEF LinkUp, TypeOK, ClientType
<1>4. HandlerType' /\ CallType'
  BY <1>1, HandlerSame, CallSame DEF LinkUp, callVars
<1>5. BrokerType'
  BY DEF LinkUp, TypeOK, BrokerType
<1>6. inbox' \subseteq Items
  BY <1>1, OverTyped DEF LinkUp, TypeOK
<1>7. DeliveryType'
  BY <1>6 DEF LinkUp, TypeOK, DeliveryType
<1> QED
  BY <1>3, <1>4, <1>5, <1>7, TypeParts

LEMMA LinkLostType == ASSUME TypeOK, LinkLost PROVE TypeOK'
<1>1. ClientType'
  BY ConstantsAssumption DEF LinkLost, TypeOK, ClientType, linkVars
<1>2. HandlerType' /\ CallType' /\ BrokerType'
  BY HandlerSame, CallSame, BrokerSame DEF LinkLost, callVars
<1>3. DeliveryType'
  BY EndsTyped DEF LinkLost, TypeOK, DeliveryType
<1> QED
  BY <1>1, <1>2, <1>3, TypeParts

LEMMA DisconnectType == ASSUME TypeOK, Disconnect PROVE TypeOK'
<1>1. ClientType'
  BY DEF Disconnect, TypeOK, ClientType, linkVars
<1>2. HandlerType' /\ CallType' /\ BrokerType'
  BY HandlerSame, CallSame, BrokerSame DEF Disconnect, callVars
<1>3. inbox' \subseteq Items /\ kept' \subseteq Messages /\ delivered' = {}
  BY EndsTyped DEF Disconnect, TypeOK
<1>4. DeliveryType'
  BY <1>3 DEF Disconnect, TypeOK, DeliveryType
<1> QED
  BY <1>1, <1>2, <1>4, TypeParts

LEMMA FoundTyped == TypeOK => Found \in 0 .. made
BY DEF TypeOK, Found

LEMMA SubscribeType == ASSUME TypeOK, NEW h \in Handlers, Subscribe(h) PROVE TypeOK'
<1>1. ClientType' /\ BrokerType' /\ DeliveryType'
  BY ClientSame, BrokerSame, DeliverySame DEF Subscribe, clientVars, brokerVars, deliveryVars
<1>2. HandlerType'
  <2>1. TopicOf[h] \in Topics /\ handlers \in [Topics -> SUBSET Handlers]
    BY ConstantsAssumption DEF TypeOK
  <2>2. \A t \in Topics : handlers'[t] = IF t = TopicOf[h] THEN handlers[t] \cup {h} ELSE handlers[t]
    BY <2>1 DEF Subscribe
  <2>3. \A g \in Handlers : spc'[g] = IF g = h THEN "registered" ELSE spc[g]
    BY DEF Subscribe, TypeOK
  <2>4. \A t \in Topics : \A g \in handlers'[t] : TopicOf[g] = t /\ spc'[g] # "new"
    <3> SUFFICES ASSUME NEW t \in Topics, NEW g \in handlers'[t]
                 PROVE  TopicOf[g] = t /\ spc'[g] # "new"
      OBVIOUS
    <3>1. (g = h /\ t = TopicOf[h]) \/ g \in handlers[t]
      BY <2>2
    <3>2. g \in handlers[t] => g \in Handlers /\ TopicOf[g] = t /\ spc[g] # "new"
      BY DEF TypeOK
    <3> QED
      BY <2>3, <3>1, <3>2
  <2>5. /\ handlers' \in [Topics -> SUBSET Handlers]
        /\ spc' \in [Handlers -> {"new", "registered", "subscribed", "failed"}]
    BY <2>1 DEF Subscribe, TypeOK
  <2> QED
    BY <2>4, <2>5 DEF HandlerType
<1>3. CallType'
  BY FoundTyped DEF Subscribe, TypeOK, CallType, clientVars
<1> QED
  BY <1>1, <1>2, <1>3, TypeParts

LEMMA RoutedTyped == ASSUME TypeOK, NEW t \in Topics PROVE Routed(t) \in [Clients -> SUBSET Topics]
BY DEF TypeOK, Routed

LEMMA SubscribeReturnsType ==
    ASSUME TypeOK, NEW h \in Handlers, SubscribeReturns(h) PROVE TypeOK'
<1>1. TopicOf[h] \in Topics /\ sent[TopicOf[h]] \in 0 .. MaxMessages
  BY ConstantsAssumption DEF TypeOK
<1>2. ClientType' /\ DeliveryType'
  BY ClientSame, DeliverySame DEF SubscribeReturns, deliveryVars
<1>3. HandlerType'
  BY DEF SubscribeReturns, TypeOK, HandlerType
<1>4. BrokerType'
  BY <1>1, RoutedTyped DEF SubscribeReturns, TypeOK, BrokerType
<1>5. since' \in [Handlers -> [session : 0 .. session', number : 0 .. MaxMessages]]
  BY <1>1, SinceIs DEF SubscribeReturns
<1>6. CallType'
  BY <1>5 DEF SubscribeReturns, TypeOK, CallType
<1> QED
  BY <1>2, <1>3, <1>4, <1>6, TypeParts

LEMMA SubscribeFailsType ==
    ASSUME TypeOK, NEW h \in Handlers, SubscribeFails(h) PROVE TypeOK'
<1>1. TopicOf[h] \in Topics
  BY ConstantsAssumption
<1>2. ClientType' /\ DeliveryType'
  BY ClientSame, DeliverySame DEF SubscribeFails, deliveryVars
<1>3. HandlerType'
  BY DEF SubscribeFails, TypeOK, HandlerType
<1>4. BrokerType'
  BY <1>1, RoutedTyped DEF SubscribeFails, TypeOK, BrokerType
<1>5. CallType'
  BY DEF SubscribeFails, TypeOK, CallType
<1> QED
  BY <1>2, <1>3, <1>4, <1>5, TypeParts

LEMMA UnsubscribeType == ASSUME TypeOK, NEW t \in Topics, Unsubscribe(t) PROVE TypeOK'
<1>1. ClientType' /\ BrokerType' /\ DeliveryType'
  BY ClientSame, BrokerSame, DeliverySame DEF Unsubscribe, clientVars, brokerVars, deliveryVars
<1>2. HandlerType'
  BY DEF Unsubscribe, NobodyRegistered, TypeOK, HandlerType
<1>3. removed' \in [Handlers -> 0 .. MaxMessages]
  BY DEF Unsubscribe, TypeOK
<1>4. CallType'
  BY <1>3, FoundTyped, ConstantsAssumption DEF Unsubscribe, TypeOK, CallType, clientVars
<1> QED
  BY <1>1, <1>2, <1>4, TypeParts

LEMMA UnsubscribeEndsType == ASSUME TypeOK, NEW t \in Topics, UnsubscribeEnds(t) PROVE TypeOK'
<1>1. ClientType' /\ HandlerType' /\ DeliveryType'
  BY ClientSame, HandlerSame, DeliverySame DEF UnsubscribeEnds, deliveryVars
<1>2. BrokerType'
  BY DEF UnsubscribeEnds, TypeOK, BrokerType
<1>3. CallType'
  BY DEF UnsubscribeEnds, TypeOK, CallType
<1> QED
  BY <1>1, <1>2, <1>3, TypeParts

\* The message that Publish sends.
Published(t) == [topic |-> t, number |-> sent[t] + 1]

LEMMA PublishIs ==
    ASSUME TypeOK, NEW t \in Topics, Publish(t)
    PROVE  /\ Published(t) \in Messages
           /\ sent' = [sent EXCEPT ![t] = sent[t] + 1] /\ sent[t] \in Nat
           /\ sent' \in [Topics -> 0 .. MaxMessages]
           /\ inbox' = IF Deliverable(t) THEN inbox \cup Over(links, {Published(t)}) ELSE inbox
           /\ kept' = IF link # "up" /\ t \in subs THEN kept \cup {Published(t)} ELSE kept
BY ConstantsAssumption DEF Publish, Published, TypeOK, Messages

LEMMA PublishType == ASSUME TypeOK, NEW t \in Topics, Publish(t) PROVE TypeOK'
<1>1. ClientType' /\ HandlerType' /\ CallType'
  BY ClientSame, HandlerSame, CallSame DEF Publish, clientVars, callVars
<1>2. BrokerType'
  BY PublishIs DEF Publish, TypeOK, BrokerType, clientVars
<1>3. inbox' \subseteq Items
  <2>1. Published(t) \in Messages /\ inbox \subseteq Items
    BY PublishIs DEF TypeOK
  <2>2. link = "up" => Over(links, {Published(t)}) \subseteq Items
    BY <2>1, OverTyped, Bounds
  <2> QED
    BY <2>1, <2>2, PublishIs DEF Deliverable
<1>4. kept' \subseteq Messages /\ (link = "up" => kept' = {})
  <2>1. Published(t) \in Messages /\ kept \subseteq Messages /\ (link = "up" => kept = {})
    BY PublishIs DEF TypeOK
  <2> QED
    BY <2>1, PublishIs
<1>5. DeliveryType'
  BY <1>3, <1>4 DEF Publish, TypeOK, DeliveryType, clientVars
<1> QED
  BY <1>1, <1>2, <1>5, TypeParts

\* The calls that Dispatch adds.
Added(m) == {[handler |-> h, number |-> m.number, over |-> m.over] : h \in Called(m)}

LEMMA AddedFacts ==
    ASSUME TypeOK, NEW m \in inbox, NEW c \in Added(m)
    PROVE  /\ c.number = m.number /\ c.over = m.over /\ c \in Calls
           /\ c.handler \in handlers[m.topic] /\ TopicOf[c.handler] = m.topic
<1>1. PICK h \in Called(m) : c = [handler |-> h, number |-> m.number, over |-> m.over]
  BY DEF Added
<1>2. h \in handlers[m.topic]
  BY DEF Called
<1>3. h \in Handlers /\ TopicOf[h] = m.topic
  BY <1>2, ItemFacts DEF TypeOK
<1> QED
  BY <1>1, <1>2, <1>3, ItemFacts DEF Calls

LEMMA DispatchType == ASSUME TypeOK, NEW m \in inbox, Dispatch(m) PROVE TypeOK'
<1>1. ClientType' /\ HandlerType' /\ CallType' /\ BrokerType'
  BY ClientSame, HandlerSame, CallSame, BrokerSame DEF Dispatch, clientVars, callVars, brokerVars
<1>2. calls' = calls \cup Added(m)
  BY DEF Dispatch, Added
<1>3. calls' \subseteq Calls
  BY <1>2, AddedFacts DEF TypeOK
<1>4. delivered' \subseteq Messages /\ (link # "up" => delivered' = {})
  BY PlainTyped DEF Dispatch, TypeOK
<1>5. DeliveryType'
  BY <1>3, <1>4 DEF Dispatch, TypeOK, DeliveryType, clientVars, brokerVars
<1> QED
  BY <1>1, <1>5, TypeParts

\* What CallHandler leaves of each handler's last message.
LEMMA CalledIs ==
    ASSUME TypeOK, NEW c \in calls, CallHandler(c), NEW h \in Handlers, NEW l \in Links
    PROVE  /\ heard'[h][l] = IF h = c.handler /\ l = c.over THEN c.number ELSE heard[h][l]
           /\ heard' \in [Handlers -> [Links -> 0 .. MaxMessages]]
<1>1. heard \in [Handlers -> [Links -> 0 .. MaxMessages]] /\ c.number \in 0 .. MaxMessages
  BY CallFacts, ConstantsAssumption DEF TypeOK
<1> QED
  BY <1>1, CallFacts DEF CallHandler

LEMMA CallHandlerType == ASSUME TypeOK, NEW c \in calls, CallHandler(c) PROVE TypeOK'
<1>1. ClientType' /\ HandlerType' /\ CallType' /\ BrokerType'
  BY ClientSame, HandlerSame, CallSame, BrokerSame
     DEF CallHandler, clientVars, callVars, brokerVars
<1>2. heard' \in [Handlers -> [Links -> 0 .. MaxMessages]]
  <2>1. heard \in [Handlers -> [Links -> 0 .. MaxMessages]] /\ c.number \in 0 .. MaxMessages
    BY CallFacts, ConstantsAssumption DEF TypeOK
  <2> QED
    BY <2>1 DEF CallHandler
<1>3. DeliveryType'
  BY <1>2 DEF CallHandler, TypeOK, DeliveryType, clientVars, brokerVars
<1> QED
  BY <1>1, <1>3, TypeParts

LEMMA TypeStep == ASSUME TypeOK, [Next]_vars PROVE TypeOK'
<1>1. CASE UNCHANGED vars
  <2>1. ClientType' /\ HandlerType' /\ CallType' /\ BrokerType' /\ DeliveryType'
    BY <1>1, ClientSame, HandlerSame, CallSame, BrokerSame, DeliverySame
       DEF vars, clientVars, callVars, brokerVars, deliveryVars
  <2> QED
    BY <2>1, TypeParts
<1> QED
  BY <1>1, ConnectType, LinkUpType, LinkLostType, DisconnectType, SubscribeType,
     SubscribeReturnsType, SubscribeFailsType, UnsubscribeType, UnsubscribeEndsType, PublishType,
     DispatchType, CallHandlerType DEF Next

-----------------------------------------------------------------------------
(* Order.                                                                  *)

LEMMA OrderInit == ASSUME Init PROVE OrderInv
<1>1. HeardWasSent
  BY ConstantsAssumption DEF Init, HeardWasSent
<1> QED
  BY <1>1 DEF Init, OrderInv, InboxInOrder, CallsInOrder, OneMessage, KeptWasSent

\* What OrderInv says, with the numbers that it compares.
LEMMA SentIs == TypeOK => sent \in [Topics -> Nat]
BY ConstantsAssumption DEF TypeOK

LEMMA OverFacts ==
    ASSUME NEW l, NEW Q \in SUBSET Messages, NEW m \in Over(l, Q)
    PROVE  /\ m.over = l /\ m.topic \in Topics /\ m.number \in 1 .. MaxMessages
           /\ [topic |-> m.topic, number |-> m.number] \in Q
BY DEF Over, Messages

LEMMA PlainFacts ==
    ASSUME NEW Q \in SUBSET Items, NEW m \in Plain(Q)
    PROVE  \E x \in Q : m.topic = x.topic /\ m.number = x.number
BY DEF Plain

\* Steps that add nothing to what is under way.
LEMMA OrderKept ==
    ASSUME TypeOK, OrderInv, inbox' \subseteq inbox, calls' = calls,
           UNCHANGED <<links, sent, heard>>
    PROVE  InboxInOrder' /\ CallsInOrder' /\ OneMessage' /\ HeardWasSent'
BY DEF OrderInv, InboxInOrder, CallsInOrder, OneMessage, HeardWasSent

LEMMA OrderSame ==
    ASSUME OrderInv, UNCHANGED <<links, sent, heard, inbox, calls, kept, delivered>>
    PROVE  OrderInv'
BY DEF OrderInv, InboxInOrder, CallsInOrder, OneMessage, KeptWasSent, HeardWasSent

LEMMA LinkUpOrder == ASSUME TypeOK, OrderInv, LinkUp PROVE OrderInv'
<1>1. links \in Nat /\ links' = links + 1 /\ links' \in Links
  BY Bounds DEF LinkUp
<1>2. UNCHANGED <<sent, calls, heard, delivered>> /\ kept' = {}
  BY DEF LinkUp
<1>3. InboxInOrder'
  <2> SUFFICES ASSUME NEW m \in inbox'
               PROVE  /\ m.over <= links' /\ m.number <= sent[m.topic]
                      /\ \A h \in Handlers : TopicOf[h] = m.topic => heard[h][m.over] < m.number
                      /\ \A c \in calls :
                            c.over = m.over /\ TopicOf[c.handler] = m.topic => c.number < m.number
    BY <1>2 DEF InboxInOrder
  <2>1. CASE m \in inbox
    BY <1>1, <2>1, ItemFacts DEF OrderInv, InboxInOrder, Links
  <2>2. CASE m \in Over(links', kept)
    <3>1. m.over = links' /\ m.number \in 1 .. MaxMessages
          /\ [topic |-> m.topic, number |-> m.number] \in kept
      BY <2>2, OverFacts DEF TypeOK
    <3>2. m.number <= sent[m.topic]
      BY <3>1 DEF OrderInv, KeptWasSent
    <3>3. \A h \in Handlers : heard[h][m.over] < m.number
      BY <1>1, <3>1 DEF OrderInv, HeardWasSent
    <3>4. \A c \in calls : c.over # m.over
      BY <1>1, <3>1, CallFacts DEF OrderInv, CallsInOrder, Links
    <3> QED
      BY <1>1, <3>1, <3>2, <3>3, <3>4
  <2> QED
    BY <2>1, <2>2 DEF LinkUp
<1>4. CallsInOrder' /\ HeardWasSent'
  BY <1>1, <1>2, CallFacts DEF OrderInv, CallsInOrder, HeardWasSent, Links
<1>5. OneMessage' /\ KeptWasSent'
  BY <1>2 DEF OrderInv, OneMessage, KeptWasSent
<1> QED
  BY <1>3, <1>4, <1>5 DEF OrderInv

LEMMA EndsOrder ==
    ASSUME TypeOK, OrderInv, LinkEnds, UNCHANGED <<links, sent, calls, heard>>
    PROVE  OrderInv'
<1>1. InboxInOrder' /\ CallsInOrder' /\ OneMessage' /\ HeardWasSent'
  BY OrderKept, EndsTyped
<1>2. kept' \subseteq Plain(OnTheWay) \cup delivered /\ delivered' = {}
  BY DEF LinkEnds, Unacknowledged
<1>3. \A m \in Plain(OnTheWay) : m.number <= sent[m.topic]
  <2> SUFFICES ASSUME NEW m \in Plain(OnTheWay) PROVE m.number <= sent[m.topic]
    OBVIOUS
  <2>1. OnTheWay \subseteq inbox /\ OnTheWay \in SUBSET Items
    BY DEF OnTheWay, TypeOK
  <2>2. PICK x \in OnTheWay : m.topic = x.topic /\ m.number = x.number
    BY <2>1, PlainFacts
  <2> QED
    BY <2>1, <2>2 DEF OrderInv, InboxInOrder
<1>4. KeptWasSent'
  BY <1>2, <1>3 DEF OrderInv, KeptWasSent
<1> QED
  BY <1>1, <1>4 DEF OrderInv

LEMMA PublishOrder == ASSUME TypeOK, OrderInv, NEW t \in Topics, Publish(t) PROVE OrderInv'
<1>0. UNCHANGED <<links, calls, heard, delivered>>
  BY DEF Publish, clientVars, linkVars
<1>1. \A u \in Topics : sent[u] \in Nat /\ sent'[u] = IF u = t THEN sent[u] + 1 ELSE sent[u]
  BY PublishIs, SentIs
<1>2. \A u \in Topics : sent[u] <= sent'[u]
  BY <1>1
<1>3. CallsInOrder' /\ OneMessage' /\ HeardWasSent'
  <2>1. CallsInOrder'
    <3> SUFFICES ASSUME NEW c \in calls
                 PROVE  /\ c.over <= links /\ c.number <= sent'[TopicOf[c.handler]]
                        /\ heard[c.handler][c.over] <= c.number
      BY <1>0 DEF CallsInOrder
    <3> QED
      BY <1>1, CallFacts DEF OrderInv, CallsInOrder
  <2>2. HeardWasSent'
    <3> SUFFICES ASSUME NEW h \in Handlers, NEW l \in Links
                 PROVE  heard[h][l] <= sent'[TopicOf[h]] /\ (l > links => heard[h][l] = 0)
      BY <1>0 DEF HeardWasSent
    <3> QED
      BY <1>1, HeardFacts DEF OrderInv, HeardWasSent
  <2> QED
    BY <1>0, <2>1, <2>2 DEF OrderInv, OneMessage
<1>4. KeptWasSent'
  <2> SUFFICES ASSUME NEW m \in kept' \cup delivered PROVE m.number <= sent'[m.topic]
    BY <1>0 DEF KeptWasSent
  <2>1. CASE m \in kept \cup delivered
    <3>1. m \in Messages /\ m.number <= sent[m.topic]
      BY <2>1 DEF OrderInv, KeptWasSent, TypeOK
    <3> QED
      BY <1>1, <3>1 DEF Messages
  <2>2. CASE m = Published(t)
    BY <1>1, <2>2 DEF Published
  <2>3. kept' \subseteq kept \cup {Published(t)}
    BY PublishIs
  <2> QED
    BY <2>1, <2>2, <2>3
<1>5. InboxInOrder'
  <2> SUFFICES ASSUME NEW m \in inbox'
               PROVE  /\ m.over <= links /\ m.number <= sent'[m.topic]
                      /\ \A h \in Handlers : TopicOf[h] = m.topic => heard[h][m.over] < m.number
                      /\ \A c \in calls :
                            c.over = m.over /\ TopicOf[c.handler] = m.topic => c.number < m.number
    BY <1>0 DEF InboxInOrder
  <2>1. CASE m \in inbox
    BY <1>1, <2>1, ItemFacts DEF OrderInv, InboxInOrder
  <2>2. CASE m \notin inbox
    <3>1. link = "up" /\ m \in Over(links, {Published(t)})
      BY <2>2, PublishIs DEF Deliverable
    <3>2. m.over = links /\ links \in Links /\ m.topic = t /\ m.number = sent[t] + 1
      BY <3>1, Bounds, OverFacts DEF Over, Published
    <3>3. \A h \in Handlers : TopicOf[h] = t => heard[h][links] < sent[t] + 1
      BY <1>1, <3>2, HeardFacts DEF OrderInv, HeardWasSent
    <3>4. \A c \in calls : TopicOf[c.handler] = t => c.number < sent[t] + 1
      BY <1>1, CallFacts DEF OrderInv, CallsInOrder
    <3> QED
      BY <1>1, <3>2, <3>3, <3>4 DEF Links
  <2> QED
    BY <2>1, <2>2
<1> QED
  BY <1>3, <1>4, <1>5 DEF OrderInv

\* No call is left over the link of the message that is dispatched.
LEMMA NoCallOver ==
    ASSUME NEW m \in inbox, Dispatch(m), NEW c \in calls PROVE c.over # m.over
BY DEF Dispatch, HandlersHaveReturned

LEMMA DispatchOrder == ASSUME TypeOK, OrderInv, NEW m \in inbox, Dispatch(m) PROVE OrderInv'
<1>1. /\ inbox' = inbox \ {m} /\ calls' = calls \cup Added(m)
      /\ UNCHANGED <<links, sent, heard, kept>> /\ InTurn(m)
  BY DEF Dispatch, Added, clientVars, linkVars, brokerVars
<1>2. InboxInOrder'
  <2> SUFFICES ASSUME NEW x \in inbox'
               PROVE  /\ x.over <= links /\ x.number <= sent[x.topic]
                      /\ \A h \in Handlers : TopicOf[h] = x.topic => heard[h][x.over] < x.number
                      /\ \A c \in calls' :
                            c.over = x.over /\ TopicOf[c.handler] = x.topic => c.number < x.number
    BY <1>1 DEF InboxInOrder
  <2>1. x \in inbox \ {m}
    BY <1>1
  <2>2. ASSUME NEW c \in Added(m), c.over = x.over, TopicOf[c.handler] = x.topic
        PROVE  c.number < x.number
    <3>1. c.number = m.number /\ x.over = m.over /\ x.topic = m.topic
      BY <2>2, AddedFacts
    <3> QED
      BY <1>1, <2>1, <3>1 DEF InTurn
  <2> QED
    BY <1>1, <2>1, <2>2 DEF OrderInv, InboxInOrder
<1>3. CallsInOrder'
  <2> SUFFICES ASSUME NEW c \in calls'
               PROVE  /\ c.over <= links /\ c.number <= sent[TopicOf[c.handler]]
                      /\ heard[c.handler][c.over] <= c.number
    BY <1>1 DEF CallsInOrder
  <2>1. CASE c \in calls
    BY <2>1 DEF OrderInv, CallsInOrder
  <2>2. CASE c \in Added(m)
    <3>1. /\ c.number = m.number /\ c.over = m.over /\ TopicOf[c.handler] = m.topic
          /\ c.handler \in Handlers
      BY <2>2, AddedFacts DEF Calls
    <3>2. heard[c.handler][c.over] \in Nat /\ m.number \in Nat
      BY <3>1, HeardFacts, ItemFacts, ConstantsAssumption
    <3> QED
      BY <3>1, <3>2 DEF OrderInv, InboxInOrder
  <2> QED
    BY <1>1, <2>1, <2>2
<1>4. OneMessage'
  <2> SUFFICES ASSUME NEW c \in calls', NEW d \in calls', c.over = d.over
               PROVE  TopicOf[c.handler] = TopicOf[d.handler] /\ c.number = d.number
    BY DEF OneMessage
  <2>1. CASE c \in calls /\ d \in calls
    BY <2>1 DEF OrderInv, OneMessage
  <2>2. CASE c \in Added(m) /\ d \in Added(m)
    BY <2>2, AddedFacts
  <2>3. (c \in Added(m) => c.over = m.over) /\ (d \in Added(m) => d.over = m.over)
    BY AddedFacts
  <2> QED
    BY <1>1, <2>1, <2>2, <2>3, NoCallOver
<1>5. HeardWasSent'
  BY <1>1 DEF OrderInv, HeardWasSent
<1>6. KeptWasSent'
  <2>1. m.number <= sent[m.topic]
    BY DEF OrderInv, InboxInOrder
  <2>2. delivered' \subseteq delivered \cup {[topic |-> m.topic, number |-> m.number]}
    BY DEF Dispatch, Plain
  <2> QED
    BY <1>1, <2>1, <2>2 DEF OrderInv, KeptWasSent
<1> QED
  BY <1>2, <1>3, <1>4, <1>5, <1>6 DEF OrderInv

LEMMA CallHandlerOrder ==
    ASSUME TypeOK, OrderInv, NEW c \in calls, CallHandler(c) PROVE OrderInv'
<1>1. calls' = calls \ {c} /\ UNCHANGED <<links, sent, inbox, kept, delivered>>
  BY DEF CallHandler, clientVars, linkVars, brokerVars
<1>2. InboxInOrder'
  <2> SUFFICES ASSUME NEW m \in inbox
               PROVE  /\ m.over <= links /\ m.number <= sent[m.topic]
                      /\ \A h \in Handlers : TopicOf[h] = m.topic => heard'[h][m.over] < m.number
                      /\ \A d \in calls :
                            d.over = m.over /\ TopicOf[d.handler] = m.topic => d.number < m.number
    BY <1>1 DEF InboxInOrder
  <2> QED
    BY CalledIs, ItemFacts DEF OrderInv, InboxInOrder
<1>3. CallsInOrder'
  <2> SUFFICES ASSUME NEW d \in calls
               PROVE  /\ d.over <= links /\ d.number <= sent[TopicOf[d.handler]]
                      /\ heard'[d.handler][d.over] <= d.number
    BY <1>1 DEF CallsInOrder
  <2>1. d.over = c.over => c.number = d.number
    BY DEF OrderInv, OneMessage
  <2>2. heard'[d.handler][d.over] =
            IF d.handler = c.handler /\ d.over = c.over THEN c.number ELSE heard[d.handler][d.over]
    BY CallFacts, CalledIs
  <2>3. d.number \in Nat /\ heard[d.handler][d.over] <= d.number
    BY CallFacts DEF OrderInv, CallsInOrder
  <2> QED
    BY <2>1, <2>2, <2>3 DEF OrderInv, CallsInOrder
<1>4. OneMessage' /\ KeptWasSent'
  BY <1>1 DEF OrderInv, OneMessage, KeptWasSent
<1>5. HeardWasSent'
  <2> SUFFICES ASSUME NEW h \in Handlers, NEW l \in Links
               PROVE  heard'[h][l] <= sent[TopicOf[h]] /\ (l > links => heard'[h][l] = 0)
    BY <1>1 DEF HeardWasSent
  <2>1. c.number <= sent[TopicOf[c.handler]] /\ c.over <= links
    BY DEF OrderInv, CallsInOrder
  <2>2. links \in Nat /\ c.over \in Nat
    BY Bounds, CallFacts DEF Links
  <2> QED
    BY <2>1, <2>2, CalledIs DEF OrderInv, HeardWasSent, Links
<1> QED
  BY <1>2, <1>3, <1>4, <1>5 DEF OrderInv

LEMMA OrderStep == ASSUME TypeOK, OrderInv, [Next]_vars PROVE OrderInv'
<1>1. CASE Connect \/ LinkLost \/ Disconnect
  <2>1. UNCHANGED <<links, sent, calls, heard>>
    BY <1>1 DEF Connect, LinkLost, Disconnect, linkVars, brokerVars, deliveryVars
  <2>2. LinkEnds \/ UNCHANGED <<inbox, kept, delivered>>
    BY <1>1 DEF Connect, LinkLost, Disconnect, brokerVars, deliveryVars
  <2> QED
    BY <2>1, <2>2, EndsOrder, OrderSame
<1>2. ASSUME NEW h \in Handlers, Subscribe(h) \/ SubscribeReturns(h) \/ SubscribeFails(h)
      PROVE  OrderInv'
  BY <1>2, OrderSame
     DEF Subscribe, SubscribeReturns, SubscribeFails, clientVars, linkVars, brokerVars, deliveryVars
<1>3. ASSUME NEW t \in Topics, Unsubscribe(t) \/ UnsubscribeEnds(t) PROVE OrderInv'
  BY <1>3, OrderSame DEF Unsubscribe, UnsubscribeEnds, clientVars, linkVars, brokerVars, deliveryVars
<1>4. CASE UNCHANGED vars
  BY <1>4, OrderSame DEF vars, clientVars, linkVars, brokerVars, deliveryVars
<1> QED
  BY <1>1, <1>2, <1>3, <1>4, LinkUpOrder, PublishOrder, DispatchOrder, CallHandlerOrder DEF Next

-----------------------------------------------------------------------------
(* Silence.                                                                *)

LEMMA SilenceInit == ASSUME Init PROVE SilenceInv
<1>1. UnsubscribedIsSilent
  BY ConstantsAssumption DEF Init, UnsubscribedIsSilent
<1> QED
  BY <1>1 DEF Init, SilenceInv, NotYetRemoved, CallsAreOld

LEMMA DispatchSilence == ASSUME TypeOK, SilenceInv, NEW m \in inbox, Dispatch(m) PROVE SilenceInv'
<1>1. calls' = calls \cup Added(m) /\ UNCHANGED <<handlers, spc, heard, removed>>
  BY DEF Dispatch, Added, callVars
<1>2. \A c \in Added(m) : c.number <= removed[c.handler]
  <2> SUFFICES ASSUME NEW c \in Added(m) PROVE c.number <= removed[c.handler]
    OBVIOUS
  <2>1. /\ c.number = m.number /\ c.handler \in handlers[m.topic]
        /\ TopicOf[c.handler] = m.topic /\ c.handler \in Handlers
    BY AddedFacts DEF Calls
  <2>2. removed[c.handler] = MaxMessages
    BY <2>1 DEF SilenceInv, NotYetRemoved
  <2> QED
    BY <2>1, <2>2, ItemFacts, ConstantsAssumption
<1> QED
  BY <1>1, <1>2 DEF SilenceInv, NotYetRemoved, CallsAreOld, UnsubscribedIsSilent

LEMMA SilenceStep == ASSUME TypeOK, OrderInv, SilenceInv, [Next]_vars PROVE SilenceInv'
<1>1. ASSUME UNCHANGED <<handlers, calls, heard, removed>>,
             \A h \in Handlers : spc'[h] = "new" => spc[h] = "new"
      PROVE  SilenceInv'
  BY <1>1 DEF SilenceInv, NotYetRemoved, CallsAreOld, UnsubscribedIsSilent
<1>2. CASE Connect \/ LinkUp \/ LinkLost \/ Disconnect
  BY <1>1, <1>2 DEF Connect, LinkUp, LinkLost, Disconnect, callVars, deliveryVars
<1>3. ASSUME NEW h \in Handlers, Subscribe(h) PROVE SilenceInv'
  <2>1. /\ spc[h] = "new" /\ UNCHANGED <<calls, heard, removed>>
        /\ \A g \in Handlers : spc'[g] = "new" => spc[g] = "new"
        /\ \A g \in Handlers : g \in handlers'[TopicOf[g]] => g = h \/ g \in handlers[TopicOf[g]]
    BY <1>3, ConstantsAssumption DEF Subscribe, TypeOK, deliveryVars
  <2> QED
    BY <2>1 DEF SilenceInv, NotYetRemoved, CallsAreOld, UnsubscribedIsSilent
<1>4. ASSUME NEW h \in Handlers, SubscribeReturns(h) \/ SubscribeFails(h) PROVE SilenceInv'
  <2>1. \A g \in Handlers : spc'[g] = "new" => spc[g] = "new"
    BY <1>4 DEF SubscribeReturns, SubscribeFails, TypeOK
  <2> QED
    BY <1>1, <1>4, <2>1 DEF SubscribeReturns, SubscribeFails, deliveryVars
<1>5. ASSUME NEW t \in Topics, Unsubscribe(t) PROVE SilenceInv'
  <2>1. /\ handlers' = [handlers EXCEPT ![t] = {}]
        /\ removed' = [h \in Handlers |-> IF h \in handlers[t] THEN sent[t] ELSE removed[h]]
        /\ UNCHANGED <<spc, calls, heard>>
    BY <1>5 DEF Unsubscribe, NobodyRegistered, deliveryVars
  <2>2. \A h \in handlers[t] : h \in Handlers /\ TopicOf[h] = t /\ spc[h] # "new"
    BY DEF TypeOK
  <2>3. NotYetRemoved'
    <3>1. \A h \in Handlers : h \in handlers'[TopicOf[h]] => h \in handlers[TopicOf[h]] /\ TopicOf[h] # t
      BY <2>1, ConstantsAssumption DEF TypeOK
    <3> QED
      BY <2>1, <2>2, <3>1 DEF SilenceInv, NotYetRemoved
  <2>4. CallsAreOld'
    BY <2>1, <2>2, CallFacts DEF SilenceInv, CallsAreOld, OrderInv, CallsInOrder
  <2>5. UnsubscribedIsSilent'
    BY <2>1, <2>2 DEF SilenceInv, UnsubscribedIsSilent, OrderInv, HeardWasSent
  <2> QED
    BY <2>3, <2>4, <2>5 DEF SilenceInv
<1>6. ASSUME NEW t \in Topics, UnsubscribeEnds(t) \/ Publish(t) PROVE SilenceInv'
  BY <1>1, <1>6 DEF UnsubscribeEnds, Publish, callVars, deliveryVars
<1>7. ASSUME NEW c \in calls, CallHandler(c) PROVE SilenceInv'
  <2>1. calls' = calls \ {c} /\ UNCHANGED <<handlers, spc, removed>>
    BY <1>7 DEF CallHandler, callVars
  <2>2. \A h \in Handlers, l \in Links :
            heard'[h][l] = IF h = c.handler /\ l = c.over THEN c.number ELSE heard[h][l]
    BY <1>7, CalledIs
  <2> QED
    BY <2>1, <2>2 DEF SilenceInv, NotYetRemoved, CallsAreOld, UnsubscribedIsSilent
<1>8. CASE UNCHANGED vars
  BY <1>1, <1>8 DEF vars, callVars, deliveryVars
<1> QED
  BY <1>2, <1>3, <1>4, <1>5, <1>6, <1>7, <1>8, DispatchSilence DEF Next

-----------------------------------------------------------------------------
(* Delivery.                                                               *)

LEMMA DeliveryInit == Init => DeliveryInv
BY ConstantsAssumption
   DEF Init, DeliveryInv, UnsubscribingContests, SessionHolds, LastIsOnItsWay, Lasting

LEMMA ContestsStep == ASSUME TypeOK, DeliveryInv, [Next]_vars PROVE UnsubscribingContests'
<1>1. ASSUME UNCHANGED <<upc, handlers, contested>> PROVE UnsubscribingContests'
  BY <1>1 DEF DeliveryInv, UnsubscribingContests
<1>2. CASE Connect \/ LinkUp \/ LinkLost \/ Disconnect
           \/ (\E m \in inbox : Dispatch(m)) \/ (\E c \in calls : CallHandler(c))
  BY <1>1, <1>2 DEF Connect, LinkUp, LinkLost, Disconnect, Dispatch, CallHandler, callVars
<1>3. ASSUME NEW h \in Handlers, Subscribe(h) PROVE UnsubscribingContests'
  BY <1>3, ConstantsAssumption DEF Subscribe, TypeOK, DeliveryInv, UnsubscribingContests
<1>4. ASSUME NEW h \in Handlers, SubscribeReturns(h) \/ SubscribeFails(h)
      PROVE  UnsubscribingContests'
  BY <1>1, <1>4 DEF SubscribeReturns, SubscribeFails
<1>5. ASSUME NEW t \in Topics, Unsubscribe(t) \/ UnsubscribeEnds(t) PROVE UnsubscribingContests'
  <2>1. CASE Unsubscribe(t)
    BY <2>1 DEF Unsubscribe, NobodyRegistered, TypeOK, DeliveryInv, UnsubscribingContests
  <2>2. CASE UnsubscribeEnds(t)
    BY <2>2 DEF UnsubscribeEnds, TypeOK, DeliveryInv, UnsubscribingContests
  <2> QED
    BY <1>5, <2>1, <2>2
<1>6. ASSUME NEW t \in Topics, Publish(t) PROVE UnsubscribingContests'
  BY <1>1, <1>6 DEF Publish, callVars
<1>7. CASE UNCHANGED vars
  BY <1>1, <1>7 DEF vars, callVars
<1> QED
  BY <1>2, <1>3, <1>4, <1>5, <1>6, <1>7 DEF Next

\* A handler whose session lasts was subscribed before, in the same session,
\* except for the one whose Subscribe returns.
LEMMA LastedBefore ==
    ASSUME TypeOK, DeliveryInv, [Next]_vars, NEW h \in Handlers, Lasting(h)',
           ~SubscribeReturns(h)
    PROVE  Lasting(h) /\ since'[h] = since[h]
<1>1. ASSUME session' = session + 1, since' = since PROVE FALSE
  BY <1>1 DEF Lasting, TypeOK
<1>2. CASE Connect \/ LinkUp \/ LinkLost \/ Disconnect
           \/ (\E m \in inbox : Dispatch(m)) \/ (\E c \in calls : CallHandler(c))
  <2>1. /\ UNCHANGED <<handlers, spc, since, contested>>
        /\ session' = session \/ session' = session + 1
    BY <1>2 DEF Connect, LinkUp, LinkLost, Disconnect, Dispatch, CallHandler, callVars,
       clientVars
  <2> QED
    BY <1>1, <2>1 DEF Lasting
<1>3. ASSUME NEW g \in Handlers, Subscribe(g) PROVE Lasting(h) /\ since'[h] = since[h]
  BY <1>3, ConstantsAssumption DEF Subscribe, TypeOK, Lasting, clientVars
<1>4. ASSUME NEW g \in Handlers, SubscribeReturns(g) \/ SubscribeFails(g)
      PROVE  Lasting(h) /\ since'[h] = since[h]
  <2>1. UNCHANGED <<handlers, contested, session>>
    BY <1>4 DEF SubscribeReturns, SubscribeFails
  <2>2. g # h => spc'[h] = spc[h] /\ since'[h] = since[h]
    BY <1>4 DEF SubscribeReturns, SubscribeFails, TypeOK
  <2>3. g # h
    BY <1>4 DEF SubscribeFails, TypeOK, Lasting
  <2> QED
    BY <2>1, <2>2, <2>3 DEF Lasting
<1>5. ASSUME NEW t \in Topics, Unsubscribe(t) PROVE Lasting(h) /\ since'[h] = since[h]
  BY <1>5, ConstantsAssumption DEF Unsubscribe, NobodyRegistered, TypeOK, Lasting, clientVars
<1>6. ASSUME NEW t \in Topics, UnsubscribeEnds(t) \/ Publish(t)
      PROVE  Lasting(h) /\ since'[h] = since[h]
  BY <1>6 DEF UnsubscribeEnds, Publish, Lasting, callVars, clientVars
<1>7. CASE UNCHANGED vars
  BY <1>7 DEF vars, Lasting, callVars, clientVars
<1> QED
  BY <1>2, <1>3, <1>4, <1>5, <1>6, <1>7 DEF Next

\* Routed adds a topic to the present client and takes none away.
LEMMA RoutedFacts ==
    ASSUME TypeOK, made \in Clients, NEW t
    PROVE  Routed(t)[made] = routes[made] \cup {t}
BY DEF TypeOK, Routed

\* What Subscribe's return establishes.
LEMMA Subscribed ==
    ASSUME TypeOK, NEW h \in Handlers, SubscribeReturns(h)
    PROVE  /\ TopicOf[h] \in routes'[made'] /\ TopicOf[h] \in subs' /\ link' = "up"
           /\ since'[h].number = sent'[TopicOf[h]]
<1>1. link = "up" /\ made \in Clients
  BY Bounds DEF SubscribeReturns, Reached
<1>2. TopicOf[h] \in routes'[made']
  BY <1>1, RoutedFacts DEF SubscribeReturns
<1> QED
  BY <1>1, <1>2 DEF SubscribeReturns, TypeOK

LEMMA SessionStep ==
    ASSUME TypeOK, DeliveryInv, [Next]_vars, NEW h \in Handlers, Lasting(h)'
    PROVE  /\ TopicOf[h] \in routes'[made'] /\ TopicOf[h] \in subs'
           /\ link' # "none" /\ (clean' => link' = "up")
<1> DEFINE Holds == /\ TopicOf[h] \in routes[made] /\ TopicOf[h] \in subs
                    /\ link # "none" /\ (clean => link = "up")
<1>1. CASE SubscribeReturns(h)
  BY <1>1, Subscribed
<1> SUFFICES ASSUME ~SubscribeReturns(h) PROVE Holds'
  BY <1>1
<1>2. Lasting(h) /\ TopicOf[h] \in Topics /\ Holds
  BY LastedBefore, ConstantsAssumption DEF DeliveryInv, SessionHolds
<1>3. ASSUME session' = session + 1, since' = since PROVE FALSE
  BY <1>3 DEF Lasting, TypeOK
<1>4. ASSUME UNCHANGED <<clean, link, made>>, routes[made] \subseteq routes'[made],
             subs \subseteq subs'
      PROVE  Holds'
  BY <1>2, <1>4
<1>5. CASE Connect \/ Disconnect
  BY <1>3, <1>5 DEF Connect, Disconnect, callVars
<1>6. CASE LinkUp
  BY <1>2, <1>6 DEF LinkUp, Fresh
<1>7. CASE LinkLost
  BY <1>2, <1>3, <1>7 DEF LinkLost, callVars
<1>8. ASSUME NEW g \in Handlers, Subscribe(g) \/ SubscribeReturns(g) \/ SubscribeFails(g)
      PROVE  Holds'
  <2>1. UNCHANGED <<clean, link, made>> /\ subs \subseteq subs'
    BY <1>8 DEF Subscribe, SubscribeReturns, SubscribeFails, clientVars, brokerVars
  <2>2. routes' = routes \/ routes' = Routed(TopicOf[g])
    BY <1>8 DEF Subscribe, SubscribeReturns, SubscribeFails, clientVars
  <2>3. routes[made] \subseteq routes'[made]
    BY <1>2, <2>2, Bounds, RoutedFacts DEF TypeOK
  <2> QED
    BY <1>4, <2>1, <2>3
<1>9. CASE (\E m \in inbox : Dispatch(m)) \/ (\E c \in calls : CallHandler(c)) \/ UNCHANGED vars
           \/ \E t \in Topics : Unsubscribe(t) \/ Publish(t)
  BY <1>4, <1>9 DEF Dispatch, CallHandler, Unsubscribe, Publish, vars, clientVars, brokerVars
<1>10. ASSUME NEW t \in Topics, UnsubscribeEnds(t) PROVE Holds'
  <2>1. TopicOf[h] # t
    BY <1>2, <1>10 DEF UnsubscribeEnds, DeliveryInv, UnsubscribingContests, Lasting
  <2>2. UNCHANGED <<clean, link, made>> /\ TopicOf[h] \in subs'
    BY <1>2, <1>10, <2>1 DEF UnsubscribeEnds
  <2>3. TopicOf[h] \in routes'[made]
    BY <1>2, <1>10, <2>1 DEF UnsubscribeEnds, TypeOK
  <2> QED
    BY <1>2, <2>2, <2>3
<1> QED
  BY <1>4, <1>5, <1>6, <1>7, <1>8, <1>9, <1>10 DEF Next

\* Steps that leave alone what is on its way.
LEMMA OnItsWaySame ==
    ASSUME NEW h, OnItsWay(h), UNCHANGED <<link, links, owner, made, sent, inbox, kept, calls, heard>>
    PROVE  OnItsWay(h)'
BY DEF OnItsWay, CalledWithLast, Last, LastOver

LEMMA LinkUpKeepsLast ==
    ASSUME TypeOK, OrderInv, LinkUp, ~clean, NEW h \in Handlers, OnItsWay(h)
    PROVE  OnItsWay(h)'
<1>1. /\ link = "dialling" /\ link' = "up" /\ links' = links + 1
      /\ owner' = [owner EXCEPT ![links'] = made]
      /\ inbox' = inbox \cup Over(links', kept) /\ UNCHANGED <<made, sent, calls, heard>>
  BY DEF LinkUp, Fresh
<1>2. ASSUME Last(TopicOf[h]) \in kept PROVE LastOver(links', TopicOf[h]) \in inbox'
  BY <1>1, <1>2 DEF Last, LastOver, Over
<1>3. ASSUME NEW c \in calls PROVE owner'[c.over] = owner[c.over]
  <2>1. c.over # links' /\ c.over \in Links
    BY <1>1, Bounds, CallFacts DEF OrderInv, CallsInOrder, Links
  <2> QED
    BY <1>1, <2>1 DEF TypeOK
<1>4. CalledWithLast(h) => CalledWithLast(h)'
  BY <1>1, <1>3 DEF CalledWithLast
<1> QED
  BY <1>1, <1>2, <1>4 DEF OnItsWay, LastOver

LEMMA LinkLostKeepsLast ==
    ASSUME TypeOK, LinkLost, ~clean, NEW h \in Handlers, OnItsWay(h)
    PROVE  OnItsWay(h)'
<1>1. link = "up" /\ kept = {} /\ UNCHANGED <<made, owner, sent, calls, heard>>
  BY DEF LinkLost, TypeOK, linkVars
<1>2. Plain(OnTheWay) \subseteq kept'
  BY DEF LinkLost, LinkEnds, Unacknowledged
<1>3. ASSUME LastOver(links, TopicOf[h]) \in inbox PROVE Last(TopicOf[h]) \in kept'
  <2>1. LastOver(links, TopicOf[h]) \in OnTheWay
    BY <1>3 DEF OnTheWay, LastOver
  <2>2. Last(TopicOf[h]) \in Plain(OnTheWay)
    BY <2>1 DEF Plain, Last, LastOver
  <2> QED
    BY <1>2, <2>2
<1>4. CalledWithLast(h) => CalledWithLast(h)'
  BY <1>1 DEF CalledWithLast
<1> QED
  BY <1>1, <1>3, <1>4 DEF OnItsWay, Last

LEMMA PublishPutsLast ==
    ASSUME TypeOK, NEW t \in Topics, Publish(t), t \in subs, NEW h \in Handlers, TopicOf[h] = t
    PROVE  OnItsWay(h)'
<1>1. sent'[t] = sent[t] + 1 /\ UNCHANGED <<link, links>>
  BY PublishIs DEF Publish, TypeOK, clientVars, linkVars
<1>2. CASE link = "up"
  <2>1. inbox' = inbox \cup Over(links, {Published(t)})
    BY <1>2, PublishIs DEF Deliverable
  <2>2. LastOver(links, t)' \in inbox'
    BY <1>1, <2>1 DEF Over, Published, LastOver
  <2> QED
    BY <1>1, <1>2, <2>2 DEF OnItsWay
<1>3. CASE link # "up"
  <2>1. kept' = kept \cup {Published(t)}
    BY <1>3, PublishIs
  <2>2. Last(t)' \in kept'
    BY <1>1, <2>1 DEF Published, Last
  <2> QED
    BY <2>2 DEF OnItsWay
<1> QED
  BY <1>2, <1>3

LEMMA PublishKeepsLast ==
    ASSUME TypeOK, NEW t \in Topics, Publish(t), NEW h \in Handlers, TopicOf[h] # t, OnItsWay(h)
    PROVE  OnItsWay(h)'
<1>1. sent'[TopicOf[h]] = sent[TopicOf[h]]
  BY ConstantsAssumption, PublishIs
<1>2. inbox \subseteq inbox' /\ kept \subseteq kept' /\ UNCHANGED <<link, links, owner, made, calls, heard>>
  BY PublishIs DEF Publish, clientVars, linkVars
<1> QED
  BY <1>1, <1>2 DEF OnItsWay, CalledWithLast, Last, LastOver

LEMMA DispatchKeepsLast ==
    ASSUME TypeOK, NEW m \in inbox, Dispatch(m), NEW h \in Handlers, OnItsWay(h),
           TopicOf[h] \in routes[made], h \in handlers[TopicOf[h]]
    PROVE  OnItsWay(h)'
<1>1. /\ inbox' = inbox \ {m} /\ calls' = calls \cup Added(m)
      /\ UNCHANGED <<link, links, owner, made, sent, kept, heard>>
  BY DEF Dispatch, Added, clientVars, linkVars, brokerVars
<1>2. CalledWithLast(h) => CalledWithLast(h)'
  BY <1>1 DEF CalledWithLast
<1>3. ASSUME link = "up", m = LastOver(links, TopicOf[h]) PROVE CalledWithLast(h)'
  <2>1. owner[m.over] = made /\ m.topic = TopicOf[h] /\ m.number = sent[TopicOf[h]]
    BY <1>3 DEF LastOver, TypeOK
  <2>2. [handler |-> h, number |-> m.number, over |-> m.over] \in Added(m)
    BY <2>1 DEF Added, Called
  <2> QED
    BY <1>1, <2>1, <2>2 DEF CalledWithLast
<1> QED
  BY <1>1, <1>2, <1>3 DEF OnItsWay, Last, LastOver

LEMMA CallHandlerKeepsLast ==
    ASSUME TypeOK, OrderInv, NEW c \in calls, CallHandler(c), NEW h \in Handlers, OnItsWay(h)
    PROVE  OnItsWay(h)'
<1>1. calls' = calls \ {c} /\ UNCHANGED <<link, links, owner, made, sent, inbox, kept>>
  BY DEF CallHandler, clientVars, linkVars, brokerVars
<1>2. CASE c.handler = h /\ c.number = sent[TopicOf[h]]
  BY <1>1, <1>2, CallFacts, CalledIs DEF OnItsWay
<1>3. CASE ~(c.handler = h /\ c.number = sent[TopicOf[h]])
  <2>1. CalledWithLast(h) => CalledWithLast(h)'
    BY <1>1, <1>3 DEF CalledWithLast
  <2>2. ASSUME NEW l \in Links, heard[h][l] = sent[TopicOf[h]]
        PROVE  heard'[h][l] = sent[TopicOf[h]]
    <3>1. CASE h = c.handler /\ l = c.over
      <4>1. heard[h][l] <= c.number /\ c.number <= sent[TopicOf[h]]
        BY <3>1 DEF OrderInv, CallsInOrder
      <4>2. c.number \in Nat /\ sent[TopicOf[h]] \in Nat
        BY CallFacts, HeardFacts
      <4>3. heard'[h][l] = c.number
        BY <3>1, CalledIs
      <4> QED
        BY <2>2, <4>1, <4>2, <4>3
    <3>2. CASE ~(h = c.handler /\ l = c.over)
      BY <2>2, <3>2, CalledIs
    <3> QED
      BY <3>1, <3>2
  <2> QED
    BY <1>1, <2>1, <2>2 DEF OnItsWay, Last, LastOver
<1> QED
  BY <1>2, <1>3

LEMMA LastStep ==
    ASSUME TypeOK, OrderInv, DeliveryInv, [Next]_vars,
           NEW h \in Handlers, Lasting(h)', since'[h].number < sent'[TopicOf[h]]
    PROVE  OnItsWay(h)'
<1> DEFINE t == TopicOf[h]
<1>0. t \in Topics /\ sent[t] \in Nat
  BY ConstantsAssumption DEF TypeOK
<1>1. CASE SubscribeReturns(h)
  <2>1. since'[h].number \in Nat /\ since'[h].number = sent'[t]
    BY <1>0, <1>1, Subscribed DEF SubscribeReturns
  <2> QED
    BY <2>1
<1> SUFFICES ASSUME ~SubscribeReturns(h) PROVE OnItsWay(h)'
  BY <1>1
<1>2. Lasting(h) /\ since'[h] = since[h]
  BY LastedBefore
<1>3. t \in routes[made] /\ t \in subs /\ (clean => link = "up") /\ h \in handlers[t]
  BY <1>2 DEF DeliveryInv, SessionHolds, Lasting
<1>4. sent'[t] = sent[t] => OnItsWay(h)
  BY <1>2 DEF DeliveryInv, LastIsOnItsWay
<1>5. ASSUME UNCHANGED <<link, links, owner, made, sent, inbox, kept, calls, heard>>
      PROVE  OnItsWay(h)'
  BY <1>4, <1>5, OnItsWaySame
<1>6. ASSUME session' = session + 1, since' = since PROVE FALSE
  BY <1>6 DEF Lasting, TypeOK
<1>7. CASE LinkUp
  BY <1>3, <1>4, <1>7, LinkUpKeepsLast DEF LinkUp
<1>8. CASE LinkLost
  <2>1. ~clean
    BY <1>6, <1>8 DEF LinkLost, callVars
  <2> QED
    BY <1>4, <1>8, <2>1, LinkLostKeepsLast DEF LinkLost
<1>9. CASE Connect \/ Disconnect
  BY <1>6, <1>9 DEF Connect, Disconnect, callVars
<1>10. ASSUME NEW g \in Handlers, Subscribe(g) \/ SubscribeReturns(g) \/ SubscribeFails(g)
       PROVE  OnItsWay(h)'
  BY <1>5, <1>10
     DEF Subscribe, SubscribeReturns, SubscribeFails, clientVars, linkVars, brokerVars, deliveryVars
<1>11. ASSUME NEW u \in Topics, Unsubscribe(u) \/ UnsubscribeEnds(u) PROVE OnItsWay(h)'
  BY <1>5, <1>11 DEF Unsubscribe, UnsubscribeEnds, clientVars, linkVars, brokerVars, deliveryVars
<1>12. ASSUME NEW u \in Topics, Publish(u) PROVE OnItsWay(h)'
  <2>1. u # t => sent'[t] = sent[t]
    BY <1>0, <1>12, PublishIs
  <2> QED
    BY <1>3, <1>4, <1>12, <2>1, PublishPutsLast, PublishKeepsLast
<1>13. ASSUME NEW m \in inbox, Dispatch(m) PROVE OnItsWay(h)'
  BY <1>3, <1>4, <1>13, DispatchKeepsLast DEF Dispatch, brokerVars
<1>14. ASSUME NEW c \in calls, CallHandler(c) PROVE OnItsWay(h)'
  BY <1>4, <1>14, CallHandlerKeepsLast DEF CallHandler, brokerVars
<1>15. CASE UNCHANGED vars
  BY <1>5, <1>15 DEF vars, clientVars, linkVars, brokerVars, deliveryVars
<1> QED
  BY <1>7, <1>8, <1>9, <1>10, <1>11, <1>12, <1>13, <1>14, <1>15 DEF Next

-----------------------------------------------------------------------------
(* The invariant.                                                          *)

LEMMA Invariance == Spec => []IInv
<1>1. Init => IInv
  BY TypeInit, OrderInit, SilenceInit, DeliveryInit DEF IInv
<1>2. IInv /\ [Next]_vars => IInv'
  <2> SUFFICES ASSUME IInv, [Next]_vars PROVE IInv'
    OBVIOUS
  <2>1. TypeOK' /\ OrderInv' /\ SilenceInv'
    BY TypeStep, OrderStep, SilenceStep DEF IInv
  <2>2. SessionHolds'
    BY SessionStep DEF IInv, SessionHolds
  <2>3. LastIsOnItsWay'
    BY LastStep DEF IInv, LastIsOnItsWay
  <2> QED
    BY <2>1, <2>2, <2>3, ContestsStep DEF IInv, DeliveryInv
<1> QED
  BY <1>1, <1>2, PTL DEF Spec

(***************************************************************************)
(* The state has its type: the messages under way and the calls to be made *)
(* name handlers, topics and links of the client, and messages are passed  *)
(* on, or kept, only while the link is up, or is not (c.handlers, and the  *)
(* paho library's and the broker's queues).                                *)
(***************************************************************************)
THEOREM TypeCorrect == Spec => []TypeOK
<1>1. IInv => TypeOK
  BY DEF IInv
<1> QED
  BY <1>1, Invariance, PTL

(***************************************************************************)
(* No handler is called with a message that was published after            *)
(* Unsubscribe has taken it out of c.handlers, however much the broker     *)
(* still delivers or sends again, over whatever link.                      *)
(***************************************************************************)
THEOREM UnsubscribedSilent == Spec => []UnsubscribedIsSilent
<1>1. IInv => UnsubscribedIsSilent
  BY DEF IInv, SilenceInv
<1> QED
  BY <1>1, Invariance, PTL

(***************************************************************************)
(* What Subscribe reported holds as long as the session: when nothing is   *)
(* under way any more, a handler has heard the last message of its topic,  *)
(* for any number of lost links, and of calls for the same topic.          *)
(***************************************************************************)
THEOREM HeardWhileLasting == Spec => []HeardWhileSessionLasts
<1>1. IInv => HeardWhileSessionLasts
  <2> SUFFICES ASSUME IInv, Quiet, NEW t \in Topics, NEW h \in handlers[t] \ contested,
                      spc[h] = "subscribed", since[h].session = session,
                      since[h].number < sent[t]
               PROVE  \E l \in Links : heard[h][l] = sent[t]
    BY DEF HeardWhileSessionLasts
  <2>1. h \in Handlers /\ TopicOf[h] = t
    BY DEF IInv, TypeOK
  <2>2. OnItsWay(h)
    BY <2>1 DEF IInv, DeliveryInv, LastIsOnItsWay, Lasting
  <2>3. kept = {} /\ owner[links] = made
    BY DEF Quiet, IInv, TypeOK
  <2>4. LastOver(links, t) \notin inbox /\ ~CalledWithLast(h)
    BY <2>1, <2>3 DEF Quiet, LastOver, CalledWithLast
  <2> QED
    BY <2>1, <2>2, <2>3, <2>4 DEF OnItsWay
<1> QED
  BY <1>1, Invariance, PTL

(***************************************************************************)
(* Of what comes over one link, a handler hears the messages of its topic  *)
(* in the order in which they were published, each at most once, for any   *)
(* number of links, of paho clients whose loops run side by side, and of   *)
(* messages that come again over later links: MqttMessages implements      *)
(* LossyDelivery, for each handler and link.                               *)
(***************************************************************************)
THEOREM LinkHeardOrdered == Spec => LinkHeardInOrder
<1> DEFINE P == Handlers \X Links
           Sent == [p \in P |-> sent[TopicOf[p[1]]]]
           Received == [p \in P |-> heard[p[1]][p[2]]]
<1>1. Init => D!Init
  <2> SUFFICES ASSUME Init PROVE D!Init
    OBVIOUS
  <2>1. \A p \in P : p[1] \in Handlers /\ p[2] \in Links /\ TopicOf[p[1]] \in Topics
    BY ConstantsAssumption
  <2>2. \A p \in P : sent[TopicOf[p[1]]] = 0 /\ heard[p[1]][p[2]] = 0
    BY <2>1 DEF Init
  <2> QED
    BY <2>2 DEF D!Init
<1>2. IInv /\ [Next]_vars => [D!Next]_(D!vars)
  <2> SUFFICES ASSUME IInv, [Next]_vars PROVE D!Next \/ UNCHANGED D!vars
    OBVIOUS
  <2>1. ASSUME UNCHANGED <<sent, heard>> PROVE UNCHANGED D!vars
    BY <2>1 DEF D!vars
  <2>2. CASE Connect \/ LinkUp \/ LinkLost \/ Disconnect \/ (\E m \in inbox : Dispatch(m))
             \/ UNCHANGED vars
    BY <2>1, <2>2 DEF Connect, LinkUp, LinkLost, Disconnect, Dispatch, vars, brokerVars,
       deliveryVars
  <2>3. ASSUME NEW h \in Handlers, Subscribe(h) \/ SubscribeReturns(h) \/ SubscribeFails(h)
        PROVE  UNCHANGED D!vars
    BY <2>1, <2>3 DEF Subscribe, SubscribeReturns, SubscribeFails, brokerVars, deliveryVars
  <2>4. ASSUME NEW t \in Topics, Unsubscribe(t) \/ UnsubscribeEnds(t) PROVE UNCHANGED D!vars
    BY <2>1, <2>4 DEF Unsubscribe, UnsubscribeEnds, brokerVars, deliveryVars
  <2>5. ASSUME NEW t \in Topics, Publish(t) PROVE D!Next
    <3> DEFINE W == {p \in P : TopicOf[p[1]] = t}
    <3>1. heard' = heard /\ sent' = [sent EXCEPT ![t] = sent[t] + 1] /\ sent \in [Topics -> Nat]
      BY <2>5, PublishIs, SentIs DEF Publish, IInv
    <3>2. \A p \in P : sent'[TopicOf[p[1]]] = IF p \in W THEN Sent[p] + 1 ELSE Sent[p]
      BY <3>1, ConstantsAssumption
    <3>3. W \in SUBSET P
      OBVIOUS
    <3> HIDE DEF W
    <3>4. Sent' = [w \in P |-> IF w \in W THEN Sent[w] + 1 ELSE Sent[w]]
      BY <3>2
    <3>5. D!Send
      BY <3>1, <3>3, <3>4 DEF D!Send
    <3> QED
      BY <3>5 DEF D!Next
  <2>6. ASSUME NEW c \in calls, CallHandler(c) PROVE D!Next
    <3>1. sent' = sent /\ c.number \in Nat
      BY <2>6, CallFacts DEF CallHandler, brokerVars, IInv
    <3>2. c.number <= sent[TopicOf[c.handler]] /\ heard[c.handler][c.over] <= c.number
      BY DEF IInv, OrderInv, CallsInOrder
    <3>3. ASSUME NEW p \in P
          PROVE  /\ heard'[p[1]][p[2]] \in Nat /\ heard[p[1]][p[2]] <= heard'[p[1]][p[2]]
                 /\ heard'[p[1]][p[2]] <= sent[TopicOf[p[1]]]
      <4>1. p[1] \in Handlers /\ p[2] \in Links
        OBVIOUS
      <4>2. heard'[p[1]][p[2]] =
               IF p[1] = c.handler /\ p[2] = c.over THEN c.number ELSE heard[p[1]][p[2]]
        BY <2>6, <4>1, CalledIs DEF IInv
      <4>3. heard[p[1]][p[2]] \in Nat /\ heard[p[1]][p[2]] <= sent[TopicOf[p[1]]]
        BY <4>1, HeardFacts, ConstantsAssumption DEF IInv, OrderInv, HeardWasSent
      <4> QED
        BY <3>1, <3>2, <4>2, <4>3
    <3>4. Received' \in [P -> Nat]
          /\ \A p \in P : Received[p] <= Received'[p] /\ Received'[p] <= Sent[p]
      BY <3>3
    <3> QED
      BY <3>1, <3>4 DEF D!Next, D!Receive
  <2> QED
    BY <2>2, <2>3, <2>4, <2>5, <2>6 DEF Next
<1> QED
  BY <1>1, <1>2, Invariance, PTL DEF Spec, LinkHeardInOrder, D!Spec
=============================================================================
