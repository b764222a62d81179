---------------------------- MODULE MqttMessages ----------------------------
(***************************************************************************)
(* How messages get from the broker to the handlers of pkg/mqtt/client.go. *)
(* Subscribe and Unsubscribe change c.handlers under c.mu, release it, and *)
(* then ask the broker; the callback they give the paho library looks the  *)
(* handlers of a message's topic up when the message comes.                *)
(*                                                                         *)
(* The library passes one message after the other to the callback of its   *)
(* topic, if it has one.  A broker keeps the subscriptions of a session,   *)
(* and the messages whose acknowledgement it has not got, while the link is*)
(* lost, unless CleanSession is set (QoS 1, which Sparkplug's subscriptions*)
(* have), and sends them again over the next link.  A paho client that was *)
(* disconnected gets no more messages, but its loop goes on with those it  *)
(* has read, beside the loop of the next one.  A paho client overwritten   *)
(* while it dials is the subject of MqttClient.  Messages are published    *)
(* without the retain flag.                                                *)
(***************************************************************************)
EXTENDS Naturals

CONSTANTS
    Topics,          \* topics without wildcards, which are their own filters
    Handlers,        \* the handlers given to Subscribe, one per call
    TopicOf,         \* TopicOf[h]: the topic that h is subscribed to
    MaxLinks,        \* bound: links to the broker, of one paho client or several
    MaxUnsubscribes, \* bound: calls of Unsubscribe
    MaxMessages      \* bound: messages published on a topic

ASSUME ConstantsAssumption ==
    /\ TopicOf \in [Handlers -> Topics]
    /\ MaxLinks \in Nat /\ MaxUnsubscribes \in Nat /\ MaxMessages \in Nat

VARIABLES
    clean,     \* config.CleanSession
    link,      \* the paho client in c.client: "none", "dialling" or "up"
    made,      \* how many paho clients there were
    links,     \* how many links to the broker there were
    owner,     \* owner[l]: the paho client that had the l-th of them
    routes,    \* routes[n]: the topics for which the n-th client has a callback
    handlers,  \* c.handlers
    spc,       \* spc[h]: how far the call of Subscribe for h is
    via,       \* via[h]: the paho client that it found, 0 for none
    upc,       \* upc[t]: how far the call of Unsubscribe for t is
    uvia,      \* uvia[t]: the paho client that it found, 0 for none
    subs,      \* the topics that the broker has in the session
    sent,      \* sent[t]: how many messages were published on t
    kept,      \* the messages that the broker keeps for the session
    delivered, \* those that the library has passed on over the present link
    inbox,     \* the messages on their way to the callback, each over its link
    calls,     \* the calls of handlers that are to be made for a message
    heard,     \* heard[h][l]: the last message of the l-th link h was called with
    session,   \* how many sessions, and sets of callbacks, there were
    since,     \* since[h]: session and messages when Subscribe returned
    removed,   \* removed[h]: the messages when Unsubscribe removed h
    contested, \* h was subscribed while its topic was unsubscribed
    drops,     \* how many links were lost
    unsubscribes \* the count bounded above

Links == 1 .. MaxLinks
Clients == Links

linkVars == <<links, owner>>
clientVars == <<clean, link, made, linkVars, routes, session, drops>>
callVars == <<spc, via, upc, uvia, since, removed, contested, unsubscribes>>
brokerVars == <<subs, sent, kept>>
deliveryVars == <<delivered, inbox, calls, heard>>
vars == <<clientVars, handlers, callVars, brokerVars, deliveryVars>>

Init ==
    /\ clean \in BOOLEAN
    /\ link = "none" /\ made = 0 /\ session = 0 /\ drops = 0
    /\ links = 0 /\ owner = [l \in Links |-> 0]
    /\ routes = [n \in Clients |-> {}]
    /\ handlers = [t \in Topics |-> {}]
    /\ spc = [h \in Handlers |-> "new"] /\ via = [h \in Handlers |-> 0]
    /\ upc = [t \in Topics |-> "idle"] /\ uvia = [t \in Topics |-> 0] /\ unsubscribes = 0
    /\ subs = {} /\ sent = [t \in Topics |-> 0] /\ kept = {}
    /\ delivered = {} /\ inbox = {} /\ calls = {}
    /\ heard = [h \in Handlers |-> [l \in Links |-> 0]]
    /\ since = [h \in Handlers |-> [session |-> 0, number |-> 0]]
    /\ removed = [h \in Handlers |-> MaxMessages]
    /\ contested = {}

-----------------------------------------------------------------------------
(* The link.                                                               *)

Connect ==
    /\ link = "none" /\ made + drops < MaxLinks
    /\ made' = made + 1
    /\ link' = "dialling"
    /\ session' = session + 1
    /\ UNCHANGED <<clean, linkVars, routes, drops, handlers, callVars, brokerVars, deliveryVars>>

\* Mutated form: every session is a clean one.
AlwaysFresh == TRUE
Fresh == clean

Over(l, messages) == {[topic |-> m.topic, number |-> m.number, over |-> l] : m \in messages}

LinkUp ==
    /\ link = "dialling"
    /\ link' = "up"
    /\ links' = links + 1
    /\ owner' = [owner EXCEPT ![links'] = made]
    /\ subs' = IF Fresh THEN {} ELSE subs
    /\ inbox' = inbox \cup (IF Fresh THEN {} ELSE Over(links', kept))
    /\ kept' = {}
    /\ UNCHANGED <<clean, made, routes, session, drops, handlers, callVars, sent, delivered,
                   calls, heard>>

\* The broker sends again what was under way, and of what was passed on
\* whatever was not acknowledged, or whose acknowledgement was lost.
OnTheWay == {m \in inbox : m.over = links}
Plain(messages) == {[topic |-> m.topic, number |-> m.number] : m \in messages}
Unacknowledged == {Plain(OnTheWay) \cup lost : lost \in SUBSET delivered}

\* The library's loop may go on with what it has read.
LinkEnds ==
    /\ inbox' \in {inbox \ unread : unread \in SUBSET OnTheWay}
    /\ kept' \in IF clean THEN {{}} ELSE Unacknowledged
    /\ delivered' = {}

LinkLost ==
    /\ link = "up" /\ made + drops < MaxLinks
    /\ drops' = drops + 1
    /\ link' = "dialling"
    /\ LinkEnds
    /\ session' = IF clean THEN session + 1 ELSE session
    /\ UNCHANGED <<clean, made, linkVars, routes, handlers, callVars, subs, sent, calls, heard>>

Disconnect ==
    /\ link # "none"
    /\ link' = "none"
    /\ IF link = "up" THEN LinkEnds ELSE UNCHANGED <<inbox, kept, delivered>>
    /\ session' = session + 1
    /\ UNCHANGED <<clean, made, linkVars, routes, drops, handlers, callVars, subs, sent, calls,
                   heard>>

-----------------------------------------------------------------------------
(* Subscribe and Unsubscribe.                                              *)

Found == IF link = "none" THEN 0 ELSE made

\* Up to the unlock.
Subscribe(h) ==
    /\ spc[h] = "new"
    /\ spc' = [spc EXCEPT ![h] = "registered"]
    /\ via' = [via EXCEPT ![h] = Found]
    /\ handlers' = [handlers EXCEPT ![TopicOf[h]] = @ \cup {h}]
    /\ contested' = IF upc[TopicOf[h]] = "idle" THEN contested ELSE contested \cup {h}
    /\ UNCHANGED <<clientVars, upc, uvia, since, removed, unsubscribes, brokerVars, deliveryVars>>

Reached(n) == link = "up" /\ n = made

Routed(t) == [routes EXCEPT ![made] = @ \cup {t}]

SubscribeReturns(h) ==
    /\ spc[h] = "registered"
    /\ Reached(via[h])
    /\ spc' = [spc EXCEPT ![h] = "subscribed"] /\ via' = [via EXCEPT ![h] = 0]
    /\ routes' = Routed(TopicOf[h])
    /\ subs' = subs \cup {TopicOf[h]}
    /\ since' = [since EXCEPT ![h] = [session |-> session, number |-> sent[TopicOf[h]]]]
    /\ UNCHANGED <<clean, link, made, linkVars, session, drops, handlers, upc, uvia, removed,
                   contested, unsubscribes, sent, kept, deliveryVars>>

\* Not connected, or the broker's answer does not come in time.
SubscribeFails(h) ==
    /\ spc[h] = "registered"
    /\ spc' = [spc EXCEPT ![h] = "failed"] /\ via' = [via EXCEPT ![h] = 0]
    /\ \/ ~Reached(via[h]) /\ UNCHANGED <<routes, subs>>
       \/ Reached(via[h]) /\ routes' = Routed(TopicOf[h])
                          /\ subs' \in {subs, subs \cup {TopicOf[h]}}
    /\ UNCHANGED <<clean, link, made, linkVars, session, drops, handlers, upc, uvia, since, removed,
                   contested, unsubscribes, sent, kept, deliveryVars>>

\* Mutated form: the handlers stay.
StillRegistered(t) == handlers[t]
NobodyRegistered(t) == {}

Unsubscribe(t) ==
    /\ upc[t] = "idle" /\ unsubscribes < MaxUnsubscribes
    /\ unsubscribes' = unsubscribes + 1
    /\ upc' = [upc EXCEPT ![t] = "removed"]
    /\ uvia' = [uvia EXCEPT ![t] = Found]
    /\ handlers' = [handlers EXCEPT ![t] = NobodyRegistered(t)]
    /\ removed' = [h \in Handlers |-> IF h \in handlers[t] THEN sent[t] ELSE removed[h]]
    /\ UNCHANGED <<clientVars, spc, via, since, contested, brokerVars, deliveryVars>>

\* The library drops the callback; the broker's answer is not waited for.
UnsubscribeEnds(t) ==
    /\ upc[t] = "removed"
    /\ upc' = [upc EXCEPT ![t] = "idle"] /\ uvia' = [uvia EXCEPT ![t] = 0]
    /\ IF Reached(uvia[t])
       THEN routes' = [routes EXCEPT ![made] = @ \ {t}] /\ subs' \in {subs, subs \ {t}}
       ELSE UNCHANGED <<routes, subs>>
    /\ UNCHANGED <<clean, link, made, linkVars, session, drops, handlers, spc, via, since, removed,
                   contested, unsubscribes, sent, kept, deliveryVars>>

-----------------------------------------------------------------------------
(* Messages.                                                               *)

Deliverable(t) == link = "up" /\ t \in subs

Publish(t) ==
    /\ sent[t] < MaxMessages
    /\ sent' = [sent EXCEPT ![t] = @ + 1]
    /\ LET message == [topic |-> t, number |-> sent'[t]]
       IN  /\ inbox' = IF Deliverable(t) THEN inbox \cup Over(links, {message}) ELSE inbox
           /\ kept' = IF link # "up" /\ t \in subs THEN kept \cup {message} ELSE kept
    /\ UNCHANGED <<clientVars, handlers, callVars, subs, delivered, calls, heard>>

\* Mutated form: handlers are called in goroutines of their own.
NobodyWaits(n) == TRUE
HandlersHaveReturned(n) == \A c \in calls : owner[c.over] # n

\* The loop of a paho client takes the messages link by link, and those of a
\* topic in the order of the broker.
InTurn(m) ==
    \A x \in inbox \ {m} :
        owner[x.over] = owner[m.over] =>
            /\ m.over <= x.over
            /\ m.over = x.over /\ m.topic = x.topic => m.number < x.number

\* The callback looks up the handlers, or there is none and the message is lost.
Called(m) == IF m.topic \in routes[owner[m.over]] THEN handlers[m.topic] ELSE {}

Dispatch(m) ==
    /\ HandlersHaveReturned(owner[m.over]) /\ InTurn(m)
    /\ inbox' = inbox \ {m}
    /\ delivered' = IF link = "up" /\ m.over = links THEN delivered \cup Plain({m}) ELSE delivered
    /\ calls' = calls \cup
          {[handler |-> h, number |-> m.number, over |-> m.over] : h \in Called(m)}
    /\ UNCHANGED <<clientVars, handlers, callVars, brokerVars, heard>>

CallHandler(c) ==
    /\ heard' = [heard EXCEPT ![c.handler][c.over] = c.number]
    /\ calls' = calls \ {c}
    /\ UNCHANGED <<clientVars, handlers, callVars, brokerVars, delivered, inbox>>

-----------------------------------------------------------------------------
Next ==
    \/ Connect \/ LinkUp \/ LinkLost \/ Disconnect
    \/ \E h \in Handlers : Subscribe(h) \/ SubscribeReturns(h) \/ SubscribeFails(h)
    \/ \E t \in Topics : Unsubscribe(t) \/ UnsubscribeEnds(t) \/ Publish(t)
    \/ \E m \in inbox : Dispatch(m)
    \/ \E c \in calls : CallHandler(c)

Spec == Init /\ [][Next]_vars

-----------------------------------------------------------------------------
Messages == [topic : Topics, number : 1 .. MaxMessages]
Items == [topic : Topics, number : 1 .. MaxMessages, over : Links]
Calls == [handler : Handlers, number : 1 .. MaxMessages, over : Links]

(***************************************************************************)
(* Type correctness, with what the parts of the state say of each other:   *)
(* only called handlers are registered, each with its topic; messages are  *)
(* passed on while the link is up, and kept while it is not.               *)
(***************************************************************************)
TypeOK ==
    /\ clean \in BOOLEAN
    /\ link \in {"none", "dialling", "up"}
    /\ made \in Nat /\ drops \in Nat /\ made + drops <= MaxLinks
    /\ links \in 0 .. made + drops /\ owner \in [Links -> 0 .. made]
    /\ (link = "up" => made > 0 /\ links > 0 /\ owner[links] = made)
    /\ (link = "dialling" => made > 0 /\ links < made + drops)
    /\ routes \in [Clients -> SUBSET Topics] /\ subs \subseteq Topics
    /\ handlers \in [Topics -> SUBSET Handlers]
    /\ \A t \in Topics : \A h \in handlers[t] : TopicOf[h] = t /\ spc[h] # "new"
    /\ spc \in [Handlers -> {"new", "registered", "subscribed", "failed"}]
    /\ via \in [Handlers -> 0 .. made]
    /\ upc \in [Topics -> {"idle", "removed"}] /\ uvia \in [Topics -> 0 .. made]
    /\ sent \in [Topics -> 0 .. MaxMessages]
    /\ inbox \subseteq Items /\ calls \subseteq Calls
    /\ kept \subseteq Messages /\ delivered \subseteq Messages
    /\ (link = "up" => kept = {}) /\ (link # "up" => delivered = {})
    /\ heard \in [Handlers -> [Links -> 0 .. MaxMessages]]
    /\ removed \in [Handlers -> 0 .. MaxMessages]
    /\ session \in Nat
    /\ since \in [Handlers -> [session : 0 .. session, number : 0 .. MaxMessages]]
    /\ contested \subseteq Handlers
    /\ unsubscribes \in 0 .. MaxUnsubscribes

(***************************************************************************)
(* A subscription that Subscribe has reported holds as long as the session:*)
(* when no message is under way its handler was called with the last one,  *)
(* also with those published while the link was lost, if the session is    *)
(* not a clean one; whoever else subscribes to the topic, with or without  *)
(* success.  It does not hold if the topic was being unsubscribed at the   *)
(* same time: the broker may get the two requests in the other order.      *)
(***************************************************************************)
Quiet ==
    /\ link = "up"
    /\ \A x \in inbox \cup calls : owner[x.over] # made

HeardWhileSessionLasts ==
    Quiet => \A t \in Topics : \A h \in handlers[t] \ contested :
        (spc[h] = "subscribed" /\ since[h].session = session /\ since[h].number < sent[t])
            => \E l \in Links : heard[h][l] = sent[t]

(***************************************************************************)
(* A handler is not called with what was published after Unsubscribe has   *)
(* removed it, although the broker's messages go on for a while, and are   *)
(* sent again to a client that subscribes anew.                            *)
(***************************************************************************)
UnsubscribedIsSilent == \A h \in Handlers : \A l \in Links : heard[h][l] <= removed[h]

(***************************************************************************)
(* Of what comes over one link a handler hears the messages of its topic in*)
(* the order in which they were published, each at most once, while other  *)
(* links are lost and made, the loops of older clients still call it, and  *)
(* handlers come and go: the promise of LossyDelivery, for each handler and*)
(* link.  Over the next link older messages may come again, since their    *)
(* acknowledgements may have been lost.                                    *)
(***************************************************************************)
D == INSTANCE LossyDelivery WITH
    Senders <- Handlers \X Links,
    sent <- [p \in Handlers \X Links |-> sent[TopicOf[p[1]]]],
    received <- [p \in Handlers \X Links |-> heard[p[1]][p[2]]]

LinkHeardInOrder == D!Spec
=============================================================================
