--------------------------- MODULE GraphQLUpdates ---------------------------
(***************************************************************************)
(* What the GraphQL server of pkg/graphql/schema.go shows of the variables:*)
(* the snapshots that publishUpdates takes every second and publishes to   *)
(* the channels of PubSub, and the answers of handleGraphQL.               *)
(*                                                                         *)
(* PLC.ToJSON and buildPLCResponse read one variable after the other, in   *)
(* the order of a map, each under the variable's own lock: writers come in *)
(* between, and what is read is no state the variables ever had together.  *)
(* Configuration and tasks, which are shown too, are left out.             *)
(***************************************************************************)
EXTENDS Naturals, Sequences

CONSTANTS
    Vars,        \* the variables
    Publishers,  \* the publishUpdates goroutines: one per call of Start
    Requests,    \* the requests to /graphql that are handled
    Ids,         \* the ids given to Subscribe
    ChanCap,     \* capacity of a subscriber's channel (10 in the code)
    MaxChannels, \* bound: calls of Subscribe
    MaxWrites,   \* bound: how many values a variable is given
    Unencodable, \* the values that json.Marshal refuses, such as NaN
    Nothing      \* a request with no setValue

ASSUME ConstantsAssumption ==
    /\ ChanCap \in Nat \ {0} /\ MaxChannels \in Nat /\ MaxWrites \in Nat
    /\ Unencodable \subseteq Vars \X Nat
    /\ Publishers \cap Requests = {}
    /\ Nothing \notin Vars

VARIABLES
    version,     \* version[v]: v has its n-th value
    subscribers, \* ps.subscribers: the number of the channel of an id, or 0
    chanId,      \* chanId[c]: the id for which channel c was made
    chan,        \* chan[c]: "unused", "open" or "closed"
    queue,       \* queue[c]: the snapshots in channel c
    shown,       \* shown[c]: the last snapshot taken out of it
    pc,          \* pc[s]: where goroutine s is
    todo,        \* todo[s]: the variables it has still to read
    last,        \* last[s][v]: the value of v that it has read last
    target,      \* target[r]: the variable that request r sets
    floor        \* floor[r][v]: a value of v that the answer to r must have seen

pubsubVars == <<subscribers, chanId, chan, queue, shown>>
scanVars == <<pc, todo, last>>
requestVars == <<target, floor>>
vars == <<version, pubsubVars, scanVars, requestVars>>

Channels == 1 .. MaxChannels
Scanners == Publishers \cup Requests
Snapshots == [Vars -> Nat]
Defaults == [v \in Vars |-> 0]

Init ==
    /\ version = Defaults
    /\ subscribers = [i \in Ids |-> 0]
    /\ chanId = <<>>
    /\ chan = [c \in Channels |-> "unused"]
    /\ queue = [c \in Channels |-> <<>>]
    /\ shown = [c \in Channels |-> Defaults]
    /\ pc = [s \in Scanners |-> "waiting"]
    /\ todo = [s \in Scanners |-> {}]
    /\ last = [s \in Scanners |-> Defaults]
    /\ target = [r \in Requests |-> Nothing]
    /\ floor = [r \in Requests |-> Defaults]

\* Task programs and the application write.
Write(v) ==
    /\ version[v] < MaxWrites
    /\ version' = [version EXCEPT ![v] = @ + 1]
    /\ UNCHANGED <<pubsubVars, scanVars, requestVars>>

-----------------------------------------------------------------------------
(* PubSub: each of its methods holds ps.mu from beginning to end.          *)

Subscribe(i) ==
    /\ Len(chanId) < MaxChannels
    /\ chanId' = Append(chanId, i)
    /\ chan' = [chan EXCEPT ![Len(chanId')] = "open"]
    /\ subscribers' = [subscribers EXCEPT ![i] = Len(chanId')]
    /\ UNCHANGED <<version, queue, shown, scanVars, requestVars>>

\* Mutated form: the channel is closed, but stays in the map.
Kept(i) == subscribers
Deleted(i) == [subscribers EXCEPT ![i] = 0]

Unsubscribe(i) ==
    /\ subscribers[i] # 0
    /\ chan' = [chan EXCEPT ![subscribers[i]] = "closed"]
    /\ subscribers' = Deleted(i)
    /\ UNCHANGED <<version, chanId, queue, shown, scanVars, requestVars>>

Subscribed(c) == \E i \in Ids : subscribers[i] = c

\* Mutated form: a snapshot overtakes those that wait.
Pushed(c, data) == <<data>> \o queue[c]
Sent(c, data) == Append(queue[c], data)

HasRoom(c) == Len(queue[c]) < ChanCap

\* "Channel full, skip": the newest snapshot is the one that is dropped.
Published(data) ==
    [c \in Channels |-> IF Subscribed(c) /\ HasRoom(c) THEN Sent(c, data) ELSE queue[c]]

\* The subscriber takes what there is, from a closed channel too.
Take(c) ==
    /\ queue[c] # <<>>
    /\ shown' = [shown EXCEPT ![c] = Head(queue[c])]
    /\ queue' = [queue EXCEPT ![c] = Tail(@)]
    /\ UNCHANGED <<version, subscribers, chanId, chan, scanVars, requestVars>>

-----------------------------------------------------------------------------
(* Reading all the variables.                                              *)

Goes(s, from, to) == pc[s] = from /\ pc' = [pc EXCEPT ![s] = to]

ReadOne(s, v) ==
    /\ v \in todo[s]
    /\ todo' = [todo EXCEPT ![s] = @ \ {v}]
    /\ last' = [last EXCEPT ![s][v] = version[v]]
    /\ UNCHANGED <<version, pubsubVars, pc, requestVars>>

AllRead(s) == todo[s] = {}

-----------------------------------------------------------------------------
(* publishUpdates, which goes on for ever, whatever becomes of the server. *)

Tick(p) ==
    /\ Goes(p, "waiting", "reading")
    /\ todo' = [todo EXCEPT ![p] = Vars]
    /\ UNCHANGED <<version, pubsubVars, last, requestVars>>

Encodable(data) == \A v \in Vars : <<v, data[v]>> \notin Unencodable

\* Mutated form: the goroutine publishes once.
PublishesOnce == "answered"
NextTick == "waiting"

Publish(p) ==
    /\ Goes(p, "reading", NextTick)
    /\ AllRead(p)
    /\ Encodable(last[p])
    /\ queue' = Published(last[p])
    /\ last' = [last EXCEPT ![p] = Defaults]
    /\ UNCHANGED <<version, subscribers, chanId, chan, shown, todo, requestVars>>

\* ToJSON fails for all the variables if it fails for one of them.
PublishFails(p) ==
    /\ Goes(p, "reading", "waiting")
    /\ AllRead(p)
    /\ ~Encodable(last[p])
    /\ last' = [last EXCEPT ![p] = Defaults]
    /\ UNCHANGED <<version, pubsubVars, todo, requestVars>>

-----------------------------------------------------------------------------
(* executeQuery: a text that mentions plc or query is answered first; then *)
(* setValue, if the text is a mutation, answers with what is read after it.*)

Arrive(r) ==
    \E asks \in BOOLEAN, t \in Vars \cup {Nothing} :
        /\ asks \/ t # Nothing
        /\ Goes(r, "waiting", "asking")
        /\ todo' = [todo EXCEPT ![r] = IF asks THEN Vars ELSE {}]
        /\ target' = [target EXCEPT ![r] = t]
        /\ floor' = [floor EXCEPT ![r] = version]
        /\ UNCHANGED <<version, pubsubVars, last>>

\* Mutated form: the answer to a mutation is the one read before it.
NothingMore == {}
Everything == Vars

SetValue(r) ==
    /\ Goes(r, "asking", "answering")
    /\ AllRead(r)
    /\ target[r] # Nothing /\ version[target[r]] < MaxWrites
    /\ version' = [version EXCEPT ![target[r]] = @ + 1]
    /\ floor' = [floor EXCEPT ![r][target[r]] = version[target[r]] + 1]
    /\ todo' = [todo EXCEPT ![r] = Everything]
    /\ UNCHANGED <<pubsubVars, last, target>>

Answers(r) ==
    /\ AllRead(r)
    /\ pc[r] = "answering" \/ (pc[r] = "asking" /\ target[r] = Nothing)

Answer(r) ==
    /\ Answers(r)
    /\ pc' = [pc EXCEPT ![r] = "answered"]
    /\ last' = [last EXCEPT ![r] = Defaults]
    /\ target' = [target EXCEPT ![r] = Nothing]
    /\ floor' = [floor EXCEPT ![r] = Defaults]
    /\ UNCHANGED <<version, pubsubVars, todo>>

-----------------------------------------------------------------------------
PublisherStep(p) ==
    Tick(p) \/ Publish(p) \/ PublishFails(p) \/ \E v \in Vars : ReadOne(p, v)

RequestStep(r) ==
    \/ Arrive(r) \/ SetValue(r) \/ Answer(r)
    \/ \E v \in Vars : ReadOne(r, v)

Next ==
    \/ \E v \in Vars : Write(v)
    \/ \E i \in Ids : Subscribe(i) \/ Unsubscribe(i)
    \/ \E c \in Channels : Take(c)
    \/ \E p \in Publishers : PublisherStep(p)
    \/ \E r \in Requests : RequestStep(r)

Spec == Init /\ [][Next]_vars

\* The ticker ticks and subscribers read their channels.
FairSpec ==
    /\ Spec
    /\ \A p \in Publishers : WF_vars(PublisherStep(p))
    /\ \A c \in Channels : WF_vars(Take(c))

-----------------------------------------------------------------------------
TypeOK ==
    /\ version \in Snapshots
    /\ chanId \in Seq(Ids) /\ Len(chanId) <= MaxChannels
    /\ subscribers \in [Ids -> 0 .. Len(chanId)]
    /\ chan \in [Channels -> {"unused", "open", "closed"}]
    /\ queue \in [Channels -> Seq(Snapshots)]
    /\ \A c \in Channels : Len(queue[c]) <= ChanCap
    /\ shown \in [Channels -> Snapshots]
    /\ pc \in [Scanners -> {"waiting", "reading", "asking", "answering",
                            "answered"}]
    /\ todo \in [Scanners -> SUBSET Vars]
    /\ last \in [Scanners -> Snapshots]
    /\ target \in [Requests -> Vars \cup {Nothing}]
    /\ floor \in [Requests -> Snapshots]

(***************************************************************************)
(* Publish never meets a closed channel, on which a send would panic, nor  *)
(* does Unsubscribe; and a channel that is open can still be closed: it is *)
(* the one in the map, unless its id was given to Subscribe again.         *)
(***************************************************************************)
MapIsOpenChannels ==
    /\ \A i \in Ids : subscribers[i] # 0 => chan[subscribers[i]] = "open"
    /\ \A c \in 1 .. Len(chanId) : chan[c] = "open" =>
          \/ subscribers[chanId[c]] = c
          \/ \E d \in c + 1 .. Len(chanId) : chanId[d] = chanId[c]

(***************************************************************************)
(* An answer is never older than its question: of every variable it shows  *)
(* a value at least as new as when the request came, and of the variable   *)
(* that a mutation has set that value or a newer one.                      *)
(***************************************************************************)
AnswersAreFresh ==
    \A r \in Requests : Answers(r) => \A v \in Vars : floor[r][v] <= last[r][v]

(***************************************************************************)
(* Every subscriber is shown, of each variable, what LossyDelivery         *)
(* promises: some of its values, in the order it had them, although        *)
(* snapshots are read piece by piece and dropped when a channel is full.   *)
(* With two publishers, after a second Start, snapshots overtake each other*)
(***************************************************************************)
D == INSTANCE LossyDelivery WITH
    Senders <- Channels \X Vars,
    sent <- [x \in Channels \X Vars |-> version[x[2]]],
    received <- [x \in Channels \X Vars |-> shown[x[1]][x[2]]]

ShownInOrder == D!Spec

(***************************************************************************)
(* A subscriber that reads its channel is not left behind: it comes to see *)
(* every value, or a newer one, even after snapshots were dropped - unless *)
(* it is gone or JSON cannot express what some variable holds.             *)
(***************************************************************************)
SubscribersCatchUp ==
    \A c \in Channels, v \in Vars, n \in 1 .. MaxWrites :
        (Subscribed(c) /\ version[v] = n)
            ~> (shown[c][v] >= n \/ ~Subscribed(c) \/ ~Encodable(version))
=============================================================================
