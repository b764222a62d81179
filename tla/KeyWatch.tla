------------------------------ MODULE KeyWatch ------------------------------
(***************************************************************************)
(* The key listener of pkg/redis/client.go: WatchKey registers a handler   *)
(* and, if there is a client and no subscription yet, subscribes to the    *)
(* keyspace notifications and starts handleKeyspaceNotifications, which    *)
(* asks for the value of a key that has changed and tells it to the        *)
(* handlers, each in a goroutine of its own.                               *)
(*                                                                         *)
(* The listener reads c.pubsub and c.stopCh without the lock.  Disconnect  *)
(* holds c.mu, but the listener sees what it does one step at a time.      *)
(* The w-th call of WatchKey has the number w, and so have its handler, its*)
(* context, the subscription it makes and the listener it starts.  There is*)
(* one key.  The retries of Connect are the subject of SourceClient: here  *)
(* anybody may connect a client that is not connected.                     *)
(***************************************************************************)
EXTENDS Naturals, Sequences

CONSTANTS
    MaxWatches,     \* bound: calls of WatchKey
    MaxConnects,    \* bound: clients made by Connect
    MaxDisconnects, \* bound: calls of Disconnect
    MaxChanges,     \* bound: changes of the key
    MaxFaults       \* bound: subscriptions that break and requests that fail

ASSUME ConstantsAssumption ==
    /\ MaxWatches \in Nat /\ MaxConnects \in Nat /\ MaxDisconnects \in Nat
    /\ MaxChanges \in Nat /\ MaxFaults \in Nat

VARIABLES
    connected,  \* c.state is "connected"
    client,     \* c.client: the number of the Connect that made it, 0 for nil
    made,       \* how many clients there are
    gone,       \* the clients that were closed
    pubsub,     \* c.pubsub, 0 for nil
    cut,        \* the subscriptions that were closed
    stopCh,     \* c.stopCh: how many were replaced before
    stopped,    \* how many stop channels were closed
    stage,      \* how far Disconnect is, which holds c.mu until it returns, or
                \* "panic": the program has panicked
    handlers,   \* c.keyHandlers of the key
    cancelled,  \* the calls of WatchKey whose context is cancelled
    listener,   \* listener[l]: where listener l is (at), the subscription that
                \* it reads (source), the stop channel that it read for its
                \* select (waitsOn), and the change that it was notified of
                \* (held), the client that it asks for the value (asks) and the
                \* handlers that it will tell (tells)
    live,       \* the subscriptions that the server knows of
    queue,      \* queue[s]: the notifications on their way to the listener
    version,    \* the key has its n-th value
    calls,      \* the handlers called, that have not run yet
    told,       \* told[h]: the newest value that handler h was told
    since,      \* since[h]: the value when h was registered
    missed,     \* the newest change for which there was no notification or no answer
    faults      \* the count bounded above

clientVars == <<connected, client, made, gone>>
stopVars == <<stopCh, stopped, stage>>
subscriptionVars == <<pubsub, cut, live, queue>>
watchVars == <<handlers, since, cancelled>>
toldVars == <<calls, told>>
keyVars == <<version, missed, faults>>
vars == <<clientVars, stopVars, subscriptionVars, listener, watchVars, toldVars, keyVars>>

Watches == 1 .. MaxWatches
Open(g) == g >= stopped
Unlocked == stage = "done"
Running == stage # "panic"
Alive(l) == listener[l].at \notin {"unused", "ended"}

NoListener ==
    [at |-> "unused", source |-> 0, waitsOn |-> 0, held |-> 0, asks |-> 0, tells |-> {}]

Ended == [NoListener EXCEPT !.at = "ended"]

\* What the listener was notified of, and will tell to whom, is over.
Idle(l) == [NoListener EXCEPT !.at = "looping", !.source = listener[l].source]

Init ==
    /\ connected = FALSE /\ client = 0 /\ made = 0 /\ gone = {}
    /\ pubsub = 0 /\ cut = {} /\ stopCh = 0 /\ stopped = 0 /\ stage = "done"
    /\ handlers = {} /\ cancelled = {}
    /\ listener = [l \in Watches |-> NoListener]
    /\ live = {} /\ queue = [s \in Watches |-> <<>>]
    /\ version = 0 /\ missed = 0
    /\ calls = {} /\ told = [h \in Watches |-> 0] /\ since = [h \in Watches |-> 0]
    /\ faults = 0

-----------------------------------------------------------------------------
(* Connect and Disconnect.                                                 *)

\* The client is made before it is known whether the server answers.
Connect ==
    /\ Unlocked
    /\ ~connected /\ made < MaxConnects
    /\ made' = made + 1
    /\ client' = made'
    /\ connected' \in BOOLEAN
    /\ UNCHANGED <<gone, stopVars, subscriptionVars, listener, watchVars, toldVars, keyVars>>

\* Nothing is ready for a listener that waits in its select.
Parked(l) ==
    /\ listener[l].at = "select" /\ Open(listener[l].waitsOn) /\ l \notin cancelled
    /\ queue[listener[l].source] = <<>> /\ listener[l].source \notin cut

\* close(c.stopCh), which settles the select of those who wait for it; a
\* second close of the same channel panics.
CloseStopCh ==
    /\ Unlocked
    /\ stopCh < MaxDisconnects
    /\ stage' = IF Open(stopCh) THEN "stopped" ELSE "panic"
    /\ stopped' = stopCh + 1
    /\ listener' = [l \in Watches |->
          IF Parked(l) /\ listener[l].waitsOn = stopCh THEN Ended ELSE listener[l]]
    /\ UNCHANGED <<clientVars, stopCh, subscriptionVars, watchVars, toldVars, keyVars>>

\* Mutated form: the field still refers to the closed subscription.
StillReferred == pubsub
NoSubscription == 0

NoLongerNotified == live \ {pubsub}

ClosePubSub ==
    /\ stage = "stopped"
    /\ cut' = cut \cup ({pubsub} \ {0})
    /\ live' = NoLongerNotified
    /\ pubsub' = NoSubscription
    /\ stage' = "unsubscribed"
    /\ UNCHANGED <<clientVars, stopCh, stopped, queue, listener, watchVars, toldVars, keyVars>>

CloseClient ==
    /\ stage = "unsubscribed"
    /\ gone' = gone \cup ({client} \ {0})
    /\ connected' = FALSE /\ client' = 0
    /\ stopCh' = stopCh + 1
    /\ stage' = "done"
    /\ UNCHANGED <<made, stopped, subscriptionVars, listener, watchVars, toldVars, keyVars>>

\* Close fails: the stop channel stays, closed.
CloseFails ==
    /\ stage = "unsubscribed"
    /\ client # 0 /\ faults < MaxFaults
    /\ faults' = faults + 1
    /\ gone' \in {gone, gone \cup {client}}
    /\ stage' = "done"
    /\ UNCHANGED <<connected, client, made, stopCh, stopped, subscriptionVars, listener,
                   watchVars, toldVars, version, missed>>

-----------------------------------------------------------------------------
(* WatchKey                                                                *)

NeedsListener == pubsub = 0 /\ client # 0

WatchKey(w) ==
    /\ Unlocked
    /\ w \notin handlers /\ \A u \in 1 .. w - 1 : u \in handlers
    /\ handlers' = handlers \cup {w}
    /\ since' = [since EXCEPT ![w] = version]
    /\ IF NeedsListener
       THEN /\ pubsub' = w
            /\ IF client \in gone
               THEN cut' = cut \cup {w} /\ UNCHANGED live
               ELSE live' \in {live, live \cup {w}} /\ UNCHANGED cut
            /\ missed' = version
            /\ listener' = [listener EXCEPT ![w].at = "spawned"]
       ELSE UNCHANGED <<pubsub, live, cut, missed, listener>>
    /\ UNCHANGED <<clientVars, stopVars, queue, cancelled, toldVars, version, faults>>

\* The listener was given the context of the call that started it; the others
\* are used by nobody.
Cancel(w) ==
    /\ Running
    /\ Alive(w) /\ w \notin cancelled
    /\ cancelled' = cancelled \cup {w}
    /\ UNCHANGED <<clientVars, stopVars, subscriptionVars, listener, handlers, since, toldVars,
                   keyVars>>

-----------------------------------------------------------------------------
(* The server and the library: what is subscribed is notified; a           *)
(* subscription that breaks is renewed, and what happened meanwhile is lost*)

Change ==
    /\ Running /\ version < MaxChanges
    /\ version' = version + 1
    /\ queue' = [s \in Watches |-> IF s \in live THEN Append(queue[s], version') ELSE queue[s]]
    /\ UNCHANGED <<clientVars, stopVars, pubsub, cut, live, listener, watchVars, toldVars,
                   missed, faults>>

Renew(s) ==
    /\ Running
    /\ listener[s].at # "unused" /\ s \notin live \cup cut
    /\ live' = live \cup {s}
    /\ missed' = version
    /\ UNCHANGED <<clientVars, stopVars, pubsub, cut, queue, listener, watchVars, toldVars,
                   version, faults>>

Break(s) ==
    /\ Running
    /\ s \in live /\ faults < MaxFaults
    /\ faults' = faults + 1
    /\ live' = live \ {s}
    /\ UNCHANGED <<clientVars, stopVars, pubsub, cut, queue, listener, watchVars, toldVars,
                   version, missed>>

-----------------------------------------------------------------------------
(* handleKeyspaceNotifications                                             *)

ListenerGoes(l, from, new) ==
    /\ Running
    /\ listener[l].at = from
    /\ listener' = [listener EXCEPT ![l] = new]
    /\ UNCHANGED <<clientVars, stopVars, pubsub, cut, live, watchVars, told, version>>

\* It goes on to another place, and keeps what it has.
At(l, to) == [listener[l] EXCEPT !.at = to]

\* c.pubsub.Channel(): Disconnect may have been faster.
Begin(l) ==
    /\ pubsub # 0
    /\ ListenerGoes(l, "spawned", [At(l, "looping") EXCEPT !.source = pubsub])
    /\ UNCHANGED <<queue, calls, missed, faults>>

BeginPanics(l) ==
    /\ Running
    /\ listener[l].at = "spawned" /\ pubsub = 0
    /\ stage' = "panic"
    /\ UNCHANGED <<clientVars, stopCh, stopped, subscriptionVars, listener, watchVars, toldVars,
                   keyVars>>

\* Every select reads c.stopCh again.
EnterSelect(l) ==
    /\ ListenerGoes(l, "looping", [At(l, "select") EXCEPT !.waitsOn = stopCh])
    /\ UNCHANGED <<queue, calls, missed, faults>>

Ends(l) ==
    /\ l \in cancelled \/ ~Open(listener[l].waitsOn)
    /\ ListenerGoes(l, "select", Ended)
    /\ UNCHANGED <<queue, calls, missed, faults>>

Receive(l) ==
    LET channel == listener[l].source
    IN  /\ listener[l].at = "select" /\ queue[channel] # <<>>
        /\ ListenerGoes(l, "select",
              [At(l, "notified") EXCEPT !.held = Head(queue[channel]), !.waitsOn = 0])
        /\ queue' = [queue EXCEPT ![channel] = Tail(@)]
        /\ UNCHANGED <<calls, missed, faults>>

\* A channel that is closed and empty always has a nil message.
ReceiveNil(l) ==
    /\ listener[l].at = "select"
    /\ listener[l].source \in cut /\ queue[listener[l].source] = <<>>
    /\ ListenerGoes(l, "select", At(l, "looping"))
    /\ UNCHANGED <<queue, calls, missed, faults>>

\* The handlers and the client are read under the lock; nothing is asked
\* without a client.
LookUp(l) ==
    /\ Unlocked
    /\ ListenerGoes(l, "notified", IF client = 0 THEN Idle(l) ELSE
          [At(l, "asking") EXCEPT !.asks = client, !.tells = handlers])
    /\ UNCHANGED <<queue, calls, missed, faults>>

\* Mutated form: the value is taken to be that of the change before.
ValueBefore(l) == listener[l].held - 1
ValueNow(l) == version

\* Mutated form: the listener ends when it has told a value.
ServesOnce(l) == Ended
GoesOn(l) == Idle(l)

Tell(l) ==
    /\ listener[l].asks \notin gone
    /\ ListenerGoes(l, "asking", GoesOn(l))
    /\ calls' = calls \cup
          {[handler |-> h, change |-> listener[l].held, value |-> ValueNow(l)] :
              h \in listener[l].tells}
    /\ UNCHANGED <<queue, missed, faults>>

\* The client was closed, or the request fails for another reason.
TellsNobody(l) ==
    /\ ListenerGoes(l, "asking", Idle(l))
    /\ \/ listener[l].asks \in gone /\ UNCHANGED faults
       \/ faults < MaxFaults /\ faults' = faults + 1
    /\ missed' = IF listener[l].held > missed THEN listener[l].held ELSE missed
    /\ UNCHANGED <<queue, calls>>

\* A handler runs; of several that wait, any.
Run ==
    \E call \in calls :
        /\ Running
        /\ calls' = calls \ {call}
        /\ told' = [told EXCEPT ![call.handler] = IF call.value > @ THEN call.value ELSE @]
        /\ UNCHANGED <<clientVars, stopVars, subscriptionVars, listener, watchVars, keyVars>>

-----------------------------------------------------------------------------
ListenerStep(l) ==
    \/ Begin(l) \/ BeginPanics(l) \/ EnterSelect(l) \/ Ends(l) \/ Receive(l) \/ ReceiveNil(l)
    \/ LookUp(l) \/ Tell(l) \/ TellsNobody(l)

DisconnectEnds == ClosePubSub \/ CloseClient \/ CloseFails

Next ==
    \/ Connect \/ CloseStopCh \/ DisconnectEnds
    \/ \E w \in Watches : WatchKey(w) \/ Cancel(w) \/ ListenerStep(w) \/ Renew(w) \/ Break(w)
    \/ Change \/ Run

Spec == Init /\ [][Next]_vars

\* Goroutines run, and Disconnect returns.  The server answers requests, but
\* need not renew a subscription; nobody need call anything.
FairSpec ==
    /\ Spec
    /\ \A l \in Watches : WF_vars(ListenerStep(l))
    /\ WF_vars(DisconnectEnds) /\ WF_vars(Run)

-----------------------------------------------------------------------------
Listeners ==
    [at : {"unused", "spawned", "looping", "select", "notified", "asking", "ended"},
     source : 0 .. MaxWatches, waitsOn : 0 .. MaxDisconnects, held : 0 .. MaxChanges,
     asks : 0 .. MaxConnects, tells : SUBSET Watches]

(***************************************************************************)
(* Type correctness; the server does not notify a closed subscription.     *)
(***************************************************************************)
TypeOK ==
    /\ connected \in BOOLEAN
    /\ made \in 0 .. MaxConnects /\ client \in 0 .. made /\ gone \subseteq 1 .. made
    /\ pubsub \in 0 .. MaxWatches /\ cut \subseteq Watches
    /\ stopCh \in 0 .. MaxDisconnects /\ stopped \in {stopCh, stopCh + 1}
    /\ stage \in {"done", "stopped", "unsubscribed", "panic"}
    /\ handlers \subseteq Watches /\ cancelled \subseteq handlers
    /\ listener \in [Watches -> Listeners]
    /\ live \subseteq Watches \ cut
    /\ queue \in [Watches -> Seq(1 .. MaxChanges)]
    /\ version \in 0 .. MaxChanges /\ missed \in 0 .. version
    /\ calls \subseteq [handler : Watches, change : 1 .. MaxChanges, value : 0 .. MaxChanges]
    /\ told \in [Watches -> 0 .. version] /\ since \in [Watches -> 0 .. version]
    /\ faults \in 0 .. MaxFaults

\* Handler h is registered, and the client is connected and subscribed for a
\* call of WatchKey whose context is not cancelled.
Watched(h) ==
    /\ h \in handlers
    /\ Unlocked /\ Open(stopCh)
    /\ client # 0
    /\ pubsub \in live /\ pubsub \notin cancelled

Busy(l) == listener[l].at \in {"notified", "asking"} /\ listener[l].source = pubsub

(***************************************************************************)
(* Nothing gets lost between Redis and a handler: when no notification, no *)
(* request and no call is under way, the handler has been told the value   *)
(* the key has - of all changes since it was registered, except those that *)
(* came while the subscription was broken or whose request failed.  So it  *)
(* is after the first connection as well as after others, for a handler    *)
(* that found a listener there as well as for the one it was started for.  *)
(***************************************************************************)
QuietMeansTold ==
    \A h \in Watches :
        (/\ Watched(h) /\ version > since[h] /\ version > missed
         /\ queue[pubsub] = <<>>
         /\ \A l \in Watches : ~Busy(l)
         /\ \A call \in calls : call.handler # h)
            => told[h] = version

(***************************************************************************)
(* A subscription that is not closed has a listener that reads its channel *)
(* and obeys the stop channel which Disconnect will close: none is left    *)
(* behind by the Disconnects before it.                                    *)
(***************************************************************************)
SubscriptionIsServed ==
    (Unlocked /\ Open(stopCh) /\ pubsub # 0 /\ pubsub \notin cancelled) =>
        /\ Alive(pubsub)
        /\ listener[pubsub].at # "spawned" => listener[pubsub].source = pubsub
        /\ listener[pubsub].at = "select" => listener[pubsub].waitsOn = stopCh

(***************************************************************************)
(* And nothing waits for ever: when the key has stopped changing, as it    *)
(* does at its bound, each handler comes to be told the value it has,      *)
(* unless the watch ends or that change is missed.                         *)
(***************************************************************************)
WatchedIsTold ==
    \A h \in Watches :
        (Watched(h) /\ version > since[h] /\ version > missed)
            ~> (told[h] = version \/ ~Watched(h) \/ missed = version)
=============================================================================
