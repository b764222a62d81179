--------------------------- MODULE KeyWatchProofs ---------------------------
(***************************************************************************)
(* Proofs about KeyWatch, for any number of calls of WatchKey, Connect and *)
(* Disconnect, of changes of the key and of faults.                        *)
(***************************************************************************)
EXTENDS KeyWatch, TLAPS

(***************************************************************************)
(* What the parts of the state say of each other.                          *)
(***************************************************************************)
\* Disconnect, once past its first step, has closed the present stop channel,
\* and drops the subscription before the client.
DisconnectInOrder ==
    /\ stage \in {"stopped", "unsubscribed"} => stopped = stopCh + 1 /\ stopCh < MaxDisconnects
    /\ stage = "unsubscribed" => pubsub = 0

\* A subscription has a client, it and its listener were made by a call of
\* WatchKey; once the listener has begun it reads some subscription.
SubscriptionHasClient == pubsub # 0 => client # 0

MadeByWatchKey ==
    /\ live \subseteq handlers /\ cut \subseteq handlers /\ pubsub \in handlers \cup {0}
    /\ \A l \in Watches :
          /\ listener[l].at # "unused" => l \in handlers
          /\ listener[l].at \in {"looping", "select", "notified", "asking"} =>
                listener[l].source \in Watches
          /\ listener[l].at \in {"notified", "asking"} => listener[l].held > 0

\* Nobody knows of a value that the key has not had.
NothingFromTheFuture ==
    /\ \A s \in Watches : \A k \in 1 .. Len(queue[s]) : queue[s][k] <= version
    /\ \A l \in Watches : listener[l].held <= version
    /\ \A call \in calls : call.value <= version

(***************************************************************************)
(* The latest change, if it was not missed, is on its way to handler h: it *)
(* is the last notification, or a listener has it, or a call for h.        *)
(***************************************************************************)
Notified == queue[pubsub] # <<>> /\ queue[pubsub][Len(queue[pubsub])] = version

Held(h) ==
    \E l \in Watches :
        /\ Busy(l) /\ listener[l].held = version
        /\ listener[l].at = "asking" => h \in listener[l].tells

Called(h) == \E call \in calls : call.handler = h /\ call.value = version

OnItsWay(h) == Notified \/ Held(h) \/ Called(h) \/ told[h] = version

LatestIsOnItsWay ==
    \A h \in handlers :
        (pubsub \in live /\ version > since[h] /\ version > missed) => OnItsWay(h)

IInv ==
    /\ TypeOK
    /\ DisconnectInOrder /\ SubscriptionHasClient /\ MadeByWatchKey
    /\ NothingFromTheFuture
    /\ SubscriptionIsServed
    /\ LatestIsOnItsWay

-----------------------------------------------------------------------------
LEMMA InitHolds == Init => IInv
<1> SUFFICES ASSUME Init PROVE IInv
  OBVIOUS
<1> USE ConstantsAssumption DEF Init
<1>1. TypeOK
  <2>1. listener \in [Watches -> Listeners]
    BY DEF NoListener, Listeners
  <2>2. queue \in [Watches -> Seq(1 .. MaxChanges)]
    OBVIOUS
  <2>3. told \in [Watches -> 0 .. version] /\ since \in [Watches -> 0 .. version]
    OBVIOUS
  <2>4. /\ made \in 0 .. MaxConnects /\ client \in 0 .. made /\ gone \subseteq 1 .. made
        /\ pubsub \in 0 .. MaxWatches /\ cut \subseteq Watches /\ live \subseteq Watches \ cut
        /\ stopCh \in 0 .. MaxDisconnects /\ stopped \in {stopCh, stopCh + 1}
        /\ version \in 0 .. MaxChanges /\ missed \in 0 .. version /\ faults \in 0 .. MaxFaults
    OBVIOUS
  <2>5. calls \subseteq [handler : Watches, change : 1 .. MaxChanges, value : 0 .. MaxChanges]
    OBVIOUS
  <2> QED
    BY <2>1, <2>2, <2>3, <2>4, <2>5 DEF TypeOK
<1>2. DisconnectInOrder /\ SubscriptionHasClient /\ MadeByWatchKey
  BY DEF DisconnectInOrder, SubscriptionHasClient, MadeByWatchKey, NoListener
<1>3. NothingFromTheFuture
  BY DEF NothingFromTheFuture, NoListener
<1>4. SubscriptionIsServed /\ LatestIsOnItsWay
  BY DEF SubscriptionIsServed, LatestIsOnItsWay
<1> QED
  BY <1>1, <1>2, <1>3, <1>4 DEF IInv

(* The first of a queue and the others, and a queue with one more.         *)
LEMMA QueueFacts ==
    ASSUME NEW S, NEW q \in Seq(S)
    PROVE  /\ q # <<>> => Head(q) \in S /\ Tail(q) \in Seq(S)
           /\ \A e \in S : Append(q, e) \in Seq(S)
OBVIOUS

(* A listener's step puts it in another place and touches no other one.    *)
LEMMA ListenerMoves ==
    ASSUME TypeOK, NEW l \in Watches, NEW from, NEW new, ListenerGoes(l, from, new)
    PROVE  /\ listener[l].at = from
           /\ listener'[l] = new
           /\ \A k \in Watches : k # l => listener'[k] = listener[k]
           /\ new \in Listeners => listener' \in [Watches -> Listeners]
BY DEF ListenerGoes, TypeOK

LEMMA ListenerTypes ==
    ASSUME TypeOK, NEW l \in Watches
    PROVE  /\ listener[l] \in Listeners
           /\ Ended \in Listeners
           /\ Idle(l) \in Listeners
           /\ \A to \in {"looping", "select", "notified", "asking"} : At(l, to) \in Listeners
<1>1. listener[l] \in Listeners
  BY DEF TypeOK
<1>2. NoListener \in Listeners
  BY ConstantsAssumption DEF NoListener, Listeners
<1> QED
  BY <1>1, <1>2 DEF Listeners, Ended, Idle, At

-----------------------------------------------------------------------------
(* Type correctness.                                                       *)

LEMMA ListenerTypeStep ==
    ASSUME IInv, NEW l \in Watches, ListenerStep(l)
    PROVE  TypeOK'
<1> USE ConstantsAssumption DEF IInv
<1>0. /\ listener[l] \in Listeners
      /\ pubsub \in 0 .. MaxWatches /\ stopCh \in 0 .. MaxDisconnects /\ client \in 0 .. MaxConnects
      /\ handlers \subseteq Watches
  BY DEF TypeOK
<1>1. CASE Begin(l)
  <2>1. [At(l, "looping") EXCEPT !.source = pubsub] \in Listeners
    BY <1>0 DEF At, Listeners
  <2> QED
    BY <1>1, <2>1, ListenerMoves DEF Begin, ListenerGoes, TypeOK, clientVars, stopVars,
       watchVars
<1>2. CASE BeginPanics(l)
  BY <1>2 DEF BeginPanics, TypeOK, clientVars, subscriptionVars, watchVars, toldVars, keyVars
<1>3. CASE EnterSelect(l)
  <2>1. [At(l, "select") EXCEPT !.waitsOn = stopCh] \in Listeners
    BY <1>0 DEF At, Listeners
  <2> QED
    BY <1>3, <2>1, ListenerMoves
    DEF EnterSelect, ListenerGoes, TypeOK, clientVars, stopVars, watchVars
<1>4. CASE Ends(l)
  BY <1>4, ListenerTypes, ListenerMoves
  DEF Ends, ListenerGoes, TypeOK, clientVars, stopVars, watchVars
<1>5. CASE Receive(l)
  <2> DEFINE channel == listener[l].source
             new == [At(l, "notified") EXCEPT !.held = Head(queue[channel]), !.waitsOn = 0]
  <2>1. listener[l].at = "select" /\ queue[channel] # <<>> /\ ListenerGoes(l, "select", new)
        /\ queue' = [queue EXCEPT ![channel] = Tail(queue[channel])]
        /\ UNCHANGED <<calls, missed, faults>>
    BY <1>5 DEF Receive
  <2>2. channel \in Watches /\ queue[channel] \in Seq(1 .. MaxChanges)
    BY <2>1 DEF MadeByWatchKey, TypeOK
  <2>3. Head(queue[channel]) \in 1 .. MaxChanges /\ Tail(queue[channel]) \in Seq(1 .. MaxChanges)
    BY <2>1, <2>2, QueueFacts
  <2>4. new \in Listeners
    <3>1. 0 \in 0 .. MaxDisconnects /\ 1 .. MaxChanges \subseteq 0 .. MaxChanges
      OBVIOUS
    <3>2. ASSUME NEW r \in Listeners, NEW n \in 0 .. MaxChanges, NEW c \in 0 .. MaxDisconnects
          PROVE  [r EXCEPT !.held = n, !.waitsOn = c] \in Listeners
      BY DEF Listeners
    <3>3. At(l, "notified") \in Listeners
      BY ListenerTypes
    <3> QED
      BY <2>3, <3>1, <3>2, <3>3
  <2>5. queue' \in [Watches -> Seq(1 .. MaxChanges)]
    BY <2>1, <2>2, <2>3 DEF TypeOK
  <2> HIDE DEF channel, new
  <2> QED
    BY <2>1, <2>4, <2>5, ListenerMoves DEF ListenerGoes, TypeOK, clientVars, stopVars, watchVars
<1>6. CASE ReceiveNil(l)
  BY <1>6, ListenerTypes, ListenerMoves
  DEF ReceiveNil, ListenerGoes, TypeOK, clientVars, stopVars, watchVars
<1>7. CASE LookUp(l)
  <2> DEFINE new == IF client = 0 THEN Idle(l) ELSE
                        [At(l, "asking") EXCEPT !.asks = client, !.tells = handlers]
  <2>1. new \in Listeners
    BY <1>0, ListenerTypes DEF At, Listeners
  <2>2. ListenerGoes(l, "notified", new) /\ UNCHANGED <<queue, calls, missed, faults>>
    BY <1>7 DEF LookUp
  <2> HIDE DEF new
  <2> QED
    BY <2>1, <2>2, ListenerMoves DEF ListenerGoes, TypeOK, clientVars, stopVars, watchVars
<1>8. CASE Tell(l)
  <2>1. /\ listener[l].at = "asking"
        /\ calls' = calls \cup
              {[handler |-> h, change |-> listener[l].held, value |-> version] :
                  h \in listener[l].tells}
        /\ listener' \in [Watches -> Listeners]
        /\ UNCHANGED <<queue, missed, faults>>
        /\ UNCHANGED <<clientVars, stopVars, pubsub, cut, live, watchVars, told, version>>
    BY <1>8, ListenerMoves, ListenerTypes DEF Tell, ListenerGoes, GoesOn, ValueNow
  <2>2. listener[l].held \in 1 .. MaxChanges /\ listener[l].tells \subseteq Watches
    BY <1>0, <2>1 DEF MadeByWatchKey, Listeners
  <2>3. calls' \subseteq [handler : Watches, change : 1 .. MaxChanges, value : 0 .. MaxChanges]
    BY <2>1, <2>2 DEF TypeOK
  <2> QED
    BY <2>1, <2>3 DEF TypeOK, clientVars, stopVars, watchVars
<1>9. CASE TellsNobody(l)
  <2>1. listener[l].held \in 0 .. version
    BY <1>0 DEF NothingFromTheFuture, Listeners
  <2>2. missed' \in 0 .. version
    BY <1>9, <2>1 DEF TellsNobody, TypeOK
  <2>3. faults' \in 0 .. MaxFaults
    BY <1>9 DEF TellsNobody, TypeOK
  <2>4. listener' \in [Watches -> Listeners]
    BY <1>9, ListenerMoves, ListenerTypes DEF TellsNobody
  <2> QED
    BY <1>9, <2>2, <2>3, <2>4
    DEF TellsNobody, ListenerGoes, TypeOK, clientVars, stopVars, watchVars
<1> QED
  BY <1>1, <1>2, <1>3, <1>4, <1>5, <1>6, <1>7, <1>8, <1>9 DEF ListenerStep

LEMMA TypeStep == ASSUME IInv, [Next]_vars PROVE TypeOK'
<1> USE ConstantsAssumption DEF IInv
<1>1. CASE Connect
  BY <1>1 DEF Connect, TypeOK, stopVars, subscriptionVars, watchVars, toldVars, keyVars
<1>2. CASE CloseStopCh
  <2>1. listener' \in [Watches -> Listeners]
    BY <1>2, ListenerTypes DEF CloseStopCh
  <2>2. stopped' \in {stopCh', stopCh' + 1} /\ stage' \in {"done", "stopped", "unsubscribed", "panic"}
    BY <1>2 DEF CloseStopCh
  <2> QED
    BY <1>2, <2>1, <2>2
    DEF CloseStopCh, TypeOK, clientVars, subscriptionVars, watchVars, toldVars, keyVars
<1>3. CASE ClosePubSub
  <2>1. pubsub' \in 0 .. MaxWatches
    BY <1>3 DEF ClosePubSub, NoSubscription
  <2>2. cut' \subseteq Watches /\ live' \subseteq Watches \ cut'
    BY <1>3 DEF ClosePubSub, NoLongerNotified, TypeOK, Watches
  <2>3. stage' \in {"done", "stopped", "unsubscribed", "panic"}
    BY <1>3 DEF ClosePubSub
  <2> QED
    BY <1>3, <2>1, <2>2, <2>3 DEF ClosePubSub, TypeOK, clientVars, watchVars, toldVars, keyVars
<1>4. CASE CloseClient
  <2>1. stopCh' \in 0 .. MaxDisconnects /\ stopped' \in {stopCh', stopCh' + 1}
    BY <1>4 DEF CloseClient, TypeOK, DisconnectInOrder
  <2>2. gone' \subseteq 1 .. made' /\ client' \in 0 .. made'
    BY <1>4 DEF CloseClient, TypeOK
  <2> QED
    BY <1>4, <2>1, <2>2 DEF CloseClient, TypeOK, subscriptionVars, watchVars, toldVars, keyVars
<1>5. CASE CloseFails
  BY <1>5 DEF CloseFails, TypeOK, subscriptionVars, watchVars, toldVars
<1>6. ASSUME NEW w \in Watches, WatchKey(w) PROVE TypeOK'
  <2>1. listener' \in [Watches -> Listeners]
    <3>1. [listener[w] EXCEPT !.at = "spawned"] \in Listeners
      BY ListenerTypes DEF Listeners
    <3> QED
      BY <1>6, <3>1 DEF WatchKey, TypeOK
  <2>2. /\ live' \subseteq Watches \ cut' /\ cut' \subseteq Watches
        /\ pubsub' \in 0 .. MaxWatches /\ missed' \in 0 .. version'
    <3>1. w \notin live /\ w \notin cut /\ w \in 0 .. MaxWatches
      BY <1>6 DEF WatchKey, MadeByWatchKey, Watches
    <3>2. live \subseteq Watches \ cut /\ cut \subseteq Watches /\ version \in Nat
          /\ pubsub \in 0 .. MaxWatches /\ missed \in 0 .. version
      BY DEF TypeOK
    <3>3. CASE NeedsListener
      BY <1>6, <3>1, <3>2, <3>3 DEF WatchKey
    <3>4. CASE ~NeedsListener
      BY <1>6, <3>2, <3>4 DEF WatchKey
    <3> QED
      BY <3>3, <3>4
  <2>3. since' \in [Watches -> 0 .. version']
    BY <1>6 DEF WatchKey, TypeOK, toldVars
  <2> QED
    BY <1>6, <2>1, <2>2, <2>3 DEF WatchKey, TypeOK, clientVars, stopVars, toldVars
<1>7. ASSUME NEW w \in Watches, Cancel(w) PROVE TypeOK'
  BY <1>7 DEF Cancel, Alive, MadeByWatchKey, TypeOK, clientVars, stopVars, subscriptionVars,
              toldVars, keyVars
<1>8. CASE Change
  <2>1. version' \in 1 .. MaxChanges /\ version' = version + 1 /\ version \in Nat
    BY <1>8 DEF Change, TypeOK
  <2>2. queue' \in [Watches -> Seq(1 .. MaxChanges)]
    BY <1>8, <2>1, QueueFacts DEF Change, TypeOK
  <2>3. /\ told' \in [Watches -> 0 .. version'] /\ since' \in [Watches -> 0 .. version']
        /\ missed' \in 0 .. version'
    BY <1>8, <2>1 DEF Change, TypeOK, toldVars, watchVars
  <2> QED
    BY <1>8, <2>1, <2>2, <2>3 DEF Change, TypeOK, clientVars, stopVars, watchVars, toldVars
<1>9. ASSUME NEW s \in Watches, Renew(s) PROVE TypeOK'
  BY <1>9 DEF Renew, TypeOK, clientVars, stopVars, watchVars, toldVars
<1>10. ASSUME NEW s \in Watches, Break(s) PROVE TypeOK'
  BY <1>10 DEF Break, TypeOK, clientVars, stopVars, watchVars, toldVars
<1>11. CASE Run
  <2>1. PICK call \in calls :
           /\ calls' = calls \ {call}
           /\ told' = [told EXCEPT ![call.handler] = IF call.value > @ THEN call.value ELSE @]
           /\ UNCHANGED <<clientVars, stopVars, subscriptionVars, listener, watchVars, keyVars>>
    BY <1>11 DEF Run
  <2>2. call.handler \in Watches /\ call.value \in 0 .. version
    BY DEF TypeOK, NothingFromTheFuture
  <2>3. told' \in [Watches -> 0 .. version']
    BY <2>1, <2>2 DEF TypeOK, keyVars
  <2> QED
    BY <2>1, <2>3 DEF TypeOK, clientVars, stopVars, subscriptionVars, watchVars, keyVars
<1>12. CASE UNCHANGED vars
  BY <1>12 DEF vars, TypeOK, clientVars, stopVars, subscriptionVars, watchVars, toldVars,
     keyVars
<1> QED
  BY <1>1, <1>2, <1>3, <1>4, <1>5, <1>6, <1>7, <1>8, <1>9, <1>10, <1>11, <1>12,
     ListenerTypeStep DEF Next, DisconnectEnds

-----------------------------------------------------------------------------
(* How the parts belong together.                                          *)

LEMMA IdleLooks ==
    ASSUME NEW l \in Watches
    PROVE  Idle(l).at = "looping" /\ Idle(l).source = listener[l].source /\ Idle(l).held = 0
BY DEF Idle, NoListener

LEMMA ListenerEffect ==
    ASSUME IInv, NEW l \in Watches, ListenerStep(l)
    PROVE  /\ UNCHANGED <<clientVars, stopCh, stopped, pubsub, cut, live, watchVars, told, version>>
           /\ \A k \in Watches : k # l => listener'[k] = listener[k]
           /\ \/ listener' = listener /\ stage' = "panic"
              \/ listener[l].at # "unused" /\ listener'[l].at # "unused" /\ stage' = stage
           /\ listener'[l].at \in {"looping", "select", "notified", "asking"} =>
                 listener'[l].source = IF listener[l].at = "spawned" THEN pubsub
                                       ELSE listener[l].source
           /\ Receive(l) \/ listener'[l].held \in {0, listener[l].held}
           /\ listener'[l].at \in {"notified", "asking"} =>
                 \/ listener[l].at = "notified" /\ listener'[l].held = listener[l].held
                 \/ Receive(l) /\ listener'[l].held = Head(queue[listener[l].source])
<1> USE DEF IInv
<1>0. listener[l] \in Listeners
  BY ListenerTypes
<1>1. CASE Begin(l)
  BY <1>0, <1>1, ListenerMoves DEF Begin, ListenerGoes, At, Listeners, stopVars
<1>2. CASE BeginPanics(l)
  BY <1>0, <1>2 DEF BeginPanics, clientVars, subscriptionVars, watchVars, toldVars, keyVars
<1>3. CASE EnterSelect(l)
  BY <1>0, <1>3, ListenerMoves DEF EnterSelect, ListenerGoes, At, Listeners, stopVars
<1>4. CASE Ends(l)
  BY <1>0, <1>4, ListenerMoves DEF Ends, ListenerGoes, Ended, NoListener, stopVars
<1>5. CASE Receive(l)
  BY <1>0, <1>5, ListenerMoves DEF Receive, ListenerGoes, At, Listeners, stopVars
<1>6. CASE ReceiveNil(l)
  BY <1>0, <1>6, ListenerMoves DEF ReceiveNil, ListenerGoes, At, Listeners, stopVars
<1>7. CASE LookUp(l)
  BY <1>0, <1>7, ListenerMoves
  DEF LookUp, ListenerGoes, At, Idle, NoListener, Listeners, stopVars
<1>8. CASE Tell(l)
  <2>1. listener[l].at = "asking" /\ listener'[l] = Idle(l)
    BY <1>8, ListenerMoves DEF Tell, GoesOn
  <2> QED
    BY <1>8, <2>1, IdleLooks, ListenerMoves DEF Tell, ListenerGoes, stopVars
<1>9. CASE TellsNobody(l)
  <2>1. listener[l].at = "asking" /\ listener'[l] = Idle(l)
    BY <1>9, ListenerMoves DEF TellsNobody
  <2> QED
    BY <1>9, <2>1, IdleLooks, ListenerMoves DEF TellsNobody, ListenerGoes, stopVars
<1> QED
  BY <1>1, <1>2, <1>3, <1>4, <1>5, <1>6, <1>7, <1>8, <1>9 DEF ListenerStep

LEMMA WatchKeyEffect ==
    ASSUME IInv, NEW w \in Watches, WatchKey(w)
    PROVE  /\ listener[w].at = "unused"
           /\ listener'[w] = listener[w] \/ (NeedsListener /\ listener'[w].at = "spawned")
           /\ listener'[w].held = listener[w].held
           /\ \A l \in Watches : l # w => listener'[l] = listener[l]
<1>1. listener[w].at = "unused"
  BY DEF IInv, MadeByWatchKey, WatchKey
<1>2. listener[w] \in Listeners /\ listener \in [Watches -> Listeners]
  BY DEF IInv, TypeOK
<1>3. CASE NeedsListener
  BY <1>1, <1>2, <1>3 DEF WatchKey, Listeners
<1>4. CASE ~NeedsListener
  <2>1. listener' = listener
    BY <1>4 DEF WatchKey
  <2> QED
    BY <1>1, <2>1
<1> QED
  BY <1>3, <1>4

LEMMA ReceiveEffect ==
    ASSUME IInv, NEW l \in Watches, Receive(l), NEW s, s = listener[l].source
    PROVE  /\ s \in Watches /\ queue[s] \in Seq(1 .. MaxChanges) /\ queue[s] # <<>>
           /\ listener'[l].source = s
           /\ listener'[l].at = "notified" /\ listener'[l].held = queue[s][1]
           /\ \A k \in Watches : k # l => listener'[k] = listener[k]
           /\ Len(queue'[s]) = Len(queue[s]) - 1
           /\ \A k \in 1 .. Len(queue'[s]) : queue'[s][k] = queue[s][k + 1]
           /\ \A r \in Watches : r # s => queue'[r] = queue[r]
           /\ UNCHANGED <<calls, told, missed, version>>
<1> DEFINE new == [At(l, "notified") EXCEPT !.held = Head(queue[s]), !.waitsOn = 0]
<1>1. listener[l].at = "select" /\ queue[s] # <<>> /\ ListenerGoes(l, "select", new)
      /\ queue' = [queue EXCEPT ![s] = Tail(queue[s])]
      /\ UNCHANGED <<calls, told, missed, version>>
  BY DEF Receive, ListenerGoes
<1>2. s \in Watches /\ queue[s] \in Seq(1 .. MaxChanges)
  BY <1>1 DEF IInv, MadeByWatchKey, TypeOK
<1>3. /\ listener'[l] = new
      /\ \A k \in Watches : k # l => listener'[k] = listener[k]
  BY <1>1, ListenerMoves DEF IInv
<1>4. new.at = "notified" /\ new.source = s /\ new.held = Head(queue[s])
  BY ListenerTypes DEF At, Listeners, IInv
<1>5. /\ queue'[s] = Tail(queue[s])
      /\ \A r \in Watches : r # s => queue'[r] = queue[r]
  BY <1>1, <1>2 DEF IInv, TypeOK
<1>6. ASSUME NEW q \in Seq(1 .. MaxChanges), q # <<>>
      PROVE  /\ Head(q) = q[1] /\ Len(Tail(q)) = Len(q) - 1
             /\ \A k \in 1 .. Len(Tail(q)) : Tail(q)[k] = q[k + 1]
  BY <1>6
<1>7. /\ Head(queue[s]) = queue[s][1] /\ Len(Tail(queue[s])) = Len(queue[s]) - 1
      /\ \A k \in 1 .. Len(Tail(queue[s])) : Tail(queue[s])[k] = queue[s][k + 1]
  BY <1>1, <1>2, <1>6
<1> HIDE DEF new
<1> QED
  BY <1>1, <1>2, <1>3, <1>4, <1>5, <1>7

LEMMA StructureStep ==
    ASSUME IInv, [Next]_vars
    PROVE  DisconnectInOrder' /\ SubscriptionHasClient' /\ MadeByWatchKey'
<1> USE DEF IInv, DisconnectInOrder, SubscriptionHasClient, MadeByWatchKey
<1>1. CASE Connect
  BY <1>1 DEF Connect, TypeOK, stopVars, subscriptionVars, watchVars, toldVars, keyVars
<1>2. CASE CloseStopCh
  BY <1>2 DEF CloseStopCh, clientVars, subscriptionVars, watchVars, Parked, Ended, NoListener
<1>3. CASE ClosePubSub
  BY <1>3 DEF ClosePubSub, clientVars, watchVars, NoLongerNotified, NoSubscription
<1>4. CASE CloseClient
  BY <1>4 DEF CloseClient, subscriptionVars, watchVars
<1>5. CASE CloseFails
  BY <1>5 DEF CloseFails, subscriptionVars, watchVars
<1>6. ASSUME NEW w \in Watches, WatchKey(w)
      PROVE  DisconnectInOrder' /\ SubscriptionHasClient' /\ MadeByWatchKey'
  <2>4. /\ live' \subseteq handlers' /\ cut' \subseteq handlers' /\ pubsub' \in handlers' \cup {0}
        /\ handlers' = handlers \cup {w}
        /\ pubsub' # 0 => client' # 0
        /\ UNCHANGED stopVars
    BY <1>6 DEF WatchKey, NeedsListener, clientVars
  <2>5. stage = "done"
    BY <1>6 DEF WatchKey, Unlocked
  <2> QED
    BY <1>6, <2>4, <2>5, WatchKeyEffect DEF stopVars
<1>7. ASSUME NEW w \in Watches, Cancel(w)
      PROVE  DisconnectInOrder' /\ SubscriptionHasClient' /\ MadeByWatchKey'
  BY <1>7 DEF Cancel, clientVars, stopVars, subscriptionVars
<1>8. CASE Change
  BY <1>8 DEF Change, clientVars, stopVars, watchVars
<1>9. ASSUME NEW s \in Watches, Renew(s) \/ Break(s)
      PROVE  DisconnectInOrder' /\ SubscriptionHasClient' /\ MadeByWatchKey'
  BY <1>9 DEF Renew, Break, clientVars, stopVars, watchVars
<1>10. ASSUME NEW l \in Watches, ListenerStep(l)
       PROVE  DisconnectInOrder' /\ SubscriptionHasClient' /\ MadeByWatchKey'
  <2>1. DisconnectInOrder' /\ SubscriptionHasClient'
    BY <1>10, ListenerEffect DEF clientVars
  <2>2. ASSUME Receive(l) PROVE Head(queue[listener[l].source]) > 0
    <3>1. queue[listener[l].source] \in Seq(1 .. MaxChanges) /\ queue[listener[l].source] # <<>>
      BY <2>2, ListenerMoves DEF Receive, TypeOK
    <3> QED
      <4>1. Head(queue[listener[l].source]) \in 1 .. MaxChanges
        BY <3>1, QueueFacts
      <4> QED
        BY <4>1
  <2>3. pubsub # 0 => pubsub \in Watches
    BY DEF TypeOK
  <2>4. /\ listener[l].at \in {"spawned", "looping", "select", "notified", "asking"}
        /\ listener[l].at = "spawned" => pubsub # 0 \/ listener' = listener
    BY <1>10 DEF ListenerStep, Begin, BeginPanics, EnterSelect, Ends, Receive, ReceiveNil,
       LookUp,
                 Tell, TellsNobody, ListenerGoes, subscriptionVars
  <2>5. MadeByWatchKey'
    <3>1. /\ UNCHANGED <<live, cut, pubsub, handlers>>
          /\ \A k \in Watches : k # l => listener'[k] = listener[k]
      BY <1>10, ListenerEffect DEF watchVars
    <3>2. listener'[l].at # "unused" => l \in handlers
      BY <1>10, ListenerEffect
    <3>3. listener'[l].at \in {"looping", "select", "notified", "asking"} =>
             listener'[l].source \in Watches
      <4>1. CASE listener[l].at = "spawned"
        BY <1>10, <2>3, <2>4, <4>1, ListenerEffect
      <4>2. CASE listener[l].at # "spawned"
        BY <1>10, <2>4, <4>2, ListenerEffect
      <4> QED
        BY <4>1, <4>2
    <3>4. listener'[l].at \in {"notified", "asking"} => listener'[l].held > 0
      BY <1>10, <2>2, ListenerEffect
    <3> QED
      BY <3>1, <3>2, <3>3, <3>4
  <2> QED
    BY <2>1, <2>5
<1>11. CASE Run
  BY <1>11 DEF Run, clientVars, stopVars, subscriptionVars, watchVars
<1>12. CASE UNCHANGED vars
  BY <1>12 DEF vars, clientVars, stopVars, subscriptionVars, watchVars
<1> QED
  BY <1>1, <1>2, <1>3, <1>4, <1>5, <1>6, <1>7, <1>8, <1>9, <1>10, <1>11, <1>12
  DEF Next, DisconnectEnds

LEMMA ReceivedBefore ==
    ASSUME IInv, NEW l \in Watches, Receive(l) PROVE NothingFromTheFuture'
<1>1. PICK s : s = listener[l].source
  OBVIOUS
<1>2. s \in Watches /\ listener'[l].held = queue[s][1]
  BY <1>1, ReceiveEffect
<1>3. \A k \in Watches : k # l => listener'[k] = listener[k]
  BY <1>1, ReceiveEffect
<1>4. /\ \A k \in 1 .. Len(queue'[s]) : queue'[s][k] = queue[s][k + 1]
      /\ \A r \in Watches : r # s => queue'[r] = queue[r]
  BY <1>1, ReceiveEffect
<1>5. UNCHANGED <<calls, version>>
  BY <1>1, ReceiveEffect
<1>6. 1 \in 1 .. Len(queue[s]) /\ \A k \in 1 .. Len(queue'[s]) : k + 1 \in 1 .. Len(queue[s])
  BY <1>1, ReceiveEffect
<1>7. NothingFromTheFuture
  BY DEF IInv
<1>8. \A k \in Watches : listener'[k].held <= version'
  BY <1>2, <1>3, <1>5, <1>6, <1>7 DEF NothingFromTheFuture
<1>9. \A r \in Watches : \A k \in 1 .. Len(queue'[r]) : queue'[r][k] <= version'
  BY <1>4, <1>5, <1>6, <1>7 DEF NothingFromTheFuture
<1> QED
  BY <1>5, <1>7, <1>8, <1>9 DEF NothingFromTheFuture

(* Values and notifications are of changes that have happened.             *)
LEMMA FutureStep == ASSUME IInv, [Next]_vars PROVE NothingFromTheFuture'
<1> USE ConstantsAssumption DEF IInv, NothingFromTheFuture
<1>0. /\ version \in Nat
      /\ \A s \in Watches : queue[s] \in Seq(1 .. MaxChanges)
      /\ \A l \in Watches : listener[l].held \in Nat
      /\ \A call \in calls : call.value \in Nat
  BY DEF TypeOK, Listeners
<1>1. CASE Change
  <2>1. version' = version + 1 /\ listener' = listener /\ calls' = calls
        /\ \A s \in Watches : queue'[s] = queue[s] \/ queue'[s] = Append(queue[s], version')
    BY <1>1 DEF Change, toldVars
  <2>2. ASSUME NEW s \in Watches, NEW k \in 1 .. Len(queue'[s]) PROVE queue'[s][k] <= version'
    <3>1. CASE queue'[s] = queue[s]
      BY <1>0, <2>1, <3>1
    <3>2. CASE queue'[s] = Append(queue[s], version')
      BY <1>0, <2>1, <3>2
    <3> QED
      BY <2>1, <3>1, <3>2
  <2> QED
    BY <1>0, <2>1, <2>2
<1>2. ASSUME NEW l \in Watches, Receive(l) PROVE NothingFromTheFuture'
  BY <1>2, ReceivedBefore
<1>3. ASSUME NEW l \in Watches, ListenerStep(l), ~Receive(l) PROVE NothingFromTheFuture'
  <2>1. /\ version' = version /\ queue' = queue
        /\ \A k \in Watches : k # l => listener'[k] = listener[k]
    BY <1>3, ListenerEffect
    DEF ListenerStep, Begin, BeginPanics, EnterSelect, Ends, ReceiveNil, LookUp, Tell,
    TellsNobody,
        subscriptionVars
  <2>2. listener'[l].held <= version
    BY <1>0, <1>3, ListenerEffect
  <2>3. ASSUME NEW call \in calls' PROVE call.value <= version
    BY <1>0, <1>3, <2>3
    DEF ListenerStep, Begin, BeginPanics, EnterSelect, Ends, ReceiveNil, LookUp, Tell,
    TellsNobody,
        toldVars, ValueNow
  <2> QED
    BY <2>1, <2>2, <2>3
<1>4. CASE Run
  BY <1>4 DEF Run, subscriptionVars, keyVars
<1>5. CASE CloseStopCh
  BY <1>0, <1>5 DEF CloseStopCh, subscriptionVars, toldVars, keyVars, Ended, NoListener
<1>6. ASSUME NEW w \in Watches, WatchKey(w) PROVE NothingFromTheFuture'
  <2>1. \A l \in Watches : listener'[l].held = listener[l].held
    BY <1>6, WatchKeyEffect
  <2> QED
    BY <1>6, <2>1 DEF WatchKey, toldVars
<1>7. ASSUME NEW w \in Watches, Cancel(w) \/ Renew(w) \/ Break(w) PROVE NothingFromTheFuture'
  BY <1>7 DEF Cancel, Renew, Break, subscriptionVars, toldVars, keyVars
<1>8. CASE Connect \/ ClosePubSub \/ CloseClient \/ CloseFails
  BY <1>8 DEF Connect, ClosePubSub, CloseClient, CloseFails, subscriptionVars, toldVars, keyVars
<1>9. CASE UNCHANGED vars
  BY <1>9 DEF vars, subscriptionVars, toldVars, keyVars
<1> QED
  BY <1>1, <1>2, <1>3, <1>4, <1>5, <1>6, <1>7, <1>8, <1>9 DEF Next, DisconnectEnds

-----------------------------------------------------------------------------
(* A subscription has its listener.                                        *)

LEMMA ServedStep == ASSUME IInv, [Next]_vars PROVE SubscriptionIsServed'
<1> USE DEF IInv
<1>0. stopCh \in Nat
  BY ConstantsAssumption DEF TypeOK
<1>1. CASE CloseStopCh
  BY <1>0, <1>1 DEF CloseStopCh, SubscriptionIsServed, Open
<1>2. CASE ClosePubSub \/ CloseClient \/ CloseFails
  BY <1>2 DEF ClosePubSub, CloseClient, CloseFails, NoSubscription, DisconnectInOrder,
              SubscriptionIsServed, subscriptionVars
<1>3. ASSUME NEW w \in Watches, WatchKey(w) PROVE SubscriptionIsServed'
  <2>1. CASE NeedsListener
    <3>1. pubsub' = w /\ listener'[w].at = "spawned"
      BY <1>3, <2>1, ListenerTypes DEF WatchKey, TypeOK, Listeners
    <3> QED
      BY <3>1 DEF SubscriptionIsServed, Alive
  <2>2. CASE ~NeedsListener
    BY <1>3, <2>2 DEF WatchKey, stopVars, SubscriptionIsServed, Alive, Open, Unlocked
  <2> QED
    BY <2>1, <2>2
<1>4. ASSUME NEW w \in Watches, Cancel(w) PROVE SubscriptionIsServed'
  BY <1>4 DEF Cancel, stopVars, subscriptionVars, SubscriptionIsServed, Alive, Open, Unlocked
<1>5. ASSUME NEW l \in Watches, ListenerStep(l) PROVE SubscriptionIsServed'
  <2> SUFFICES ASSUME Unlocked', Open(stopCh)', pubsub' # 0, pubsub' \notin cancelled'
               PROVE  /\ Alive(pubsub)'
                      /\ listener'[pubsub'].at # "spawned" => listener'[pubsub'].source = pubsub'
                      /\ listener'[pubsub'].at = "select" => listener'[pubsub'].waitsOn = stopCh'
    BY DEF SubscriptionIsServed
  <2>1. /\ UNCHANGED <<pubsub, stopCh, cancelled>>
        /\ Unlocked /\ Open(stopCh) /\ pubsub # 0 /\ pubsub \notin cancelled
        /\ \A k \in Watches : k # l => listener'[k] = listener[k]
        /\ pubsub \in Watches
    BY <1>5, ListenerEffect DEF watchVars, Unlocked, Open, TypeOK, Watches
  <2>2. /\ Alive(pubsub)
        /\ listener[pubsub].at # "spawned" => listener[pubsub].source = pubsub
        /\ listener[pubsub].at = "select" => listener[pubsub].waitsOn = stopCh
    BY <2>1 DEF SubscriptionIsServed
  <2>3. CASE pubsub # l
    BY <2>1, <2>2, <2>3 DEF Alive
  <2>4. CASE pubsub = l
    <3>1. ~Ends(l)
      BY <2>1, <2>2, <2>4, ListenerMoves DEF Ends
    <3>2. listener[l] \in Listeners
      BY ListenerTypes
    <3>3. CASE EnterSelect(l)
      <4>1. listener'[l].at = "select" /\ listener'[l].waitsOn = stopCh
        <5>1. listener'[l] = [At(l, "select") EXCEPT !.waitsOn = stopCh]
          BY <3>3, ListenerMoves DEF EnterSelect
        <5> QED
          BY <3>2, <5>1 DEF At, Listeners
      <4> QED
        BY <1>5, <2>1, <2>2, <2>4, <4>1, ListenerEffect DEF Alive
    <3>4. CASE ~EnterSelect(l)
      <4>1. listener'[l].at \in {"looping", "notified", "asking"}
        <5>1. ~BeginPanics(l)
          BY <2>1 DEF BeginPanics, Unlocked
        <5>2. CASE Begin(l) \/ ReceiveNil(l)
          <6>1. listener'[l] = At(l, "looping")
                \/ listener'[l] = [At(l, "looping") EXCEPT !.source = pubsub]
            BY <5>2, ListenerMoves DEF Begin, ReceiveNil
          <6> QED
            BY <3>2, <6>1 DEF At, Listeners
        <5>3. CASE Receive(l)
          BY <5>3, ReceiveEffect
        <5>4. CASE LookUp(l)
          <6>1. \/ listener'[l] = Idle(l)
                \/ listener'[l] = [At(l, "asking") EXCEPT !.asks = client, !.tells = handlers]
            BY <5>4, ListenerMoves DEF LookUp
          <6> QED
            BY <3>2, <6>1, IdleLooks DEF At, Listeners
        <5>5. CASE Tell(l) \/ TellsNobody(l)
          BY <5>5, IdleLooks, ListenerMoves DEF Tell, TellsNobody, GoesOn
        <5> QED
          BY <1>5, <3>1, <3>4, <5>1, <5>2, <5>3, <5>4, <5>5 DEF ListenerStep
      <4> QED
        BY <1>5, <2>1, <2>2, <2>4, <4>1, ListenerEffect DEF Alive
    <3> QED
      BY <3>3, <3>4
  <2> QED
    BY <2>3, <2>4
<1>6. ASSUME NEW s \in Watches, Renew(s) \/ Break(s) PROVE SubscriptionIsServed'
  BY <1>6 DEF Renew, Break, stopVars, watchVars, SubscriptionIsServed, Alive, Open, Unlocked
<1>7. CASE Connect \/ Change \/ Run \/ UNCHANGED vars
  BY <1>7 DEF Connect, Change, Run, vars, stopVars, subscriptionVars, watchVars,
              SubscriptionIsServed, Alive, Open, Unlocked
<1> QED
  BY <1>1, <1>2, <1>3, <1>4, <1>5, <1>6, <1>7 DEF Next, DisconnectEnds

-----------------------------------------------------------------------------
(* The latest change is on its way.                                        *)

LEMMA Preserved ==
    ASSUME UNCHANGED <<pubsub, queue, version, calls, told>>, NEW h,
           \A l \in Watches : Busy(l) => listener'[l] = listener[l],
           OnItsWay(h)
    PROVE  OnItsWay(h)'
BY DEF OnItsWay, Notified, Held, Called, Busy

LEMMA LatestListenerStep ==
    ASSUME IInv, NEW l \in Watches, ListenerStep(l)
    PROVE  LatestIsOnItsWay'
<1> USE DEF IInv
<1> SUFFICES ASSUME NEW h \in handlers, pubsub \in live, OnItsWay(h), version > missed'
             PROVE  OnItsWay(h)'
  <2>1. /\ UNCHANGED <<handlers, pubsub, live, since, version>>
    BY ListenerEffect DEF watchVars
  <2>2. version \in Nat /\ missed \in Nat /\ listener[l].held \in Nat
    BY ListenerTypes DEF TypeOK, Listeners
  <2>3. missed' \in Nat /\ missed' >= missed
    <3>1. missed' \in {missed, listener[l].held} /\ (missed' # missed => listener[l].held > missed)
      BY DEF ListenerStep, Begin, BeginPanics, EnterSelect, Ends, Receive, ReceiveNil, LookUp,
         Tell,
             TellsNobody, keyVars
    <3> QED
      BY <2>2, <3>1
  <2> QED
    BY <2>1, <2>2, <2>3 DEF LatestIsOnItsWay
<1>0. /\ UNCHANGED <<pubsub, told, version>> /\ pubsub \in Watches /\ h \in Watches
      /\ \A k \in Watches : k # l => listener'[k] = listener[k]
  BY ListenerEffect DEF TypeOK
<1>1. CASE Receive(l)
  <2> DEFINE s == listener[l].source
  <2>1. /\ s \in Watches /\ queue[s] \in Seq(1 .. MaxChanges) /\ queue[s] # <<>>
        /\ listener'[l].source = s
        /\ listener'[l].at = "notified" /\ listener'[l].held = queue[s][1]
        /\ Len(queue'[s]) = Len(queue[s]) - 1
        /\ \A k \in 1 .. Len(queue'[s]) : queue'[s][k] = queue[s][k + 1]
        /\ \A r \in Watches : r # s => queue'[r] = queue[r]
        /\ UNCHANGED calls
    BY <1>1, ReceiveEffect
  <2>2. ~Busy(l)
    BY <1>1, ListenerMoves DEF Receive, Busy
  <2>3. Held(h) => Held(h)'
    BY <1>0, <2>2 DEF Held, Busy
  <2>4. ASSUME Notified PROVE OnItsWay(h)'
    <3>1. CASE pubsub # s
      BY <1>0, <2>1, <2>4, <3>1 DEF Notified, OnItsWay
    <3>2. CASE pubsub = s /\ Len(queue[s]) = 1
      <4>1. Busy(l)' /\ listener'[l].held = version' /\ listener'[l].at = "notified"
        BY <1>0, <2>1, <2>4, <3>2 DEF Notified, Busy
      <4> QED
        BY <4>1 DEF Held, OnItsWay
    <3>3. CASE pubsub = s /\ Len(queue[s]) # 1
      <4>1. Len(queue[s]) \in Nat /\ Len(queue[s]) > 1
        <5>1. \A q \in Seq(1 .. MaxChanges) :
                 q # <<>> => Len(q) \in Nat /\ (Len(q) = 1 \/ Len(q) > 1)
          <6>1. \A n \in Nat : n # 0 => n = 1 \/ n > 1
            OBVIOUS
          <6>2. \A q \in Seq(1 .. MaxChanges) : q # <<>> => Len(q) \in Nat /\ Len(q) # 0
            OBVIOUS
          <6> QED
            BY <6>1, <6>2
        <5>2. queue[s] \in Seq(1 .. MaxChanges) /\ queue[s] # <<>> /\ Len(queue[s]) # 1
          BY <2>1, <3>3
        <5> QED
          BY <5>1, <5>2
      <4> HIDE DEF s
      <4>2. Len(queue'[s]) > 0 /\ queue'[s][Len(queue'[s])] = queue[s][Len(queue[s])]
        <5>1. Len(queue'[s]) \in 1 .. Len(queue'[s]) /\ Len(queue'[s]) > 0
              /\ Len(queue'[s]) + 1 = Len(queue[s])
          BY <2>1, <4>1
        <5> QED
          BY <2>1, <5>1
      <4>3. queue'[s] # <<>>
        BY <4>2
      <4> QED
        BY <1>0, <2>4, <3>3, <4>2, <4>3 DEF Notified, OnItsWay
    <3> QED
      BY <3>1, <3>2, <3>3
  <2> QED
    BY <1>0, <2>1, <2>3, <2>4 DEF OnItsWay, Called
<1>2. CASE LookUp(l)
  <2>1. client # 0 /\ listener[l].at = "notified"
        /\ listener'[l] = [At(l, "asking") EXCEPT !.asks = client, !.tells = handlers]
        /\ UNCHANGED <<queue, calls>>
    <3>1. client # 0
      BY <1>0 DEF SubscriptionHasClient, Watches
    <3> QED
      BY <1>2, <3>1, ListenerMoves DEF LookUp
  <2>2. /\ listener'[l].at = "asking" /\ listener'[l].tells = handlers
        /\ listener'[l].held = listener[l].held /\ listener'[l].source = listener[l].source
    BY <2>1, ListenerTypes DEF At, Listeners
  <2>3. Held(h) => Held(h)'
    <3> SUFFICES ASSUME NEW k \in Watches, Busy(k), listener[k].held = version,
                        listener[k].at = "asking" => h \in listener[k].tells
                 PROVE  Held(h)'
      BY DEF Held
    <3>1. CASE k # l
      BY <1>0, <3>1 DEF Held, Busy
    <3>2. CASE k = l
      BY <1>0, <2>2, <3>2 DEF Held, Busy
    <3> QED
      BY <3>1, <3>2
  <2> QED
    BY <1>0, <2>1, <2>3 DEF OnItsWay, Notified, Called
<1>3. CASE Tell(l)
  <2>1. /\ calls' = calls \cup
              {[handler |-> g, change |-> listener[l].held, value |-> version] :
                  g \in listener[l].tells}
        /\ queue' = queue /\ listener[l].at = "asking"
    BY <1>3, ListenerMoves DEF Tell, ValueNow
  <2>2. h \in listener[l].tells => Called(h)'
    <3>1. [handler |-> h, change |-> listener[l].held, value |-> version].handler = h
          /\ [handler |-> h, change |-> listener[l].held, value |-> version].value = version
      OBVIOUS
    <3> QED
      BY <1>0, <2>1, <3>1 DEF Called
  <2>3. Held(h) => Held(h)' \/ h \in listener[l].tells
    BY <1>0, <2>1 DEF Held, Busy
  <2> QED
    BY <1>0, <2>1, <2>2, <2>3 DEF OnItsWay, Notified, Called
<1>4. CASE TellsNobody(l)
  <2>1. /\ missed' = IF listener[l].held > missed THEN listener[l].held ELSE missed
        /\ UNCHANGED <<queue, calls>> /\ missed \in Nat /\ version \in Nat
    BY <1>4 DEF TellsNobody, TypeOK
  <2>2. listener[l].held # version
    BY <1>0, <2>1
  <2>3. Held(h) => Held(h)'
    BY <1>0, <2>2 DEF Held, Busy
  <2> QED
    BY <1>0, <2>1, <2>3 DEF OnItsWay, Notified, Called
<1>5. CASE ~Receive(l) /\ ~LookUp(l) /\ ~Tell(l) /\ ~TellsNobody(l)
  <2>1. UNCHANGED <<queue, calls>> /\ listener[l].at \in {"spawned", "looping", "select"}
    BY <1>5 DEF ListenerStep, Begin, BeginPanics, EnterSelect, Ends, ReceiveNil, ListenerGoes,
                subscriptionVars, toldVars
  <2> QED
    BY <1>0, <2>1, Preserved DEF Busy
<1> QED
  BY <1>1, <1>2, <1>3, <1>4, <1>5

LEMMA LatestStep == ASSUME IInv, [Next]_vars PROVE LatestIsOnItsWay'
<1> USE DEF IInv
<1>0. version \in Nat /\ (pubsub \in live => pubsub \in Watches)
  BY DEF TypeOK
<1>1. CASE CloseStopCh
  <2>1. \A l \in Watches : Busy(l) => listener'[l] = listener[l]
    BY <1>1 DEF CloseStopCh, Busy, Parked
  <2> QED
    BY <1>1, <2>1, Preserved
    DEF LatestIsOnItsWay, CloseStopCh, clientVars, subscriptionVars, watchVars, toldVars,
    keyVars
<1>2. CASE ClosePubSub
  BY <1>2 DEF ClosePubSub, NoSubscription, NoLongerNotified, LatestIsOnItsWay, TypeOK, Watches
<1>3. CASE Connect \/ CloseClient \/ CloseFails \/ UNCHANGED vars
  BY <1>3, Preserved
  DEF LatestIsOnItsWay, Connect, CloseClient, CloseFails, vars, subscriptionVars, watchVars,
      toldVars, keyVars
<1>4. ASSUME NEW w \in Watches, WatchKey(w) PROVE LatestIsOnItsWay'
  <2>1. CASE NeedsListener
    BY <1>0, <1>4, <2>1 DEF LatestIsOnItsWay, WatchKey
  <2>2. CASE ~NeedsListener
    <3>1. /\ UNCHANGED <<pubsub, live, queue, version, missed, calls, told, listener>>
          /\ handlers' = handlers \cup {w} /\ since' = [since EXCEPT ![w] = version]
      BY <1>4, <2>2 DEF WatchKey, toldVars
    <3>2. ASSUME NEW h \in handlers', version' > since'[h] PROVE h \in handlers /\ since'[h] = since[h]
      BY <1>0, <3>1, <3>2 DEF TypeOK
    <3> QED
      BY <3>1, <3>2, Preserved DEF LatestIsOnItsWay
  <2> QED
    BY <2>1, <2>2
<1>5. ASSUME NEW w \in Watches, Cancel(w) \/ Break(w) PROVE LatestIsOnItsWay'
  BY <1>5, Preserved
  DEF LatestIsOnItsWay, Cancel, Break, subscriptionVars, watchVars, toldVars, keyVars
<1>6. ASSUME NEW s \in Watches, Renew(s) PROVE LatestIsOnItsWay'
  BY <1>0, <1>6 DEF LatestIsOnItsWay, Renew
<1>7. CASE Change
  <2>1. ASSUME pubsub \in live PROVE Notified'
    <3>1. queue'[pubsub] = Append(queue[pubsub], version') /\ pubsub' = pubsub
      BY <1>0, <1>7, <2>1 DEF Change
    <3>2. queue[pubsub] \in Seq(1 .. MaxChanges)
      BY <1>0, <2>1 DEF TypeOK
    <3> QED
      BY <3>1, <3>2 DEF Notified
  <2> QED
    BY <1>7, <2>1 DEF LatestIsOnItsWay, OnItsWay, Change
<1>8. CASE Run
  <2>1. PICK call \in calls :
           /\ calls' = calls \ {call}
           /\ told' = [told EXCEPT ![call.handler] = IF call.value > @ THEN call.value ELSE @]
           /\ UNCHANGED <<clientVars, stopVars, subscriptionVars, listener, watchVars, keyVars>>
    BY <1>8 DEF Run
  <2>2. /\ call.handler \in Watches /\ call.value \in Nat /\ call.value <= version
        /\ \A h \in Watches : told[h] \in Nat /\ told[h] <= version
    BY <1>0 DEF TypeOK, NothingFromTheFuture
  <2>3. ASSUME NEW h \in Watches, OnItsWay(h) PROVE OnItsWay(h)'
    <3>1. Notified \/ Held(h) => OnItsWay(h)'
      BY <2>1 DEF subscriptionVars, keyVars, OnItsWay, Notified, Held, Busy
    <3>2. told[h] = version => told'[h] = version'
      BY <2>1, <2>2 DEF TypeOK, keyVars
    <3>3. ASSUME NEW c \in calls, c.handler = h, c.value = version PROVE OnItsWay(h)'
      <4>1. CASE c = call
        BY <2>1, <2>2, <3>3, <4>1 DEF TypeOK, keyVars, OnItsWay
      <4>2. CASE c # call
        BY <2>1, <3>3, <4>2 DEF keyVars, OnItsWay, Called
      <4> QED
        BY <4>1, <4>2
    <3> QED
      BY <2>3, <3>1, <3>2, <3>3 DEF OnItsWay, Called
  <2> QED
    BY <2>1, <2>3 DEF LatestIsOnItsWay, subscriptionVars, watchVars, keyVars, TypeOK
<1> QED
  BY <1>1, <1>2, <1>3, <1>4, <1>5, <1>6, <1>7, <1>8, LatestListenerStep DEF Next, DisconnectEnds

LEMMA Invariance == Spec => []IInv
<1>1. IInv /\ [Next]_vars => IInv'
  <2> SUFFICES ASSUME IInv, [Next]_vars PROVE IInv'
    OBVIOUS
  <2> QED
    BY TypeStep, StructureStep, FutureStep, ServedStep, LatestStep DEF IInv
<1> QED
  BY <1>1, InitHolds, PTL DEF Spec

-----------------------------------------------------------------------------
(* All parts of the state have their type, and the server does not notify  *)
(* a subscription that was closed.                                         *)
THEOREM TypeCorrect == Spec => []TypeOK
  BY Invariance, PTL DEF IInv

(* No Disconnect leaves a listener behind: the open subscription has one,  *)
(* and it waits for the stop channel that the next Disconnect will close   *)
(* (handleKeyspaceNotifications, redis/client.go:269).                     *)
THEOREM SubscriptionServed == Spec => []SubscriptionIsServed
  BY Invariance, PTL DEF IInv

(* When nothing is under way, a watched key's handlers know its value.     *)
THEOREM QuietIsTold == Spec => []QuietMeansTold
<1>1. IInv => QuietMeansTold
  BY DEF IInv, LatestIsOnItsWay, QuietMeansTold, Watched, OnItsWay, Notified, Held, Called
<1> QED
  BY <1>1, Invariance, PTL
=============================================================================
