------------------------ MODULE VariableUpdatesProofs ----------------------
(***************************************************************************)
(* Proofs about VariableUpdates, for any variables and writers and any     *)
(* capacity of the channel.  Those about the observer are for a PLC that   *)
(* was started once: its only handler is h.                                *)
(***************************************************************************)
EXTENDS VariableUpdates, TLAPS

(***************************************************************************)
(* Where the last accepted update of a variable is: last in the channel,   *)
(* or in the handler's hands, or seen.                                     *)
(***************************************************************************)
InQueue(v) == \E i \in 1 .. Len(queue) : queue[i].var = v

LastOfQueue(v, i) ==
    queue[i].var = v /\ \A j \in 1 .. Len(queue) : queue[j].var = v => j <= i

NotifiedIsLast(h, v) ==
    /\ \A i \in 1 .. Len(queue) : LastOfQueue(v, i) => queue[i].val = notified[v]
    /\ (~InQueue(v) /\ holding[h] # <<>> /\ Head(holding[h]).var = v) =>
          Head(holding[h]).val = notified[v]
    /\ (~InQueue(v) /\ (holding[h] = <<>> \/ Head(holding[h]).var # v)) =>
          seen[v] = notified[v]

LastIsNotified(h) == \A v \in Vars : NotifiedIsLast(h, v)

(***************************************************************************)
(* The stamps of one writer are in order from its call of SetValue through *)
(* the channel and the handler to the observer.                            *)
(***************************************************************************)
Before(a, b) == a[1] = b[1] => a[2] < b[2]

StampsInOrder(h) ==
    /\ \A i, j \in 1 .. Len(queue) : i < j => Before(queue[i].val, queue[j].val)
    /\ \A i \in 1 .. Len(queue) :
          /\ holding[h] # <<>> => Before(Head(holding[h]).val, queue[i].val)
          /\ delivered[queue[i].val[1]] < queue[i].val[2]
          /\ queue[i].val[2] <= written[queue[i].val[1]]
    /\ holding[h] # <<>> =>
          LET s == Head(holding[h]).val
          IN  delivered[s[1]] < s[2] /\ s[2] <= written[s[1]]
    /\ \A w \in Writers : delivered[w] <= written[w]

\* What a writer has still to offer is younger than all that is under way.
PendingIsNewest(h) ==
    \A w \in Writers : pending[w] # <<>> =>
        LET s == Head(pending[w]).val IN
        /\ s = <<w, written[w]>>
        /\ \A i \in 1 .. Len(queue) : Before(queue[i].val, s)
        /\ holding[h] # <<>> => Before(Head(holding[h]).val, s)
        /\ delivered[w] < s[2]

OrderInv(h) == StampsInOrder(h) /\ PendingIsNewest(h)

(***************************************************************************)
(* What w, the only writer of v, has still to offer of v is its current    *)
(* value; with nothing to offer, the channel was told that value or the    *)
(* last update was dropped.                                                *)
(***************************************************************************)
Offers(w, v) == pending[w] # <<>> /\ Head(pending[w]).var = v

CurrentFor(v, w) ==
    /\ \A x \in Writers : Offers(x, v) => x = w
    /\ Offers(w, v) => Head(pending[w]).val = value[v]
    /\ ~Offers(w, v) /\ ~lost[v] => notified[v] = value[v]

NotifiedIsCurrent ==
    \A v \in Vars, w \in Writers : WritersOf[v] = {w} => CurrentFor(v, w)

-----------------------------------------------------------------------------
(* Types.                                                                  *)
LEMMA StampType == TypeOK => \A w \in Writers : written[w] < MaxWrites => NextStamp(w) \in Stamps
  BY ConstantsAssumption DEF TypeOK, NextStamp, Stamps

LEMMA HeldUpdate ==
    ASSUME NEW q \in AtMostOne(Updates), q # <<>>
    PROVE  Head(q) \in Updates /\ q = <<Head(q)>>
  BY DEF AtMostOne

LEMMA TypeStep == TypeOK /\ [Next]_vars => TypeOK'
<1> SUFFICES ASSUME TypeOK, [Next]_vars PROVE TypeOK'
  OBVIOUS
<1> USE ConstantsAssumption
<1>1. ASSUME NEW w \in Writers, NEW v \in Vars, Store(w, v) PROVE TypeOK'
  <2>1. NextStamp(w) \in Stamps /\ UpdateFor(w, v) \in Updates
    BY <1>1, StampType DEF Store, UpdateFor, Updates
  <2>2. value' \in [Vars -> Values] /\ quality' \in [Vars -> {"good", "bad"}]
    BY <1>1, <2>1 DEF Store, TypeOK, Values
  <2>3. written' \in [Writers -> 0 .. MaxWrites]
    BY <1>1 DEF Store, TypeOK
  <2>4. pending' \in [Writers -> AtMostOne(Updates)]
    BY <1>1, <2>1 DEF Store, TypeOK, AtMostOne
  <2> QED
    BY <1>1, <2>2, <2>3, <2>4 DEF Store, TypeOK, handlerVars, history
<1>2. ASSUME NEW w \in Writers, Accept(w) PROVE TypeOK'
  <2> DEFINE u == Head(pending[w])
  <2>1. u \in Updates /\ u.var \in Vars /\ u.val \in Values
    BY <1>2, HeldUpdate DEF Accept, TypeOK, Updates, Values
  <2>2. queue' \in Seq(Updates) /\ Len(queue') <= ChanCap
    BY <1>2, <2>1 DEF Accept, HasRoom, Enqueued, TypeOK
  <2>3. pending' \in [Writers -> AtMostOne(Updates)]
    BY <1>2 DEF Accept, TypeOK, AtMostOne
  <2>4. notified' \in [Vars -> Values] /\ lost' \in [Vars -> BOOLEAN]
    BY <1>2, <2>1 DEF Accept, TypeOK
  <2> QED
    BY <1>2, <2>2, <2>3, <2>4 DEF Accept, TypeOK, varVars, handlerVars
<1>3. ASSUME NEW w \in Writers, Drop(w) PROVE TypeOK'
  BY <1>3 DEF Drop, TypeOK, AtMostOne, varVars, handlerVars
<1>4. ASSUME NEW v \in Vars, SetError(v) \/ ClearError(v) PROVE TypeOK'
  BY <1>4 DEF SetError, ClearError, QualityCleared, TypeOK, handlerVars, history
<1>5. ASSUME NEW h \in Handlers, StartHandler(h) \/ HandlerExit(h) PROVE TypeOK'
  BY <1>5 DEF StartHandler, HandlerExit, TypeOK, varVars, history
<1>6. ASSUME NEW h \in Handlers, Receive(h) PROVE TypeOK'
  <2>1. Head(queue) \in Updates /\ Tail(queue) \in Seq(Updates) /\ Len(Tail(queue)) <= ChanCap
    BY <1>6 DEF Receive, TypeOK
  <2> QED
    BY <1>6, <2>1 DEF Receive, TypeOK, AtMostOne, varVars, history
<1>7. ASSUME NEW h \in Handlers, Callback(h) PROVE TypeOK'
  <2> DEFINE u == Head(holding[h])
  <2>1. u \in Updates /\ u.var \in Vars /\ u.val \in Stamps
    BY <1>7, HeldUpdate DEF Callback, TypeOK, Updates
  <2>2. seen' \in [Vars -> Values]
    BY <1>7, <2>1 DEF Callback, TypeOK, Values
  <2>3. u.val[1] \in Writers /\ u.val[2] \in 0 .. MaxWrites
    BY <2>1 DEF Stamps
  <2>4. delivered' \in [Writers -> 0 .. MaxWrites]
    BY <1>7, <2>3 DEF Callback, TypeOK
  <2>5. holding' \in [Handlers -> AtMostOne(Updates)]
    BY <1>7 DEF Callback, TypeOK, AtMostOne
  <2> QED
    BY <1>7, <2>2, <2>4, <2>5 DEF Callback, GoesRound, TypeOK, varVars, history
<1>8. CASE Stop
  BY <1>8 DEF Stop, TypeOK, varVars, handlerVars, history
<1>9. CASE UNCHANGED vars
  BY <1>9 DEF vars, TypeOK, varVars, handlerVars, history
<1> QED
  BY <1>1, <1>2, <1>3, <1>4, <1>5, <1>6, <1>7, <1>8, <1>9 DEF Next, Offer

(* Types, and the channel's capacity: updateCh never holds more than       *)
(* ChanCap updates (runtime.go:90, 342-350).                               *)
THEOREM TypeCorrect == Spec => []TypeOK
<1>1. Init => TypeOK
  <2> SUFFICES ASSUME Init PROVE TypeOK
    OBVIOUS
  <2>1. /\ value \in [Vars -> Values] /\ seen \in [Vars -> Values]
        /\ notified \in [Vars -> Values]
    BY DEF Init, Values
  <2>2. written \in [Writers -> 0 .. MaxWrites] /\ delivered \in [Writers -> 0 .. MaxWrites]
    BY ConstantsAssumption DEF Init
  <2>3. pending \in [Writers -> AtMostOne(Updates)] /\ holding \in [Handlers -> AtMostOne(Updates)]
    BY DEF Init, AtMostOne
  <2>4. queue \in Seq(Updates) /\ Len(queue) <= ChanCap
    BY ConstantsAssumption DEF Init
  <2> QED
    BY <2>1, <2>2, <2>3, <2>4 DEF Init, TypeOK
<1> QED
  BY <1>1, TypeStep, PTL DEF Spec

-----------------------------------------------------------------------------
(* How the channel moves: what an accepted or a received update changes.   *)
LEMMA AcceptedQueue ==
    ASSUME TypeOK, NEW w \in Writers, Accept(w)
    PROVE  LET u == Head(pending[w]) IN
           /\ u \in Updates
           /\ Len(queue') = Len(queue) + 1
           /\ \A i \in 1 .. Len(queue) : queue'[i] = queue[i]
           /\ queue'[Len(queue) + 1] = u
  BY HeldUpdate DEF TypeOK, Accept, Enqueued

LEMMA ReceivedQueue ==
    ASSUME TypeOK, NEW h \in Handlers, Receive(h)
    PROVE  /\ Len(queue) > 0
           /\ Len(queue') = Len(queue) - 1
           /\ \A i \in 1 .. Len(queue') : queue'[i] = queue[i + 1]
           /\ holding'[h] = <<queue[1]>> /\ Head(holding'[h]) = queue[1]
           /\ holding'[h] # <<>>
  BY DEF TypeOK, Receive

LEMMA QueueIn == TypeOK => Len(queue) \in Nat /\ \A i \in 1 .. Len(queue) : queue[i] \in Updates
  BY DEF TypeOK

LEMMA LastStep ==
    ASSUME NEW h, Handlers = {h}, TypeOK, LastIsNotified(h), [Next]_vars
    PROVE  LastIsNotified(h)'
<1> USE DEF LastIsNotified, NotifiedIsLast
<1>1. ASSUME NEW w \in Writers, Accept(w) PROVE LastIsNotified(h)'
  <2> DEFINE u == Head(pending[w])
  <2>1. /\ u \in Updates
        /\ Len(queue) \in Nat
        /\ Len(queue') = Len(queue) + 1
        /\ \A i \in 1 .. Len(queue) : queue'[i] = queue[i]
        /\ queue'[Len(queue) + 1] = u
    BY <1>1, AcceptedQueue, QueueIn
  <2>2. /\ notified' = [notified EXCEPT ![u.var] = u.val]
        /\ UNCHANGED <<holding, seen>>
    BY <1>1 DEF Accept, handlerVars
  <2>3. u.var \in Vars /\ notified \in [Vars -> Values]
    BY <2>1 DEF Updates, TypeOK
  <2> SUFFICES ASSUME NEW v \in Vars PROVE NotifiedIsLast(h, v)'
    OBVIOUS
  <2>4. CASE v = u.var
    BY <2>1, <2>2, <2>3, <2>4 DEF LastOfQueue, InQueue
  <2>5. CASE v # u.var
    <3>1. notified'[v] = notified[v]
      BY <2>2, <2>3, <2>5
    <3>2. InQueue(v)' <=> InQueue(v)
      BY <2>1, <2>5 DEF InQueue
    <3>3. \A i \in 1 .. Len(queue') : LastOfQueue(v, i)' =>
             i \in 1 .. Len(queue) /\ LastOfQueue(v, i)
      BY <2>1, <2>5 DEF LastOfQueue
    <3> QED
      BY <2>1, <2>2, <3>1, <3>2, <3>3
  <2> QED
    BY <2>4, <2>5
<1>2. ASSUME Receive(h), h \in Handlers PROVE LastIsNotified(h)'
  <2>1. /\ Len(queue) \in Nat /\ Len(queue) > 0
        /\ Len(queue') = Len(queue) - 1
        /\ \A i \in 1 .. Len(queue') : queue'[i] = queue[i + 1]
        /\ Head(holding'[h]) = queue[1] /\ holding'[h] # <<>>
    BY <1>2, ReceivedQueue, QueueIn
  <2>2. holding[h] = <<>> /\ UNCHANGED <<seen, notified>>
    BY <1>2 DEF Receive, history
  <2> SUFFICES ASSUME NEW v \in Vars PROVE NotifiedIsLast(h, v)'
    OBVIOUS
  <2>3. \A i \in 1 .. Len(queue') : LastOfQueue(v, i)' =>
           i + 1 \in 1 .. Len(queue) /\ LastOfQueue(v, i + 1)
    <3> SUFFICES ASSUME NEW i \in 1 .. Len(queue'), LastOfQueue(v, i)',
                        NEW j \in 1 .. Len(queue), queue[j].var = v
                 PROVE  j <= i + 1
      BY <2>1 DEF LastOfQueue
    <3>1. CASE j = 1
      BY <3>1
    <3>2. CASE j > 1
      <4>1. j - 1 \in 1 .. Len(queue') /\ queue'[j - 1] = queue[j]
        BY <2>1, <3>2
      <4> QED
        BY <2>1, <4>1 DEF LastOfQueue
    <3> QED
      BY <2>1, <3>1, <3>2
  <2>4. ~InQueue(v)' => \A j \in 1 .. Len(queue) : queue[j].var = v => j = 1
    <3> SUFFICES ASSUME NEW j \in 1 .. Len(queue), queue[j].var = v, j # 1
                 PROVE  InQueue(v)'
      OBVIOUS
    <3>1. j - 1 \in 1 .. Len(queue') /\ queue'[j - 1] = queue[j]
      BY <2>1
    <3> QED
      BY <3>1 DEF InQueue
  <2>5. 1 \in 1 .. Len(queue)
    BY <2>1
  <2>6. ~InQueue(v)' /\ queue[1].var = v => LastOfQueue(v, 1)
    BY <2>1, <2>4 DEF LastOfQueue
  <2>7. ~InQueue(v)' /\ queue[1].var # v => ~InQueue(v)
    BY <2>1, <2>4 DEF InQueue
  <2> QED
    BY <2>1, <2>2, <2>3, <2>5, <2>6, <2>7
<1>3. ASSUME Callback(h), h \in Handlers PROVE LastIsNotified(h)'
  <2>1. Head(holding[h]) \in Updates
    BY <1>3, HeldUpdate DEF Callback, TypeOK
  <2>2. holding'[h] = <<>>
    BY <1>3 DEF Callback, TypeOK
  <2> QED
    BY <1>3, <2>1, <2>2 DEF Callback, InQueue, LastOfQueue, TypeOK, Updates, history
<1>4. ASSUME UNCHANGED <<queue, holding, seen, notified>> PROVE LastIsNotified(h)'
  BY <1>4 DEF InQueue, LastOfQueue
<1>5. CASE Next
  BY <1>1, <1>2, <1>3, <1>4, <1>5
  DEF Next, Offer, Store, Drop, SetError, ClearError, StartHandler, HandlerExit, Stop,
      handlerVars, history
<1>6. CASE UNCHANGED vars
  BY <1>4, <1>6 DEF vars, handlerVars, history
<1> QED
  BY <1>5, <1>6

(* With one handler the observer is never left behind the channel: when    *)
(* nothing is on its way, what it saw last is what the channel took last.  *)
THEOREM ObserverCatchesUp ==
    ASSUME NEW h, Handlers = {h} PROVE Spec => []ObserverCaughtUp
<1>1. Init => LastIsNotified(h)
  <2> SUFFICES ASSUME Init PROVE LastIsNotified(h)
    OBVIOUS
  <2>1. 1 .. Len(queue) = {}
    BY DEF Init
  <2>2. \A v \in Vars : seen[v] = notified[v]
    BY DEF Init
  <2>3. holding[h] = <<>>
    BY DEF Init
  <2> QED
    BY <2>1, <2>2, <2>3 DEF LastIsNotified, NotifiedIsLast
<1>2. LastIsNotified(h) => ObserverCaughtUp
  BY DEF LastIsNotified, NotifiedIsLast, ObserverCaughtUp, Waiting, InQueue
<1>3. TypeOK /\ LastIsNotified(h) /\ [Next]_vars => LastIsNotified(h)'
  BY LastStep
<1> QED
  BY <1>1, <1>2, <1>3, TypeCorrect, PTL DEF Spec

-----------------------------------------------------------------------------
(* The order of one writer's stamps.                                       *)
LEMMA StampOf ==
    ASSUME NEW u \in Updates
    PROVE  /\ u.var \in Vars /\ u.val \in Stamps
           /\ u.val[1] \in Writers /\ u.val[2] \in Nat /\ u.val[2] >= 1
  BY ConstantsAssumption DEF Updates, Stamps

LEMMA OrderStep ==
    ASSUME NEW h, Handlers = {h}, TypeOK, OrderInv(h), [Next]_vars
    PROVE  OrderInv(h)'
<1> USE ConstantsAssumption DEF OrderInv, StampsInOrder, PendingIsNewest, Before
<1>0. /\ Len(queue) \in Nat
      /\ \A i \in 1 .. Len(queue) :
            queue[i].val[1] \in Writers /\ queue[i].val[2] \in Nat
      /\ holding[h] # <<>> =>
            Head(holding[h]).val[1] \in Writers /\ Head(holding[h]).val[2] \in Nat
      /\ \A w \in Writers : written[w] \in Nat /\ delivered[w] \in Nat
  BY QueueIn, StampOf, HeldUpdate DEF TypeOK
<1>1. ASSUME NEW w \in Writers, NEW v \in Vars, Store(w, v) PROVE OrderInv(h)'
  <2>1. /\ \A x \in Writers : written'[x] = IF x = w THEN written[w] + 1 ELSE written[x]
        /\ pending' = [pending EXCEPT ![w] = <<UpdateFor(w, v)>>]
        /\ UNCHANGED <<queue, holding, delivered>>
    BY <1>1 DEF Store, TypeOK, handlerVars
  <2>2. StampsInOrder(h)'
    <3>1. \A x \in Writers :
             written'[x] \in Nat /\ \A n \in Nat : n <= written[x] => n <= written'[x]
      BY <1>0, <2>1
    <3>2. \A i \in 1 .. Len(queue) : queue[i].val[2] <= written'[queue[i].val[1]]
      BY <1>0, <3>1
    <3>3. holding[h] # <<>> => Head(holding[h]).val[2] <= written'[Head(holding[h]).val[1]]
      BY <1>0, <3>1
    <3>4. \A x \in Writers : delivered[x] <= written'[x]
      BY <1>0, <3>1
    <3> QED
      BY <2>1, <3>2, <3>3, <3>4
  <2>3. ASSUME NEW x \in Writers, pending'[x] # <<>>
        PROVE  LET s == Head(pending'[x]).val IN
               /\ s = <<x, written'[x]>>
               /\ \A i \in 1 .. Len(queue) : Before(queue[i].val, s)
               /\ holding[h] # <<>> => Before(Head(holding[h]).val, s)
               /\ delivered[x] < s[2]
    <3>1. CASE x = w
      <4>1. Head(pending'[x]).val = <<w, written[w] + 1>>
        BY <2>1, <3>1 DEF TypeOK, UpdateFor, NextStamp
      <4>2. written'[x] = written[w] + 1
        BY <2>1, <3>1
      <4>3. \A i \in 1 .. Len(queue) :
                queue[i].val[1] = w => queue[i].val[2] < written[w] + 1
        BY <1>0
      <4>4. holding[h] # <<>> /\ Head(holding[h]).val[1] = w =>
                Head(holding[h]).val[2] < written[w] + 1
        BY <1>0
      <4>5. delivered[w] < written[w] + 1
        BY <1>0
      <4> QED
        BY <3>1, <4>1, <4>2, <4>3, <4>4, <4>5
    <3>2. CASE x # w
      BY <2>1, <2>3, <3>2 DEF TypeOK
    <3> QED
      BY <3>1, <3>2
  <2> QED
    BY <2>1, <2>2, <2>3
<1>2. ASSUME NEW w \in Writers, Accept(w) PROVE OrderInv(h)'
  <2> DEFINE u == Head(pending[w])
  <2>1. /\ u \in Updates
        /\ Len(queue') = Len(queue) + 1
        /\ \A i \in 1 .. Len(queue) : queue'[i] = queue[i]
        /\ queue'[Len(queue) + 1] = u
    BY <1>2, AcceptedQueue
  <2>2. /\ pending[w] # <<>> /\ pending'[w] = <<>>
        /\ \A x \in Writers \ {w} : pending'[x] = pending[x]
        /\ UNCHANGED <<written, holding, delivered>>
    BY <1>2 DEF Accept, TypeOK, handlerVars
  <2>3. /\ u.val = <<w, written[w]>> /\ delivered[w] < u.val[2]
        /\ \A i \in 1 .. Len(queue) : Before(queue[i].val, u.val)
        /\ holding[h] # <<>> => Before(Head(holding[h]).val, u.val)
    BY <2>2
  <2>4. u.val[1] = w /\ u.val[2] = written[w]
    BY <2>3
  <2>5. \A i \in 1 .. Len(queue') : i \in 1 .. Len(queue) \/ i = Len(queue) + 1
    BY <1>0, <2>1
  <2>6. \A i, j \in 1 .. Len(queue') : i < j => Before(queue'[i].val, queue'[j].val)
    <3>1. \A i, j \in 1 .. Len(queue) : i < j => Before(queue[i].val, queue[j].val)
      OBVIOUS
    <3>2. \A i, j \in 1 .. Len(queue') : i < j => i \in 1 .. Len(queue)
      BY <1>0, <2>1
    <3> HIDE DEF StampsInOrder, PendingIsNewest, Before, OrderInv, u
    <3> QED
      BY <2>1, <2>3, <2>5, <3>1, <3>2
  <2>7. \A i \in 1 .. Len(queue') :
          /\ holding[h] # <<>> => Before(Head(holding[h]).val, queue'[i].val)
          /\ delivered[queue'[i].val[1]] < queue'[i].val[2]
          /\ queue'[i].val[2] <= written[queue'[i].val[1]]
    BY <1>0, <2>1, <2>3, <2>4, <2>5
  <2>8. StampsInOrder(h)'
    BY <2>2, <2>6, <2>7
  <2>9. ASSUME NEW x \in Writers, pending'[x] # <<>>
        PROVE  LET s == Head(pending'[x]).val IN
               /\ s = <<x, written[x]>>
               /\ \A i \in 1 .. Len(queue') : Before(queue'[i].val, s)
               /\ holding[h] # <<>> => Before(Head(holding[h]).val, s)
               /\ delivered[x] < s[2]
    <3>1. x # w /\ pending'[x] = pending[x]
      BY <2>2, <2>9
    <3>2. Head(pending[x]).val[1] = x
      BY <2>9, <3>1
    <3> QED
      BY <2>1, <2>4, <2>5, <2>9, <3>1, <3>2
  <2> QED
    BY <2>2, <2>8, <2>9
<1>3. ASSUME NEW w \in Writers, Drop(w) PROVE OrderInv(h)'
  BY <1>3 DEF Drop, TypeOK, handlerVars
<1>4. ASSUME Receive(h), h \in Handlers PROVE OrderInv(h)'
  <2>1. /\ Len(queue) > 0 /\ Len(queue') = Len(queue) - 1
        /\ \A i \in 1 .. Len(queue') : queue'[i] = queue[i + 1]
        /\ Head(holding'[h]) = queue[1]
    BY <1>4, ReceivedQueue
  <2>2. UNCHANGED <<written, pending, delivered>>
    BY <1>4 DEF Receive
  <2>3. /\ 1 \in 1 .. Len(queue)
        /\ \A i \in 1 .. Len(queue') : i + 1 \in 1 .. Len(queue) /\ 1 < i + 1
    BY <1>0, <2>1
  <2>4. \A i, j \in 1 .. Len(queue') : i < j => Before(queue'[i].val, queue'[j].val)
    <3> SUFFICES ASSUME NEW i \in 1 .. Len(queue'), NEW j \in 1 .. Len(queue'), i < j
                 PROVE  Before(queue[i + 1].val, queue[j + 1].val)
      BY <2>1
    <3>1. i + 1 \in 1 .. Len(queue) /\ j + 1 \in 1 .. Len(queue) /\ i + 1 < j + 1
      BY <2>3
    <3> QED
      BY <3>1
  <2>5. \A i \in 1 .. Len(queue') :
          /\ Before(queue[1].val, queue'[i].val)
          /\ delivered[queue'[i].val[1]] < queue'[i].val[2]
          /\ queue'[i].val[2] <= written[queue'[i].val[1]]
    BY <2>1, <2>3
  <2>6. StampsInOrder(h)'
    BY <2>1, <2>2, <2>3, <2>4, <2>5
  <2>7. PendingIsNewest(h)'
    BY <2>1, <2>2, <2>3
  <2> QED
    BY <2>6, <2>7
<1>5. ASSUME Callback(h), h \in Handlers PROVE OrderInv(h)'
  <2> DEFINE s == Head(holding[h]).val
  <2>1. holding[h] # <<>> /\ s[1] \in Writers /\ s[2] \in Nat
    BY <1>0, <1>5 DEF Callback
  <2>2. \A x \in Writers : delivered'[x] = IF x = s[1] THEN s[2] ELSE delivered[x]
    BY <1>5, <2>1 DEF Callback, TypeOK
  <2>3. holding'[h] = <<>> /\ UNCHANGED <<written, pending, queue>>
    BY <1>5 DEF Callback, TypeOK
  <2>4. StampsInOrder(h)'
    BY <1>0, <2>1, <2>2, <2>3
  <2>5. PendingIsNewest(h)'
    BY <1>0, <2>1, <2>2, <2>3
  <2> QED
    BY <2>4, <2>5
<1>6. ASSUME UNCHANGED <<written, pending, queue, holding, delivered>> PROVE OrderInv(h)'
  BY <1>6
<1>7. CASE Next
  BY <1>1, <1>2, <1>3, <1>4, <1>5, <1>6, <1>7
  DEF Next, Offer, SetError, ClearError, StartHandler, HandlerExit, Stop, handlerVars
<1>8. CASE UNCHANGED vars
  BY <1>6, <1>8 DEF vars, handlerVars
<1> QED
  BY <1>7, <1>8

(* Every step of the channel, its writers and its handler is one of        *)
(* LossyDelivery, or none that it sees.                                    *)
LEMMA DeliveryStep ==
    ASSUME NEW h, Handlers = {h}, TypeOK, OrderInv(h), [Next]_vars
    PROVE  [D!Next]_(D!vars)
<1>1. /\ \A w \in Writers : written[w] \in Nat /\ delivered[w] \in Nat
      /\ \A w \in Writers : delivered[w] <= written[w]
      /\ written = [w \in Writers |-> written[w]]
  BY ConstantsAssumption DEF TypeOK, OrderInv, StampsInOrder
<1>2. ASSUME NEW w \in Writers, NEW v \in Vars, Store(w, v) PROVE [D!Next]_(D!vars)
  <2>1. written' = [x \in Writers |-> IF x \in {w} THEN written[x] + 1 ELSE written[x]]
    BY <1>2 DEF Store, TypeOK
  <2>2. UNCHANGED delivered
    BY <1>2 DEF Store, handlerVars
  <2>3. {w} \in SUBSET Writers
    OBVIOUS
  <2> QED
    BY <2>1, <2>2, <2>3 DEF D!Next, D!Send
<1>3. CASE Callback(h) /\ h \in Handlers
  <2> DEFINE s == Head(holding[h]).val
  <2>1. s[1] \in Writers /\ s[2] \in Nat /\ delivered[s[1]] < s[2] /\ s[2] <= written[s[1]]
    BY <1>3, HeldUpdate, StampOf DEF Callback, TypeOK, OrderInv, StampsInOrder
  <2>2. delivered' = [delivered EXCEPT ![s[1]] = s[2]]
    BY <1>3 DEF Callback
  <2>3. delivered' \in [Writers -> Nat]
    BY <2>1, <2>2, ConstantsAssumption DEF TypeOK
  <2>4. \A w \in Writers : delivered[w] <= delivered'[w] /\ delivered'[w] <= written[w]
    BY <1>1, <2>1, <2>2 DEF TypeOK
  <2> QED
    BY <1>3, <2>3, <2>4 DEF Callback, D!Next, D!Receive
<1>4. CASE UNCHANGED <<written, delivered>>
  BY <1>4 DEF D!vars
<1> QED
  BY <1>2, <1>3, <1>4
  DEF Next, Offer, Accept, Drop, SetError, ClearError, StartHandler, Receive, HandlerExit, Stop,
      vars, handlerVars

(* updateCh with its one handler is a lossy delivery: whatever is dropped  *)
(* and whatever other writers do, what is shown of a writer's values is    *)
(* shown in the order in which it wrote them.                              *)
THEOREM DeliveryImplemented ==
    ASSUME NEW h, Handlers = {h} PROVE Spec => ShownInOrder
<1>1. Init => OrderInv(h) /\ D!Init
  <2> SUFFICES ASSUME Init PROVE OrderInv(h) /\ D!Init
    OBVIOUS
  <2>1. 1 .. Len(queue) = {} /\ holding[h] = <<>>
    BY DEF Init
  <2>2. \A w \in Writers : delivered[w] = 0 /\ written[w] = 0 /\ pending[w] = <<>>
    BY DEF Init
  <2> QED
    BY <2>1, <2>2 DEF Init, D!Init, OrderInv, StampsInOrder, PendingIsNewest
<1>2. TypeOK /\ OrderInv(h) /\ [Next]_vars => OrderInv(h)'
  BY OrderStep
<1>3. TypeOK /\ OrderInv(h) /\ [Next]_vars => [D!Next]_(D!vars)
  BY DeliveryStep
<1> QED
  BY <1>1, <1>2, <1>3, TypeCorrect, PTL DEF Spec, ShownInOrder, D!Spec

-----------------------------------------------------------------------------
(* Variables with one writer.                                              *)
LEMMA CurrentStep ==
    ASSUME TypeOK, NotifiedIsCurrent, [Next]_vars
    PROVE  NotifiedIsCurrent'
<1> SUFFICES ASSUME NEW v \in Vars, NEW w \in Writers, WritersOf[v] = {w}
             PROVE  CurrentFor(v, w)'
  BY DEF NotifiedIsCurrent
<1> USE DEF CurrentFor, Offers
<1>0. CurrentFor(v, w)
  BY DEF NotifiedIsCurrent
<1>1. ASSUME NEW x \in Writers, NEW y \in Vars, Store(x, y) PROVE CurrentFor(v, w)'
  <2>1. /\ Head(pending'[x]).var = y /\ Head(pending'[x]).val = NextStamp(x)
        /\ \A z \in Writers \ {x} : pending'[z] = pending[z]
        /\ pending[x] = <<>>
    BY <1>1 DEF Store, UpdateFor, TypeOK
  <2>2. \A z \in Vars : value'[z] = IF z = y THEN NextStamp(x) ELSE value[z]
    BY <1>1 DEF Store, TypeOK
  <2>3. y = v => x = w
    BY <1>1 DEF Store
  <2>4. lost' = lost /\ notified' = notified /\ pending'[x] # <<>>
    BY <1>1 DEF Store, history, TypeOK
  <2>5. \A z \in Writers : Offers(z, v)' => z = w
    BY <1>0, <2>1, <2>3
  <2>6. CASE y = v
    BY <1>0, <2>1, <2>2, <2>3, <2>4, <2>5, <2>6
  <2>7. CASE y # v
    BY <1>0, <2>1, <2>2, <2>4, <2>5, <2>7
  <2> QED
    BY <2>6, <2>7
<1>2. ASSUME NEW x \in Writers, Accept(x) PROVE CurrentFor(v, w)'
  <2> DEFINE u == Head(pending[x])
  <2>1. u.var \in Vars /\ pending'[x] = <<>>
        /\ \A z \in Writers \ {x} : pending'[z] = pending[z]
    BY <1>2, HeldUpdate, StampOf DEF Accept, TypeOK
  <2>2. \A z \in Vars : /\ notified'[z] = IF z = u.var THEN u.val ELSE notified[z]
                        /\ lost'[z] = IF z = u.var THEN FALSE ELSE lost[z]
    BY <1>2, <2>1 DEF Accept, TypeOK
  <2>3. value' = value /\ pending[x] # <<>>
    BY <1>2 DEF Accept, varVars
  <2>4. \A z \in Writers : Offers(z, v)' <=> z # x /\ Offers(z, v)
    BY <2>1
  <2>5. \A z \in Writers : Offers(z, v)' => z = w
    BY <1>0, <2>4
  <2>6. Offers(w, v)' => Head(pending'[w]).val = value'[v]
    BY <1>0, <2>1, <2>3, <2>4
  <2>7. CASE u.var = v
    <3>1. x = w /\ u.val = value[v]
      BY <1>0, <2>3, <2>7
    <3> QED
      BY <2>2, <2>3, <2>5, <2>6, <2>7, <3>1
  <2>8. CASE u.var # v
    <3>1. notified'[v] = notified[v] /\ lost'[v] = lost[v]
      BY <2>2, <2>8
    <3>2. Offers(w, v) => Offers(w, v)'
      BY <2>4, <2>8
    <3> QED
      BY <1>0, <2>3, <2>5, <2>6, <3>1, <3>2
  <2> QED
    BY <2>7, <2>8
<1>3. ASSUME NEW x \in Writers, Drop(x) PROVE CurrentFor(v, w)'
  <2> DEFINE u == Head(pending[x])
  <2>1. u.var \in Vars /\ pending'[x] = <<>>
        /\ \A z \in Writers \ {x} : pending'[z] = pending[z]
    BY <1>3, HeldUpdate, StampOf DEF Drop, TypeOK
  <2>2. \A z \in Vars : lost'[z] = IF z = u.var THEN TRUE ELSE lost[z]
    BY <1>3, <2>1 DEF Drop, TypeOK
  <2>3. value' = value /\ notified' = notified /\ pending[x] # <<>>
    BY <1>3 DEF Drop, varVars
  <2>4. \A z \in Writers : Offers(z, v)' <=> z # x /\ Offers(z, v)
    BY <2>1
  <2>5. Offers(w, v)' => Head(pending'[w]).val = value'[v]
    BY <1>0, <2>1, <2>3, <2>4
  <2>6. ~lost'[v] => ~lost[v] /\ (Offers(w, v) => Offers(w, v)')
    BY <2>2, <2>4
  <2> QED
    BY <1>0, <2>3, <2>4, <2>5, <2>6
<1>4. ASSUME UNCHANGED <<value, pending, history>> PROVE CurrentFor(v, w)'
  BY <1>0, <1>4 DEF history
<1>5. CASE Next
  BY <1>1, <1>2, <1>3, <1>4, <1>5
  DEF Next, Offer, SetError, ClearError, StartHandler, Receive, Callback, HandlerExit,
      Stop, varVars
<1>6. CASE UNCHANGED vars
  BY <1>4, <1>6 DEF vars, varVars
<1> QED
  BY <1>5, <1>6

(* With one handler, an observer with nothing left to see of a variable    *)
(* that only one goroutine writes holds its current value, unless the last *)
(* update was dropped.                                                     *)
THEOREM ObserverIsCurrent ==
    ASSUME NEW h, Handlers = {h} PROVE Spec => []ObserverCurrent
<1>1. Init => NotifiedIsCurrent
  BY DEF Init, NotifiedIsCurrent, CurrentFor, Offers
<1>2. TypeOK /\ NotifiedIsCurrent /\ [Next]_vars => NotifiedIsCurrent'
  BY CurrentStep
<1>3. NotifiedIsCurrent /\ ObserverCaughtUp => ObserverCurrent
  BY DEF NotifiedIsCurrent, CurrentFor, Offers, ObserverCaughtUp, ObserverCurrent,
      OneWriter, Offering
<1> QED
  BY <1>1, <1>2, <1>3, TypeCorrect, ObserverCatchesUp, PTL DEF Spec
=============================================================================
