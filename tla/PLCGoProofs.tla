---------------------------- MODULE PLCGoProofs ----------------------------
(***************************************************************************)
(* What is proved of the GraphQL server and of the whole program.  The     *)
(* theorems about GraphQLUpdates come first; SystemSpec implements Spec, so*)
(* that they hold of PLCGo as well.                                        *)
(***************************************************************************)
EXTENDS PLCGo, TLAPS

(***************************************************************************)
(* Types.                                                                  *)
(***************************************************************************)
LEMMA TypeInit == Init => TypeOK
BY ConstantsAssumption DEF Init, TypeOK, Snapshots, Defaults, Channels, Scanners

LEMMA ScannersTyped ==
    ASSUME TypeOK, NEW s \in Scanners
    PROVE  last[s] \in Snapshots /\ todo[s] \subseteq Vars
BY DEF TypeOK

LEMMA TypeNext == ASSUME TypeOK, [Next]_vars PROVE TypeOK'
<1> USE ConstantsAssumption DEF TypeOK
<1>1. ASSUME NEW v \in Vars, Write(v) PROVE TypeOK'
  BY <1>1 DEF Write, pubsubVars, scanVars, requestVars, Snapshots
<1>2. ASSUME NEW i \in Ids, Subscribe(i) PROVE TypeOK'
  <2>1. chanId' \in Seq(Ids) /\ Len(chanId') = Len(chanId) + 1 /\ Len(chanId') <= MaxChannels
    BY <1>2 DEF Subscribe
  <2>2. subscribers' \in [Ids -> 0 .. Len(chanId')]
    BY <1>2, <2>1 DEF Subscribe
  <2>3. chan' \in [Channels -> {"unused", "open", "closed"}]
    BY <1>2 DEF Subscribe
  <2> QED
    BY <1>2, <2>1, <2>2, <2>3 DEF Subscribe, scanVars, requestVars
<1>3. ASSUME NEW i \in Ids, Unsubscribe(i) PROVE TypeOK'
  <2>1. subscribers' = [subscribers EXCEPT ![i] = 0] /\ UNCHANGED chanId
    BY <1>3 DEF Unsubscribe, Deleted
  <2>2. 0 \in 0 .. Len(chanId)
    BY SMT
  <2>3. subscribers' \in [Ids -> 0 .. Len(chanId')]
    BY <2>1, <2>2
  <2>4. chan' \in [Channels -> {"unused", "open", "closed"}]
    BY <1>3 DEF Unsubscribe
  <2> QED
    BY <1>3, <2>1, <2>3, <2>4 DEF Unsubscribe, scanVars, requestVars
<1>4. ASSUME NEW c \in Channels, Take(c) PROVE TypeOK'
  <2>1. Head(queue[c]) \in Snapshots /\ Tail(queue[c]) \in Seq(Snapshots)
        /\ Len(Tail(queue[c])) <= ChanCap
    BY <1>4 DEF Take
  <2>2. shown' \in [Channels -> Snapshots] /\ queue' \in [Channels -> Seq(Snapshots)]
        /\ \A d \in Channels : Len(queue'[d]) <= ChanCap
    BY <1>4, <2>1 DEF Take
  <2> QED
    BY <1>4, <2>2 DEF Take, scanVars, requestVars
<1>5. ASSUME NEW s \in Scanners, NEW v \in Vars, ReadOne(s, v) PROVE TypeOK'
  <2>1. version[v] \in Nat
    BY DEF Snapshots
  <2>2. [last[s] EXCEPT ![v] = version[v]] \in Snapshots
    BY <2>1 DEF Snapshots
  <2>3. last' = [last EXCEPT ![s] = [last[s] EXCEPT ![v] = version[v]]]
    BY <1>5 DEF ReadOne
  <2>4. last' \in [Scanners -> Snapshots]
    BY <2>2, <2>3
  <2>5. todo' \in [Scanners -> SUBSET Vars]
    BY <1>5 DEF ReadOne
  <2> QED
    BY <1>5, <2>4, <2>5 DEF ReadOne, pubsubVars, requestVars
<1>6. Defaults \in Snapshots
  BY DEF Defaults, Snapshots
<1>7. ASSUME NEW p \in Publishers, Tick(p) PROVE TypeOK'
  BY <1>7 DEF Tick, Goes, Scanners, pubsubVars, requestVars
<1>8. ASSUME NEW p \in Publishers, Publish(p) PROVE TypeOK'
  <2>1. last[p] \in Snapshots
    BY DEF Scanners
  <2>2. queue' = [c \in Channels |-> IF Subscribed(c) /\ HasRoom(c) THEN Sent(c, last[p])
                                                                   ELSE queue[c]]
    BY <1>8 DEF Publish, Published
  <2>3. ASSUME NEW c \in Channels
        PROVE  queue'[c] \in Seq(Snapshots) /\ Len(queue'[c]) <= ChanCap
    BY <2>1, <2>2 DEF HasRoom, Sent
  <2>4. queue' \in [Channels -> Seq(Snapshots)]
    BY <2>2, <2>3
  <2>5. last' \in [Scanners -> Snapshots] /\ pc' \in [Scanners -> {"waiting", "reading", "asking",
                                                                  "answering", "answered"}]
    BY <1>6, <1>8 DEF Publish, Goes, NextTick
  <2> QED
    BY <1>8, <2>3, <2>4, <2>5 DEF Publish, requestVars
<1>9. ASSUME NEW p \in Publishers, PublishFails(p) PROVE TypeOK'
  BY <1>6, <1>9 DEF PublishFails, Goes, pubsubVars, requestVars
<1>10. ASSUME NEW r \in Requests, Arrive(r) PROVE TypeOK'
  <2>1. PICK asks \in BOOLEAN, t \in Vars \cup {Nothing} :
           /\ todo' = [todo EXCEPT ![r] = IF asks THEN Vars ELSE {}]
           /\ target' = [target EXCEPT ![r] = t]
    BY <1>10 DEF Arrive
  <2>2. /\ pc' = [pc EXCEPT ![r] = "asking"] /\ floor' = [floor EXCEPT ![r] = version]
        /\ UNCHANGED <<version, pubsubVars, last>>
    BY <1>10 DEF Arrive, Goes
  <2>3. todo' \in [Scanners -> SUBSET Vars] /\ target' \in [Requests -> Vars \cup {Nothing}]
    BY <2>1
  <2>4. floor' \in [Requests -> Snapshots]
        /\ pc' \in [Scanners -> {"waiting", "reading", "asking", "answering", "answered"}]
    BY <2>2
  <2> QED
    BY <2>2, <2>3, <2>4 DEF pubsubVars
<1>11. ASSUME NEW r \in Requests, SetValue(r) PROVE TypeOK'
  <2>1. target[r] \in Vars /\ version[target[r]] + 1 \in Nat
    BY <1>11 DEF SetValue, Snapshots
  <2>2. version' \in Snapshots
    BY <1>11, <2>1 DEF SetValue, Snapshots
  <2>3. [floor[r] EXCEPT ![target[r]] = version[target[r]] + 1] \in Snapshots
    BY <2>1 DEF Snapshots
  <2>4. floor' = [floor EXCEPT ![r] = [floor[r] EXCEPT ![target[r]] = version[target[r]] + 1]]
    BY <1>11 DEF SetValue
  <2>5. floor' \in [Requests -> Snapshots]
    BY <2>3, <2>4
  <2>6. todo' \in [Scanners -> SUBSET Vars]
        /\ pc' \in [Scanners -> {"waiting", "reading", "asking", "answering", "answered"}]
    BY <1>11 DEF SetValue, Goes, Everything
  <2> QED
    BY <1>11, <2>2, <2>5, <2>6 DEF SetValue, pubsubVars
<1>12. ASSUME NEW r \in Requests, Answer(r) PROVE TypeOK'
  BY <1>6, <1>12 DEF Answer, pubsubVars
<1>13. CASE UNCHANGED vars
  BY <1>13 DEF vars, pubsubVars, scanVars, requestVars
<1> QED
  BY <1>1, <1>2, <1>3, <1>4, <1>5, <1>7, <1>8, <1>9, <1>10, <1>11, <1>12, <1>13
  DEF Next, PublisherStep, RequestStep, Scanners

(* The server's variables keep their types, and no channel holds more than *)
(* it was made for, for any variables, publishers, requests and bounds.    *)
THEOREM TypeCorrect == Spec => []TypeOK
<1>1. Init => TypeOK
  BY TypeInit
<1>2. TypeOK /\ [Next]_vars => TypeOK'
  BY TypeNext
<1> QED
  BY <1>1, <1>2, PTL DEF Spec

-----------------------------------------------------------------------------
(***************************************************************************)
(* PubSub.  The map's entries differ: each is the channel of its own id.   *)
(***************************************************************************)
EntriesAreOwn == \A i \in Ids : subscribers[i] # 0 => chanId[subscribers[i]] = i

MapInv == TypeOK /\ EntriesAreOwn /\ MapIsOpenChannels

LEMMA MapStep == ASSUME MapInv, [Next]_vars PROVE EntriesAreOwn' /\ MapIsOpenChannels'
<1> DEFINE n == Len(chanId)
<1> USE ConstantsAssumption DEF MapInv
<1>0. /\ chanId \in Seq(Ids) /\ n \in Nat /\ n <= MaxChannels
      /\ subscribers \in [Ids -> 0 .. n]
      /\ chan \in [Channels -> {"unused", "open", "closed"}]
      /\ \A c \in 1 .. n : chanId[c] \in Ids
  BY DEF TypeOK
<1>1. ASSUME NEW i \in Ids, Subscribe(i) PROVE EntriesAreOwn' /\ MapIsOpenChannels'
  <2>1. /\ Len(chanId') = n + 1 /\ chanId'[n + 1] = i
        /\ \A c \in 1 .. n : chanId'[c] = chanId[c]
    BY <1>0, <1>1 DEF Subscribe
  <2>2. n + 1 \in Channels
    BY <1>0, <1>1 DEF Subscribe, Channels
  <2>3. /\ chan'[n + 1] = "open"
        /\ \A c \in Channels : c # n + 1 => chan'[c] = chan[c]
    BY <1>0, <1>1, <2>1, <2>2 DEF Subscribe
  <2>4. \A j \in Ids : subscribers'[j] = IF j = i THEN n + 1 ELSE subscribers[j]
    BY <1>0, <1>1, <2>1 DEF Subscribe
  <2>5. EntriesAreOwn'
    BY <1>0, <2>1, <2>4 DEF EntriesAreOwn
  <2>6. \A j \in Ids : subscribers'[j] # 0 => chan'[subscribers'[j]] = "open"
    BY <1>0, <2>3, <2>4 DEF MapIsOpenChannels, Channels
  <2>7. ASSUME NEW c \in 1 .. n + 1, chan'[c] = "open"
        PROVE  \/ subscribers'[chanId'[c]] = c
               \/ \E d \in c + 1 .. n + 1 : chanId'[d] = chanId'[c]
    <3>1. CASE c = n + 1
      BY <2>1, <2>4, <3>1
    <3>2. CASE c # n + 1
      <4>1. c \in 1 .. n /\ chan[c] = "open" /\ chanId'[c] = chanId[c] /\ chanId[c] \in Ids
        <5>1. c \in 1 .. n /\ c \in Channels
          BY <1>0, <3>2 DEF Channels
        <5> QED
          BY <1>0, <2>1, <2>3, <2>7, <3>2, <5>1
      <4>2. CASE chanId[c] = i
        BY <1>0, <2>1, <4>1, <4>2
      <4>3. CASE chanId[c] # i /\ subscribers[chanId[c]] = c
        BY <2>4, <4>1, <4>3
      <4>4. CASE \E d \in c + 1 .. n : chanId[d] = chanId[c]
        BY <1>0, <2>1, <4>1, <4>4
      <4> QED
        BY <4>1, <4>2, <4>3, <4>4 DEF MapIsOpenChannels
    <3> QED
      BY <3>1, <3>2
  <2> QED
    BY <2>1, <2>5, <2>6, <2>7 DEF MapIsOpenChannels
<1>2. ASSUME NEW i \in Ids, Unsubscribe(i) PROVE EntriesAreOwn' /\ MapIsOpenChannels'
  <2>1. /\ subscribers[i] # 0 /\ subscribers[i] \in Channels /\ chanId[subscribers[i]] = i
        /\ chanId' = chanId
    BY <1>0, <1>2 DEF Unsubscribe, Channels, EntriesAreOwn
  <2>2. \A c \in Channels : chan'[c] = IF c = subscribers[i] THEN "closed" ELSE chan[c]
    BY <1>0, <1>2, <2>1 DEF Unsubscribe
  <2>3. \A j \in Ids : subscribers'[j] = IF j = i THEN 0 ELSE subscribers[j]
    BY <1>0, <1>2 DEF Unsubscribe, Deleted
  <2>4. EntriesAreOwn'
    BY <2>1, <2>3 DEF EntriesAreOwn
  <2>5. \A j \in Ids : subscribers'[j] # 0 => chan'[subscribers'[j]] = "open"
    BY <1>0, <2>1, <2>2, <2>3 DEF MapIsOpenChannels, EntriesAreOwn, Channels
  <2>6. ASSUME NEW c \in 1 .. n, chan'[c] = "open"
        PROVE  subscribers'[chanId[c]] = c \/ \E d \in c + 1 .. n : chanId[d] = chanId[c]
    <3>1. c # subscribers[i] /\ chan[c] = "open" /\ chanId[c] \in Ids
      BY <1>0, <2>1, <2>2, <2>6 DEF Channels
    <3> QED
      BY <2>3, <3>1 DEF MapIsOpenChannels
  <2> QED
    BY <2>1, <2>4, <2>5, <2>6 DEF MapIsOpenChannels
<1>3. ASSUME UNCHANGED <<subscribers, chanId, chan>> PROVE EntriesAreOwn' /\ MapIsOpenChannels'
  BY <1>3 DEF EntriesAreOwn, MapIsOpenChannels, Channels
<1>4. CASE Next
  BY <1>1, <1>2, <1>3, <1>4
  DEF Next, Write, Take, PublisherStep, RequestStep, ReadOne, Tick, Publish, PublishFails,
      Arrive, SetValue, Answer, pubsubVars
<1>5. CASE UNCHANGED vars
  BY <1>3, <1>5 DEF vars, pubsubVars
<1> QED
  BY <1>4, <1>5

(* Publish and Unsubscribe never meet a closed channel, and an open one is *)
(* in the map or its id was given to Subscribe again, for any ids.         *)
THEOREM MapIsOpen == Spec => []MapIsOpenChannels
<1>1. Init => MapInv
  <2>1. Init => EntriesAreOwn /\ MapIsOpenChannels
    BY DEF Init, EntriesAreOwn, MapIsOpenChannels
  <2> QED
    BY <2>1, TypeInit DEF MapInv
<1>2. MapInv /\ [Next]_vars => MapInv'
  BY TypeNext, MapStep DEF MapInv
<1>3. MapInv => MapIsOpenChannels
  BY DEF MapInv
<1> QED
  BY <1>1, <1>2, <1>3, PTL DEF Spec

-----------------------------------------------------------------------------
(***************************************************************************)
(* Answers.  No value is read that the variable has not had, and what an   *)
(* answer must have seen is a value the variable has had.                  *)
(***************************************************************************)
NothingFromTheFuture ==
    /\ \A s \in Scanners, v \in Vars : last[s][v] <= version[v]
    /\ \A r \in Requests, v \in Vars : floor[r][v] <= version[v]

\* The reading whose result will be the answer.
ReadsAnswer(r) == pc[r] = "answering" \/ (pc[r] = "asking" /\ target[r] = Nothing)

ReadIsFresh ==
    \A r \in Requests : ReadsAnswer(r) => \A v \in Vars \ todo[r] : floor[r][v] <= last[r][v]

FreshInv == TypeOK /\ NothingFromTheFuture /\ ReadIsFresh

LEMMA VersionsAreNats ==
    ASSUME TypeOK
    PROVE  /\ \A v \in Vars : version[v] \in Nat
           /\ \A s \in Scanners, v \in Vars : last[s][v] \in Nat
           /\ \A r \in Requests, v \in Vars : floor[r][v] \in Nat
BY DEF TypeOK, Snapshots

(* Versions only grow.                                                     *)
LEMMA VersionsGrow ==
    ASSUME TypeOK, [Next]_vars
    PROVE  \A v \in Vars : version[v] <= version'[v]
<1>0. \A v \in Vars : version[v] \in Nat
  BY VersionsAreNats
<1>1. ASSUME NEW v \in Vars, version' = [version EXCEPT ![v] = @ + 1]
      PROVE  \A w \in Vars : version[w] <= version'[w]
  BY <1>0, <1>1 DEF TypeOK, Snapshots
<1>2. ASSUME version' = version PROVE \A w \in Vars : version[w] <= version'[w]
  BY <1>0, <1>2
<1>3. ASSUME NEW r \in Requests, SetValue(r) PROVE target[r] \in Vars
  BY <1>3 DEF SetValue, TypeOK
<1> QED
  BY <1>1, <1>2, <1>3
  DEF Next, Write, Subscribe, Unsubscribe, Take, PublisherStep, RequestStep, ReadOne, Tick,
      Publish, PublishFails, Arrive, SetValue, Answer, pubsubVars, vars

(* What the steps do to last: a value is read, or what was read is used.   *)
LEMMA LastStep ==
    ASSUME TypeOK, [Next]_vars, NEW s \in Scanners
    PROVE  \/ UNCHANGED last[s]
           \/ last'[s] = Defaults
           \/ \E v \in Vars : ReadOne(s, v) /\ last'[s] = [last[s] EXCEPT ![v] = version[v]]
<1>1. ASSUME NEW q \in Scanners, last' = [last EXCEPT ![q] = Defaults]
      PROVE  UNCHANGED last[s] \/ last'[s] = Defaults
  BY <1>1 DEF TypeOK
<1>2. ASSUME NEW q \in Scanners, NEW v \in Vars, ReadOne(q, v)
      PROVE  \/ UNCHANGED last[s]
             \/ ReadOne(s, v) /\ last'[s] = [last[s] EXCEPT ![v] = version[v]]
  BY <1>2 DEF ReadOne, TypeOK
<1>3. \A p \in Publishers : p \in Scanners
  BY DEF Scanners
<1>4. \A r \in Requests : r \in Scanners
  BY DEF Scanners
<1> QED
  BY <1>1, <1>2, <1>3, <1>4
  DEF Next, Write, Subscribe, Unsubscribe, Take, PublisherStep, RequestStep, Tick,
      Publish, PublishFails, Arrive, SetValue, Answer, scanVars, vars

LEMMA FutureStep ==
    ASSUME TypeOK, TypeOK', NothingFromTheFuture, [Next]_vars
    PROVE  NothingFromTheFuture'
<1>0. /\ \A v \in Vars : version[v] \in Nat /\ version'[v] \in Nat /\ version[v] <= version'[v]
      /\ \A s \in Scanners, v \in Vars : last[s][v] \in Nat
      /\ \A r \in Requests, v \in Vars : floor[r][v] \in Nat
  BY VersionsAreNats, VersionsGrow DEF TypeOK, Snapshots
<1>1. ASSUME NEW s \in Scanners, NEW v \in Vars PROVE last'[s][v] <= version'[v]
  <2>1. CASE UNCHANGED last[s]
    BY <1>0, <2>1 DEF NothingFromTheFuture
  <2>2. CASE last'[s] = Defaults
    BY <1>0, <2>2 DEF Defaults
  <2>3. ASSUME NEW w \in Vars, last'[s] = [last[s] EXCEPT ![w] = version[w]]
        PROVE  last'[s][v] <= version'[v]
    BY <1>0, <2>3 DEF NothingFromTheFuture, TypeOK, Snapshots
  <2> QED
    BY <2>1, <2>2, <2>3, LastStep
<1>2. ASSUME NEW r \in Requests, NEW v \in Vars PROVE floor'[r][v] <= version'[v]
  <2>1. CASE UNCHANGED floor
    BY <1>0, <2>1 DEF NothingFromTheFuture
  <2>2. ASSUME NEW q \in Requests, Arrive(q) PROVE floor'[r][v] <= version'[v]
    <3>1. floor' = [floor EXCEPT ![q] = version] /\ version' = version
      BY <2>2 DEF Arrive
    <3> QED
      BY <1>0, <3>1 DEF NothingFromTheFuture, TypeOK
  <2>3. ASSUME NEW q \in Requests, SetValue(q) PROVE floor'[r][v] <= version'[v]
    <3>1. target[q] \in Vars
      BY <2>3 DEF SetValue, TypeOK
    <3>2. floor[q] \in Snapshots /\ version \in Snapshots
      BY DEF TypeOK
    <3>3. CASE r = q /\ v = target[q]
      <4>1. floor'[r][v] = version[v] + 1
        BY <2>3, <3>1, <3>2, <3>3 DEF SetValue, TypeOK, Snapshots
      <4>2. version'[v] = version[v] + 1
        BY <2>3, <3>1, <3>2, <3>3 DEF SetValue, Snapshots
      <4> QED
        BY <1>0, <4>1, <4>2
    <3>4. CASE ~(r = q /\ v = target[q])
      <4>1. floor'[r][v] = floor[r][v]
        BY <2>3, <3>1, <3>2, <3>4 DEF SetValue, TypeOK, Snapshots
      <4> QED
        BY <1>0, <4>1 DEF NothingFromTheFuture
    <3> QED
      BY <3>3, <3>4
  <2>4. ASSUME NEW q \in Requests, Answer(q) PROVE floor'[r][v] <= version'[v]
    <3>1. floor' = [floor EXCEPT ![q] = Defaults] /\ version' = version
      BY <2>4 DEF Answer
    <3> QED
      BY <1>0, <3>1 DEF NothingFromTheFuture, TypeOK, Defaults
  <2> QED
    BY <2>1, <2>2, <2>3, <2>4
    DEF Next, Write, Subscribe, Unsubscribe, Take, PublisherStep, RequestStep, ReadOne, Tick,
        Publish, PublishFails, requestVars, vars
<1> QED
  BY <1>1, <1>2 DEF NothingFromTheFuture

LEMMA ReadIsFreshStep ==
    ASSUME FreshInv, [Next]_vars
    PROVE  ReadIsFresh'
<1> USE DEF FreshInv
<1>0. /\ \A v \in Vars : version[v] \in Nat
      /\ \A r \in Requests : r \in Scanners /\ last[r] \in Snapshots
      /\ \A p \in Publishers : p \in Scanners /\ p \notin Requests
  BY ConstantsAssumption DEF TypeOK, Scanners, Snapshots
<1> SUFFICES ASSUME NEW r \in Requests, ReadsAnswer(r)', NEW v \in Vars \ todo'[r]
             PROVE  floor'[r][v] <= last'[r][v]
  BY DEF ReadIsFresh
<1>1. ASSUME NEW s \in Scanners, NEW w \in Vars, ReadOne(s, w) PROVE floor'[r][v] <= last'[r][v]
  <2>1. UNCHANGED <<pc, target, floor>>
    BY <1>1 DEF ReadOne, requestVars
  <2>2. CASE s = r /\ v = w
    <3>1. last'[r][v] = version[v]
      BY <1>0, <1>1, <2>2 DEF ReadOne, TypeOK, Snapshots
    <3> QED
      BY <2>1, <3>1 DEF NothingFromTheFuture
  <2>3. CASE ~(s = r /\ v = w)
    <3>1. last'[r][v] = last[r][v] /\ v \notin todo[r]
      BY <1>0, <1>1, <2>3 DEF ReadOne, TypeOK, Snapshots
    <3> QED
      BY <2>1, <3>1 DEF ReadIsFresh, ReadsAnswer
  <2> QED
    BY <2>2, <2>3
<1>2. ASSUME NEW q \in Requests, Arrive(q) PROVE floor'[r][v] <= last'[r][v]
  <2>1. PICK asks \in BOOLEAN, t \in Vars \cup {Nothing} :
           /\ asks \/ t # Nothing
           /\ todo' = [todo EXCEPT ![q] = IF asks THEN Vars ELSE {}]
           /\ target' = [target EXCEPT ![q] = t]
    BY <1>2 DEF Arrive
  <2>2. pc' = [pc EXCEPT ![q] = "asking"] /\ floor' = [floor EXCEPT ![q] = version]
        /\ last' = last
    BY <1>2 DEF Arrive, Goes
  <2>3. CASE r = q
    <3>1. pc'[r] = "asking" /\ target'[r] = t
      BY <1>0, <2>1, <2>2, <2>3 DEF TypeOK
    <3>2. todo'[r] = Vars
      BY <1>0, <2>1, <2>3, <3>1 DEF ReadsAnswer, TypeOK
    <3> QED
      BY <3>2
  <2>4. CASE r # q
    BY <1>0, <2>1, <2>2, <2>4 DEF ReadIsFresh, ReadsAnswer, TypeOK
  <2> QED
    BY <2>3, <2>4
<1>3. ASSUME NEW q \in Requests, SetValue(q) PROVE floor'[r][v] <= last'[r][v]
  <2>1. CASE r = q
    BY <1>0, <1>3, <2>1 DEF SetValue, Everything, TypeOK
  <2>2. CASE r # q
    BY <1>0, <1>3, <2>2 DEF SetValue, Goes, ReadIsFresh, ReadsAnswer, TypeOK
  <2> QED
    BY <2>1, <2>2
<1>4. ASSUME NEW q \in Requests, Answer(q) PROVE floor'[r][v] <= last'[r][v]
  <2>1. CASE r = q
    BY <1>0, <1>4, <2>1 DEF Answer, ReadsAnswer, TypeOK
  <2>2. CASE r # q
    BY <1>0, <1>4, <2>2 DEF Answer, ReadIsFresh, ReadsAnswer, TypeOK
  <2> QED
    BY <2>1, <2>2
<1>5. ASSUME NEW p \in Publishers, Tick(p) \/ Publish(p) \/ PublishFails(p)
      PROVE  floor'[r][v] <= last'[r][v]
  <2>1. p # r
    BY <1>0
  <2>2. /\ pc'[r] = pc[r] /\ todo'[r] = todo[r] /\ last'[r] = last[r]
        /\ UNCHANGED <<target, floor>>
    BY <1>0, <1>5, <2>1 DEF Tick, Publish, PublishFails, Goes, TypeOK, requestVars
  <2> QED
    BY <2>2 DEF ReadIsFresh, ReadsAnswer
<1>6. ASSUME UNCHANGED <<scanVars, requestVars>> PROVE floor'[r][v] <= last'[r][v]
  BY <1>6 DEF scanVars, requestVars, ReadIsFresh, ReadsAnswer
<1>7. CASE Next
  BY <1>0, <1>1, <1>2, <1>3, <1>4, <1>5, <1>6, <1>7
  DEF Next, PublisherStep, RequestStep, Write, Subscribe, Unsubscribe, Take
<1>8. CASE UNCHANGED vars
  BY <1>6, <1>8 DEF vars
<1> QED
  BY <1>7, <1>8

LEMMA FreshInvariant == Spec => []FreshInv
<1>1. Init => FreshInv
  <2>1. Init => NothingFromTheFuture
    BY DEF Init, NothingFromTheFuture, Defaults
  <2>2. Init => ReadIsFresh
    BY DEF Init, ReadIsFresh, ReadsAnswer, Scanners
  <2> QED
    BY <2>1, <2>2, TypeInit DEF FreshInv
<1>2. FreshInv /\ [Next]_vars => FreshInv'
  BY TypeNext, FutureStep, ReadIsFreshStep DEF FreshInv
<1> QED
  BY <1>1, <1>2, PTL DEF Spec

(* An answer shows no value that is older than its question, and what a    *)
(* mutation has set, for any number of requests, variables and writers.    *)
THEOREM Fresh == Spec => []AnswersAreFresh
<1>1. FreshInv => AnswersAreFresh
  BY DEF FreshInv, ReadIsFresh, ReadsAnswer, AnswersAreFresh, Answers, AllRead
<1> QED
  BY <1>1, FreshInvariant, PTL

-----------------------------------------------------------------------------
(***************************************************************************)
(* Subscribers.  With one publisher the snapshots of a channel are in the  *)
(* order in which they were read, and what the publisher is reading is     *)
(* newer than what it has published.                                       *)
(***************************************************************************)
OnePublisher == \A p, q \in Publishers : p = q

\* Of variable v, n is no newer than what waits in channel c.
NoNewerThan(n, c, v) == \A k \in 1 .. Len(queue[c]) : n <= queue[c][k][v]

SnapshotsInOrder ==
    \A c \in Channels, v \in Vars :
        /\ shown[c][v] <= version[v]
        /\ NoNewerThan(shown[c][v], c, v)
        /\ \A k \in 1 .. Len(queue[c]) : queue[c][k][v] <= version[v]
        /\ \A j, k \in 1 .. Len(queue[c]) : j <= k => queue[c][j][v] <= queue[c][k][v]

ReadIsNewest ==
    \A p \in Publishers : pc[p] = "reading" =>
        \A v \in Vars \ todo[p], c \in Channels :
            /\ shown[c][v] <= last[p][v]
            /\ \A k \in 1 .. Len(queue[c]) : queue[c][k][v] <= last[p][v]

OrderInv == TypeOK /\ NothingFromTheFuture /\ SnapshotsInOrder /\ ReadIsNewest

LEMMA SnapshotsAreNats ==
    ASSUME TypeOK, NEW c \in Channels, NEW v \in Vars
    PROVE  /\ shown[c][v] \in Nat /\ version[v] \in Nat
           /\ queue[c] \in Seq(Snapshots)
           /\ \A k \in 1 .. Len(queue[c]) : queue[c][k] \in Snapshots /\ queue[c][k][v] \in Nat
BY DEF TypeOK, Snapshots

(* Taking a snapshot, or adding one, keeps a channel in order.             *)
LEMMA TakeInOrder ==
    ASSUME OrderInv, NEW c \in Channels, Take(c)
    PROVE  SnapshotsInOrder' /\ ReadIsNewest'
<1> USE DEF OrderInv
<1>1. /\ queue[c] \in Seq(Snapshots) /\ queue[c] # <<>>
      /\ shown'[c] = queue[c][1] /\ queue'[c] = Tail(queue[c])
      /\ \A d \in Channels : d # c => shown'[d] = shown[d] /\ queue'[d] = queue[d]
      /\ UNCHANGED <<version, pc, todo, last>>
  BY DEF Take, TypeOK, scanVars
<1>2. /\ Len(queue'[c]) = Len(queue[c]) - 1 /\ 1 \in 1 .. Len(queue[c])
      /\ \A k \in 1 .. Len(queue'[c]) :
            k + 1 \in 1 .. Len(queue[c]) /\ queue'[c][k] = queue[c][k + 1]
  BY <1>1
<1>3. SnapshotsInOrder'
  <2> SUFFICES ASSUME NEW d \in Channels, NEW v \in Vars
               PROVE  /\ shown'[d][v] <= version'[v]
                      /\ NoNewerThan(shown[d][v], d, v)'
                      /\ \A k \in 1 .. Len(queue'[d]) : queue'[d][k][v] <= version'[v]
                      /\ \A j, k \in 1 .. Len(queue'[d]) : j <= k => queue'[d][j][v] <= queue'[d][k][v]
    BY DEF SnapshotsInOrder
  <2>1. CASE d # c
    BY <1>1, <2>1 DEF SnapshotsInOrder, NoNewerThan
  <2>2. CASE d = c
    <3>1. shown'[c][v] <= version[v]
      BY <1>1, <1>2 DEF SnapshotsInOrder
    <3>2. \A k \in 1 .. Len(queue'[c]) : shown'[c][v] <= queue'[c][k][v] /\ queue'[c][k][v] <= version[v]
      BY <1>1, <1>2 DEF SnapshotsInOrder
    <3>3. ASSUME NEW j \in 1 .. Len(queue'[c]), NEW k \in 1 .. Len(queue'[c]), j <= k
          PROVE  queue'[c][j][v] <= queue'[c][k][v]
      <4>1. /\ j + 1 \in 1 .. Len(queue[c]) /\ k + 1 \in 1 .. Len(queue[c]) /\ j + 1 <= k + 1
            /\ queue'[c][j] = queue[c][j + 1] /\ queue'[c][k] = queue[c][k + 1]
        BY <1>2, <3>3
      <4>2. queue[c][j + 1][v] <= queue[c][k + 1][v]
        BY <4>1 DEF SnapshotsInOrder
      <4> QED
        BY <4>1, <4>2
    <3> QED
      BY <1>1, <2>2, <3>1, <3>2, <3>3 DEF NoNewerThan
  <2> QED
    BY <2>1, <2>2
<1>4. ReadIsNewest'
  <2> SUFFICES ASSUME NEW p \in Publishers, pc[p] = "reading", NEW v \in Vars \ todo[p],
                      NEW d \in Channels
               PROVE  /\ shown'[d][v] <= last[p][v]
                      /\ \A k \in 1 .. Len(queue'[d]) : queue'[d][k][v] <= last[p][v]
    BY <1>1 DEF ReadIsNewest
  <2>1. /\ shown[d][v] <= last[p][v]
        /\ \A k \in 1 .. Len(queue[d]) : queue[d][k][v] <= last[p][v]
    BY DEF ReadIsNewest
  <2>2. CASE d # c
    BY <1>1, <2>1, <2>2
  <2>3. CASE d = c
    <3>1. shown'[d][v] <= last[p][v]
      BY <1>1, <1>2, <2>1, <2>3
    <3>2. ASSUME NEW k \in 1 .. Len(queue'[d]) PROVE queue'[d][k][v] <= last[p][v]
      <4>1. k + 1 \in 1 .. Len(queue[d]) /\ queue'[d][k] = queue[d][k + 1]
        BY <1>2, <2>3
      <4> QED
        BY <2>1, <4>1
    <3> QED
      BY <3>1, <3>2
  <2> QED
    BY <2>2, <2>3
<1> QED
  BY <1>3, <1>4

LEMMA PublishInOrder ==
    ASSUME OrderInv, OnePublisher, NEW p \in Publishers, Publish(p)
    PROVE  SnapshotsInOrder' /\ ReadIsNewest'
<1> USE DEF OrderInv
<1>1. /\ pc[p] = "reading" /\ todo[p] = {} /\ pc' = [pc EXCEPT ![p] = "waiting"]
      /\ queue' = Published(last[p]) /\ UNCHANGED <<version, shown>>
      /\ p \in Scanners /\ last[p] \in Snapshots
  BY DEF Publish, Goes, AllRead, NextTick, Scanners, TypeOK
<1>2. \A q \in Publishers : pc'[q] # "reading"
  BY <1>1 DEF OnePublisher, TypeOK
<1>3. ASSUME NEW c \in Channels
      PROVE  queue'[c] = queue[c] \/ queue'[c] = Append(queue[c], last[p])
  BY <1>1 DEF Published, Sent
<1>4. ASSUME NEW c \in Channels, NEW v \in Vars
      PROVE  /\ shown'[c][v] <= version'[v]
             /\ NoNewerThan(shown[c][v], c, v)'
             /\ \A k \in 1 .. Len(queue'[c]) : queue'[c][k][v] <= version'[v]
             /\ \A j, k \in 1 .. Len(queue'[c]) : j <= k => queue'[c][j][v] <= queue'[c][k][v]
  <2>0. /\ shown[c][v] \in Nat /\ version[v] \in Nat /\ last[p][v] \in Nat
        /\ queue[c] \in Seq(Snapshots)
        /\ \A k \in 1 .. Len(queue[c]) : queue[c][k] \in Snapshots /\ queue[c][k][v] \in Nat
    BY <1>1, SnapshotsAreNats, VersionsAreNats
  <2>1. CASE queue'[c] = queue[c]
    BY <1>1, <2>1 DEF SnapshotsInOrder, NoNewerThan
  <2>2. CASE queue'[c] = Append(queue[c], last[p])
    <3>1. /\ Len(queue'[c]) = Len(queue[c]) + 1 /\ queue'[c][Len(queue[c]) + 1] = last[p]
          /\ \A k \in 1 .. Len(queue[c]) : queue'[c][k] = queue[c][k]
      BY <1>1, <2>0, <2>2
    <3>2. /\ last[p][v] <= version[v] /\ shown[c][v] <= last[p][v]
          /\ \A k \in 1 .. Len(queue[c]) : queue[c][k][v] <= last[p][v]
      BY <1>1 DEF NothingFromTheFuture, ReadIsNewest
    <3>3. \A k \in 1 .. Len(queue'[c]) : shown[c][v] <= queue'[c][k][v] /\ queue'[c][k][v] <= version[v]
      <4>1. ASSUME NEW k \in 1 .. Len(queue[c])
            PROVE  shown[c][v] <= queue[c][k][v] /\ queue[c][k][v] <= version[v]
        BY <4>1 DEF SnapshotsInOrder, NoNewerThan
      <4>2. ASSUME NEW k \in 1 .. Len(queue'[c])
            PROVE  shown[c][v] <= queue'[c][k][v] /\ queue'[c][k][v] <= version[v]
        <5>1. k \in 1 .. Len(queue[c]) \/ k = Len(queue[c]) + 1
          BY <2>0, <3>1
        <5> QED
          BY <3>1, <3>2, <4>1, <5>1
      <4> QED
        BY <4>2
    <3>4. \A j, k \in 1 .. Len(queue'[c]) : j <= k => queue'[c][j][v] <= queue'[c][k][v]
      <4> SUFFICES ASSUME NEW j \in 1 .. Len(queue'[c]), NEW k \in 1 .. Len(queue'[c]), j <= k
                   PROVE  queue'[c][j][v] <= queue'[c][k][v]
        OBVIOUS
      <4>1. CASE k \in 1 .. Len(queue[c])
        <5>1. j \in 1 .. Len(queue[c])
          BY <2>0, <3>1, <4>1
        <5>2. queue[c][j][v] <= queue[c][k][v]
          BY <4>1, <5>1 DEF SnapshotsInOrder
        <5> QED
          BY <3>1, <4>1, <5>1, <5>2
      <4>2. CASE k = Len(queue[c]) + 1
        <5>1. queue'[c][k] = last[p] /\ last[p][v] <= last[p][v]
          BY <2>0, <3>1, <4>2
        <5>2. j \in 1 .. Len(queue[c]) \/ j = Len(queue[c]) + 1
          BY <2>0, <3>1
        <5> QED
          BY <3>1, <3>2, <5>1, <5>2
      <4> QED
        BY <2>0, <3>1, <4>1, <4>2
    <3> QED
      BY <1>1, <3>3, <3>4, <2>0, <3>2 DEF NoNewerThan, SnapshotsInOrder
  <2> QED
    BY <1>3, <2>1, <2>2
<1> QED
  BY <1>2, <1>4 DEF SnapshotsInOrder, ReadIsNewest

LEMMA OrderStep ==
    ASSUME OrderInv, OnePublisher, [Next]_vars
    PROVE  SnapshotsInOrder' /\ ReadIsNewest'
<1> USE DEF OrderInv
<1>0. /\ \A v \in Vars : version[v] <= version'[v] /\ version[v] \in Nat /\ version'[v] \in Nat
      /\ \A p \in Publishers : p \in Scanners /\ last[p] \in Snapshots
      /\ \A r \in Requests : r \notin Publishers /\ r \in Scanners
  <2>1. TypeOK'
    BY TypeNext
  <2> QED
    BY <2>1, VersionsGrow, ConstantsAssumption DEF TypeOK, Snapshots, Scanners
<1>1. ASSUME UNCHANGED <<queue, shown>> PROVE SnapshotsInOrder'
  <2> SUFFICES ASSUME NEW c \in Channels, NEW v \in Vars
               PROVE  /\ shown[c][v] <= version'[v]
                      /\ \A k \in 1 .. Len(queue[c]) : queue[c][k][v] <= version'[v]
    BY <1>1 DEF SnapshotsInOrder, NoNewerThan
  <2> QED
    BY <1>0, SnapshotsAreNats DEF SnapshotsInOrder
<1>2. ASSUME UNCHANGED <<queue, shown>>,
             \A p \in Publishers : pc'[p] = "reading" =>
                pc[p] = "reading" /\ todo'[p] = todo[p] /\ last'[p] = last[p]
      PROVE  ReadIsNewest'
  BY <1>2 DEF ReadIsNewest
<1>3. ASSUME NEW s \in Scanners, NEW w \in Vars, ReadOne(s, w)
      PROVE  SnapshotsInOrder' /\ ReadIsNewest'
  <2>1. UNCHANGED <<queue, shown, pc>>
    BY <1>3 DEF ReadOne, pubsubVars
  <2>2. ASSUME NEW p \in Publishers, pc[p] = "reading", NEW v \in Vars \ todo'[p],
               NEW c \in Channels
        PROVE  shown[c][v] <= last'[p][v]
               /\ \A k \in 1 .. Len(queue[c]) : queue[c][k][v] <= last'[p][v]
    <3>1. CASE p = s /\ v = w
      <4>1. last'[p][v] = version[v]
        BY <1>0, <1>3, <3>1 DEF ReadOne, TypeOK, Snapshots
      <4> QED
        BY <4>1 DEF SnapshotsInOrder
    <3>2. CASE ~(p = s /\ v = w)
      <4>1. last'[p][v] = last[p][v] /\ v \notin todo[p]
        BY <1>0, <1>3, <3>2 DEF ReadOne, TypeOK, Snapshots
      <4> QED
        BY <2>2, <4>1 DEF ReadIsNewest
    <3> QED
      BY <3>1, <3>2
  <2>3. ReadIsNewest'
    BY <2>1, <2>2 DEF ReadIsNewest
  <2> QED
    BY <1>1, <2>1, <2>3
<1>4. ASSUME NEW p \in Publishers, Tick(p) PROVE SnapshotsInOrder' /\ ReadIsNewest'
  <2>1. UNCHANGED <<queue, shown>>
    BY <1>4 DEF Tick, pubsubVars
  <2>2. \A q \in Publishers : q = p
    BY DEF OnePublisher
  <2>3. todo'[p] = Vars
    BY <1>0, <1>4 DEF Tick, TypeOK
  <2>4. ReadIsNewest'
    BY <2>2, <2>3 DEF ReadIsNewest
  <2> QED
    BY <1>1, <2>1, <2>4
<1>5. ASSUME NEW p \in Publishers, PublishFails(p) PROVE SnapshotsInOrder' /\ ReadIsNewest'
  <2>1. UNCHANGED <<queue, shown>>
    BY <1>5 DEF PublishFails, pubsubVars
  <2>2. \A q \in Publishers : pc'[q] # "reading"
    BY <1>0, <1>5 DEF PublishFails, Goes, OnePublisher, TypeOK
  <2> QED
    BY <1>1, <2>1, <2>2 DEF ReadIsNewest
<1>6. ASSUME NEW r \in Requests, Arrive(r) \/ SetValue(r) \/ Answer(r)
      PROVE  SnapshotsInOrder' /\ ReadIsNewest'
  <2>1. UNCHANGED <<queue, shown>>
    BY <1>6 DEF Arrive, SetValue, Answer, pubsubVars
  <2>2. \A p \in Publishers : pc'[p] = pc[p] /\ todo'[p] = todo[p] /\ last'[p] = last[p]
    BY <1>0, <1>6 DEF Arrive, SetValue, Answer, Goes, TypeOK
  <2> QED
    BY <1>1, <1>2, <2>1, <2>2
<1>7. ASSUME UNCHANGED <<queue, shown, scanVars>> PROVE SnapshotsInOrder' /\ ReadIsNewest'
  BY <1>1, <1>2, <1>7 DEF scanVars
<1>8. CASE Next
  BY <1>0, <1>3, <1>4, <1>5, <1>6, <1>7, <1>8, TakeInOrder, PublishInOrder
  DEF Next, PublisherStep, RequestStep, Write, Subscribe, Unsubscribe, pubsubVars
<1>9. CASE UNCHANGED vars
  BY <1>7, <1>9 DEF vars, pubsubVars
<1> QED
  BY <1>8, <1>9

LEMMA OrderInvariant == ASSUME OnePublisher PROVE Spec => []OrderInv
<1>1. Init => OrderInv
  <2>1. Init => NothingFromTheFuture /\ SnapshotsInOrder
    BY DEF Init, NothingFromTheFuture, SnapshotsInOrder, NoNewerThan, Defaults
  <2>2. Init => ReadIsNewest
    BY DEF Init, ReadIsNewest, Scanners
  <2> QED
    BY <2>1, <2>2, TypeInit DEF OrderInv
<1>2. OrderInv /\ [Next]_vars => OrderInv'
  BY TypeNext, FutureStep, OrderStep DEF OrderInv
<1> QED
  BY <1>1, <1>2, PTL DEF Spec

(* Every step of the server is one of LossyDelivery, or none that it sees. *)
LEMMA ShownStep ==
    ASSUME OrderInv, OrderInv', [Next]_vars
    PROVE  [D!Next]_(D!vars)
<1> DEFINE sent == [x \in Channels \X Vars |-> version[x[2]]]
           received == [x \in Channels \X Vars |-> shown[x[1]][x[2]]]
<1>1. ASSUME NEW w \in Vars, version' = [version EXCEPT ![w] = @ + 1], UNCHANGED shown
      PROVE  D!Send
  <2> DEFINE W == Channels \X {w}
  <2>1. W \in SUBSET (Channels \X Vars)
    OBVIOUS
  <2>2. sent' = [x \in Channels \X Vars |-> IF x \in W THEN sent[x] + 1 ELSE sent[x]]
    BY <1>1 DEF OrderInv, TypeOK, Snapshots
  <2> QED
    BY <1>1, <2>1, <2>2 DEF D!Send
<1>2. ASSUME NEW c \in Channels, Take(c) PROVE D!Receive
  <2>1. /\ UNCHANGED version
        /\ queue[c] \in Seq(Snapshots) /\ queue[c] # <<>>
        /\ shown' = [shown EXCEPT ![c] = queue[c][1]]
    BY <1>2 DEF Take, OrderInv, TypeOK
  <2>2. \A d \in Channels, v \in Vars :
           /\ shown'[d][v] \in Nat /\ shown[d][v] \in Nat
           /\ shown'[d][v] <= version[v]
    BY <2>1 DEF OrderInv, SnapshotsInOrder, TypeOK, Snapshots
  <2>3. \A d \in Channels, v \in Vars : shown[d][v] <= shown'[d][v]
    BY <2>1, <2>2 DEF OrderInv, SnapshotsInOrder, NoNewerThan, TypeOK
  <2>4. received' \in [Channels \X Vars -> Nat]
    BY <2>2
  <2>5. \A x \in Channels \X Vars : received[x] <= received'[x] /\ received'[x] <= sent[x]
    BY <2>2, <2>3
  <2> QED
    BY <2>1, <2>4, <2>5 DEF D!Receive
<1>3. ASSUME UNCHANGED <<version, shown>> PROVE UNCHANGED D!vars
  BY <1>3 DEF D!vars
<1>4. ASSUME NEW r \in Requests, SetValue(r) PROVE D!Send
  <2>1. target[r] \in Vars
    BY <1>4 DEF SetValue, OrderInv, TypeOK
  <2> QED
    BY <1>1, <1>4, <2>1 DEF SetValue, pubsubVars
<1>5. CASE Next
  BY <1>1, <1>2, <1>3, <1>4, <1>5
  DEF Next, Write, Subscribe, Unsubscribe, PublisherStep, RequestStep, ReadOne, Tick,
      Publish, PublishFails, Arrive, Answer, pubsubVars, D!Next
<1>6. CASE UNCHANGED vars
  BY <1>3, <1>6 DEF vars, pubsubVars
<1> QED
  BY <1>5, <1>6

(* As long as the server was started once, each subscriber gets of each    *)
(* variable a lossy delivery, for any number of channels and variables.    *)
THEOREM SubscribersServed == ASSUME OnePublisher PROVE Spec => ShownInOrder
<1>1. Init => D!Init
  BY DEF Init, D!Init, Defaults
<1>2. OrderInv /\ OrderInv' /\ [Next]_vars => [D!Next]_(D!vars)
  BY ShownStep
<1> QED
  BY <1>1, <1>2, OrderInvariant, PTL DEF Spec, D!Spec, ShownInOrder

-----------------------------------------------------------------------------
(***************************************************************************)
(* The whole program.                                                      *)
(***************************************************************************)
LEMMA SystemStepIsServerStep == ASSUME [SystemNext]_systemVars PROVE [Next]_vars
<1>1. CASE ServerStep
  BY <1>1 DEF ServerStep, Next, RequestStep
<1>2. CASE Scan
  BY <1>2 DEF Scan, Next
<1>3. CASE UNCHANGED vars
  BY <1>3
<1> QED
  BY <1>1, <1>2, <1>3
  DEF SystemNext, ConnectSource, SourceStep, StartPLC, Signal, StopStep, StopMisses, Shutdown,
      ShutdownEnds, StopPLC, Stopped, DisconnectSource, MakeServer, Listen, ListenFails,
      LoopEnds, OnConnect, PublishNBirth, systemVars

(* The program does with the variables and the server nothing that         *)
(* GraphQLUpdates does not allow: its theorems hold of the program.        *)
THEOREM ServerImplemented == SystemSpec => Spec
<1>1. SystemInit => Init
  BY DEF SystemInit
<1>2. [SystemNext]_systemVars => [Next]_vars
  BY SystemStepIsServerStep
<1> QED
  BY <1>1, <1>2, PTL DEF SystemSpec, Spec

COROLLARY FreshInSystem == SystemSpec => []AnswersAreFresh
BY ServerImplemented, Fresh, PTL

(***************************************************************************)
(* The server has ended when the PLC is stopped: once Shutdown was called  *)
(* it does not listen any more, and when Shutdown has ended without giving *)
(* up nothing is accepted.                                                 *)
(***************************************************************************)
AfterServer == {"stoppingPLC", "disconnecting", "stopped"}

ServerHasEnded ==
    /\ main = "waiting" => shutdown /\ server \in {"made", "draining", "closed"}
    /\ main \in AfterServer =>
          missed \/ expired \/ (shutdown /\ NoRequest /\ server \in {"made", "closed"})
    /\ loop \in {"stopping", "ended"} => main \in {"disconnecting", "stopped"}
    /\ main = "connecting" => loop = "none"

EndInv == TypeOK /\ ServerHasEnded

LEMMA NoNewRequest ==
    ASSUME TypeOK, NoRequest, ServerStep, ~Accepting
    PROVE  NoRequest'
<1>1. PICK p \in Publishers : PublisherStep(p)
  BY DEF ServerStep, NoRequest
<1>2. p \in Scanners /\ p \notin Requests /\ \A r \in Requests : r \in Scanners
  BY ConstantsAssumption DEF Scanners
<1>3. \A r \in Requests : pc'[r] = pc[r]
  BY <1>1, <1>2 DEF PublisherStep, Tick, Publish, PublishFails, ReadOne, Goes, TypeOK
<1> QED
  BY <1>3 DEF NoRequest, UnderWay

LEMMA ServerHasEndedStep ==
    ASSUME EndInv, [SystemNext]_systemVars
    PROVE  ServerHasEnded'
<1> USE DEF EndInv, ServerHasEnded, AfterServer
<1>1. ASSUME UNCHANGED pc PROVE NoRequest' = NoRequest
  BY <1>1 DEF NoRequest, UnderWay
<1>2. ASSUME NEW s \in Sources, ConnectSource(s) \/ SourceStep(s) \/ OnConnect(s) \/ PublishNBirth(s)
      PROVE  ServerHasEnded'
  <2>1. UNCHANGED <<pc, main, loop, server, shutdown, expired, missed>>
    BY <1>2 DEF ConnectSource, SourceStep, OnConnect, PublishNBirth, vars, scanVars, lifeVars
  <2> QED
    BY <1>1, <2>1
<1>3. CASE StartPLC \/ Signal
  BY <1>3 DEF StartPLC, Signal, MainGoes, ServerFirst
<1>4. CASE MakeServer \/ Listen \/ ListenFails \/ LoopEnds
  BY <1>1, <1>4 DEF MakeServer, Listen, ListenFails, LoopEnds, vars, scanVars
<1>5. CASE ServerStep
  <2>1. UNCHANGED lifeVars
    BY <1>5 DEF ServerStep
  <2>2. CASE Accepting
    BY <2>1, <2>2 DEF Accepting, lifeVars
  <2>3. CASE ~Accepting
    BY <1>5, <2>1, <2>3, NoNewRequest DEF lifeVars
  <2> QED
    BY <2>2, <2>3
<1>6. CASE Scan
  BY <1>1, <1>6 DEF Scan, Write, lifeVars, scanVars
<1>7. CASE StopMisses \/ Shutdown
  BY <1>7 DEF StopMisses, Shutdown, MainGoes, ServerMade
<1>8. CASE ShutdownEnds
  BY <1>1, <1>8 DEF ShutdownEnds, MainGoes, vars, scanVars
<1>9. CASE StopPLC \/ Stopped \/ \E s \in Sources : DisconnectSource(s)
  BY <1>1, <1>9 DEF StopPLC, Stopped, DisconnectSource, MainGoes, vars, scanVars
<1>10. CASE UNCHANGED systemVars
  BY <1>1, <1>10 DEF systemVars, lifeVars, vars, scanVars
<1> QED
  BY <1>2, <1>3, <1>4, <1>5, <1>6, <1>7, <1>8, <1>9, <1>10 DEF SystemNext, StopStep

(* No request is answered from a stopped PLC, nor sets a variable of it,   *)
(* unless Shutdown gave up or found no server; for any number of requests. *)
THEOREM RequestsEnd == SystemSpec => []RequestsEndFirst
<1>1. SystemInit => EndInv
  BY TypeInit DEF SystemInit, EndInv, ServerHasEnded, AfterServer
<1>2. EndInv /\ [SystemNext]_systemVars => EndInv'
  BY TypeNext, SystemStepIsServerStep, ServerHasEndedStep DEF EndInv
<1>3. EndInv => RequestsEndFirst
  BY DEF EndInv, ServerHasEnded, AfterServer, RequestsEndFirst
<1> QED
  BY <1>1, <1>2, <1>3, PTL DEF SystemSpec

(***************************************************************************)
(* A source to which Stop has come is down, and nothing that was begun     *)
(* before is under way that would take it up again.                        *)
(***************************************************************************)
DownForGood(s) == links[s].status = "down" /\ ~links[s].late

VisitedAreDown ==
    /\ links \in [Sources -> LinkStates]
    /\ excused \in [Sources -> BOOLEAN]
    /\ main \in {"disconnecting", "stopped"} =>
          \A s \in Sources \ visits : excused[s] \/ DownForGood(s)
    /\ main = "stopped" => visits = {}

LEMMA RelinkedTyped ==
    ASSUME links \in [Sources -> LinkStates], NEW s \in Sources, Relinked(s)
    PROVE  /\ links' \in [Sources -> LinkStates]
           /\ \A t \in Sources : t # s => links'[t] = links[t]
BY DEF Relinked

LEMMA VisitedAreDownStep ==
    ASSUME VisitedAreDown, [SystemNext]_systemVars
    PROVE  VisitedAreDown'
<1> USE DEF VisitedAreDown
<1>1. ASSUME NEW s \in Sources, ConnectSource(s) PROVE VisitedAreDown'
  BY <1>1, RelinkedTyped DEF ConnectSource
<1>2. ASSUME NEW s \in Sources, SourceStep(s) \/ OnConnect(s) PROVE VisitedAreDown'
  <2>1. /\ UNCHANGED <<main, visits, excused>>
        /\ links' \in [Sources -> LinkStates]
        /\ \A t \in Sources : t # s => links'[t] = links[t]
    BY <1>2, RelinkedTyped DEF SourceStep, OnConnect, lifeVars
  <2>2. ASSUME DownForGood(s) PROVE DownForGood(s)'
    BY <1>2, <2>2 DEF SourceStep, OnConnect, DownForGood, L!Finish, L!Look, L!Expire, L!Ceases
  <2> QED
    BY <2>1, <2>2 DEF DownForGood
<1>3. ASSUME NEW s \in Sources, DisconnectSource(s) PROVE VisitedAreDown'
  <2>1. /\ main = "disconnecting" /\ main' = main /\ visits' = visits \ {s}
        /\ links' \in [Sources -> LinkStates]
        /\ \A t \in Sources : t # s => links'[t] = links[t]
    BY <1>3, RelinkedTyped DEF DisconnectSource
  <2>2. /\ excused' = [excused EXCEPT ![s] = links[s].late \/ links'[s].status # "down"]
        /\ excused' \in [Sources -> BOOLEAN]
    BY <1>3, <2>1 DEF DisconnectSource, LinkStates
  <2>3. links'[s].late => links[s].late
    BY <1>3 DEF DisconnectSource, L!Disconnect, L!Ceases
  <2>4. excused'[s] \/ DownForGood(s)'
    BY <2>2, <2>3 DEF DownForGood
  <2>5. ASSUME NEW t \in Sources \ visits', t # s PROVE excused'[t] \/ DownForGood(t)'
    BY <2>1, <2>2, <2>5 DEF DownForGood
  <2> QED
    BY <2>1, <2>2, <2>4, <2>5
<1>4. CASE StopPLC
  BY <1>4 DEF StopPLC, MainGoes, EverySource, sourceVars
<1>5. CASE Stopped
  BY <1>5 DEF Stopped, MainGoes, AllVisited, sourceVars, DownForGood
<1>6. CASE StartPLC \/ Signal \/ StopMisses \/ Shutdown \/ ShutdownEnds
  BY <1>6 DEF StartPLC, Signal, StopMisses, Shutdown, ShutdownEnds, MainGoes, ServerFirst,
     sourceVars
<1>7. ASSUME UNCHANGED <<main, visits, links, excused>> PROVE VisitedAreDown'
  BY <1>7 DEF DownForGood
<1>8. CASE MakeServer \/ Listen \/ ListenFails \/ ServerStep \/ Scan \/ LoopEnds
  BY <1>7, <1>8 DEF MakeServer, Listen, ListenFails, ServerStep, Scan, LoopEnds, lifeVars,
     sourceVars
<1>9. CASE (\E s \in Sources : PublishNBirth(s)) \/ UNCHANGED systemVars
  BY <1>7, <1>9 DEF PublishNBirth, systemVars, lifeVars, sourceVars
<1> QED
  BY <1>1, <1>2, <1>3, <1>4, <1>5, <1>6, <1>8, <1>9 DEF SystemNext, StopStep

(* After Stop every source is down for good unless a retry was past its    *)
(* look at the state, or Disconnect failed; for any sources, as long as    *)
(* each keeps the promises of Link.                                        *)
THEOREM DownAfterStop == SystemSpec => []StoppedIsDown
<1>1. SystemInit => VisitedAreDown
  BY DEF SystemInit, VisitedAreDown, LinkStates, NewLink
<1>2. VisitedAreDown /\ [SystemNext]_systemVars => VisitedAreDown'
  BY VisitedAreDownStep
<1>3. VisitedAreDown => StoppedIsDown
  BY DEF VisitedAreDown, DownForGood, StoppedIsDown
<1> QED
  BY <1>1, <1>2, <1>3, PTL DEF SystemSpec
=============================================================================
