-------------------------- MODULE MqttClientProofs --------------------------
(***************************************************************************)
(* Proofs about MqttClient, for any number of clients, calls and failures. *)
(***************************************************************************)
EXTENDS MqttClient, TLAPS

(***************************************************************************)
(* The invariants hold because of what is true of the mutex: a Connect     *)
(* that waits with c.mu held keeps the handlers from running.              *)
(***************************************************************************)
\* c.mu is held for long by a Connect that waits only: the state is
\* "connecting", and a timer that called it is still at it.
LockedConnects ==
    ~Unlocked =>
        /\ state = "connecting" /\ client # 0
        /\ holder \in Timers => timer[holder] = "retrying"

\* While Connect waits, no handler gets past c.mu.
HandlerComes == (~Unlocked /\ link[client] # "dialling") => ups[client] > 0

DownsNeedDrops == drops = 0 => \A n \in Clients : downs[n] = 0

IInv ==
    /\ TypeOK
    /\ LockedConnects /\ HandlerComes /\ DownsNeedDrops
    /\ ConnectingEnds /\ UpIsNoticed /\ ErrorHasRetry

LEMMA ConstantsFacts ==
    /\ MaxClients \in Nat /\ MaxFailures \in Nat /\ MaxDrops \in Nat
    /\ MaxConnects \in Nat /\ MaxDisconnects \in Nat
    /\ Application \notin Timers /\ Nobody \notin Timers /\ Application # Nobody
    /\ \A k \in Timers : k # Application /\ k # Nobody
BY ConstantsAssumption DEF Timers, Application, Nobody

LEMMA InitHolds == Init => IInv
<1> SUFFICES ASSUME Init PROVE IInv
  OBVIOUS
<1>1. TypeOK
  <2>1. link \in [Clients -> {"unused", "dialling", "up", "lost", "closed"}]
    BY DEF Init
  <2>2. timer \in [Timers -> {"unused", "armed", "expired", "retrying", "done"}]
    BY DEF Init
  <2>3. ups \in [Clients -> Nat] /\ downs \in [Clients -> Nat] /\ births \in Nat
    BY DEF Init
  <2>4. made \in 0 .. MaxClients /\ client \in 0 .. made /\ retryTimeout \in 0 .. MaxFailures
    BY ConstantsFacts DEF Init
  <2>5. /\ connects \in 0 .. MaxConnects /\ disconnects \in 0 .. MaxDisconnects
        /\ failures \in 0 .. MaxFailures /\ drops \in 0 .. MaxDrops
    BY ConstantsFacts DEF Init
  <2> QED
    BY <2>1, <2>2, <2>3, <2>4, <2>5 DEF Init, TypeOK
<1>2. Unlocked /\ state = "disconnected" /\ client = 0
  BY DEF Init, Unlocked
<1>3. DownsNeedDrops
  BY DEF Init, DownsNeedDrops
<1> QED
  BY <1>1, <1>2, <1>3 DEF IInv, LockedConnects, HandlerComes, ConnectingEnds, UpIsNoticed,
      ErrorHasRetry

-----------------------------------------------------------------------------
(* Connect.                                                                *)

LEMMA ConnectKeeps ==
    ASSUME IInv, NEW k \in {Application} \cup Timers, Connect(k)
    PROVE  IInv'
<1> USE ConstantsFacts DEF IInv
<1>1. CASE ReturnsAtOnce(k)
  <2>1. TypeOK'
    BY <1>1, ConstantsAssumption DEF ReturnsAtOnce, Calls, Finished, TypeOK, statusVars,
        linkVars, handlerVars
  <2>2. state = "connected" /\ Unlocked
    BY <1>1 DEF ReturnsAtOnce, AlreadyConnected, Calls
  <2> QED
    BY <1>1, <2>1, <2>2 DEF ReturnsAtOnce, Calls, statusVars, linkVars, handlerVars,
        LockedConnects, HandlerComes, DownsNeedDrops, ConnectingEnds, UpIsNoticed,
        ErrorHasRetry, NoHandlerWaits, Unlocked
<1>2. CASE TLSFails(k)
  <2>1. TypeOK'
    BY <1>2, ConstantsAssumption DEF TLSFails, Calls, Finished, TypeOK, linkVars, handlerVars
  <2> QED
    BY <1>2, <2>1 DEF TLSFails, Calls, linkVars, handlerVars, LockedConnects, HandlerComes,
        DownsNeedDrops, ConnectingEnds, UpIsNoticed, ErrorHasRetry, NoHandlerWaits, Unlocked
<1>3. CASE Dials(k)
  <2>1. TypeOK'
    <3>1. made' \in 0 .. MaxClients /\ client' \in 0 .. made' /\ made' \in Clients
      BY <1>3 DEF Dials, TypeOK, Clients
    <3>2. link' \in [Clients -> {"unused", "dialling", "up", "lost", "closed"}]
      BY <1>3 DEF Dials, TypeOK
    <3>3. connects' \in 0 .. MaxConnects
      BY <1>3 DEF Dials, Calls, TypeOK
    <3>4. holder' \in {Nobody, Application} \cup Timers
      BY <1>3 DEF Dials
    <3> QED
      BY <1>3, <3>1, <3>2, <3>3, <3>4 DEF Dials, Calls, TypeOK, timerVars, handlerVars
  <2>2. client' \in Clients /\ client' # 0 /\ link'[client'] = "dialling" /\ holder' = k
    BY <1>3 DEF Dials, TypeOK, Clients
  <2>3. k \in Timers => timer'[k] = "retrying"
    BY <1>3 DEF Dials, Calls, timerVars
  <2>4. ~Unlocked'
    BY <2>2 DEF Unlocked, Nobody, Application, Timers
  <2> QED
    BY <1>3, <2>1, <2>2, <2>3, <2>4 DEF Dials, Calls, handlerVars, LockedConnects,
        HandlerComes, DownsNeedDrops, ConnectingEnds, UpIsNoticed, ErrorHasRetry
<1> QED
  BY <1>1, <1>2, <1>3 DEF Connect

LEMMA ConnectEndsKeeps ==
    ASSUME IInv, ConnectEnds
    PROVE  IInv'
<1> USE ConstantsFacts DEF IInv
<1>1. CASE ConnectReturns
  <2>1. TypeOK'
    BY <1>1 DEF ConnectReturns, Finished, TypeOK, statusVars, linkVars, handlerVars, boundVars
  <2>2. state = "connecting" /\ client # 0 /\ ups[client] > 0 /\ client \in Clients
    BY <1>1 DEF ConnectReturns, LockedConnects, HandlerComes, TypeOK, Clients
  <2> QED
    BY <1>1, <2>1, <2>2 DEF ConnectReturns, statusVars, linkVars, handlerVars, boundVars,
        LockedConnects, HandlerComes, DownsNeedDrops, ConnectingEnds, UpIsNoticed,
        ErrorHasRetry, NoHandlerWaits, Unlocked
<1>2. CASE ConnectFails
  <2>1. failures' \in Timers /\ holder' = Nobody /\ state' = "error"
    BY <1>2 DEF ConnectFails, TypeOK, Timers
  <2>2. TypeOK'
    <3>1. timer' \in [Timers -> {"unused", "armed", "expired", "retrying", "done"}]
      BY <1>2 DEF ConnectFails, Armed, Finished, TypeOK
    <3>2. link' \in [Clients -> {"unused", "dialling", "up", "lost", "closed"}]
      BY <1>2 DEF ConnectFails, TypeOK
    <3>3. failures' \in 0 .. MaxFailures /\ retryTimeout' \in 0 .. MaxFailures
      BY <1>2 DEF ConnectFails, TypeOK
    <3> QED
      BY <1>2, <2>1, <3>1, <3>2, <3>3 DEF ConnectFails, TypeOK, handlerVars
  <2>3. timer'[failures'] = "armed"
    BY <1>2, <2>1 DEF ConnectFails, Armed, Finished
  <2>4. client \in Clients /\ (link[client] # "dialling" => ups[client] > 0)
    BY <1>2 DEF ConnectFails, LockedConnects, HandlerComes, TypeOK, Clients
  <2>5. UpIsNoticed'
    <3>1. link'[client] = "up" => ups'[client] > 0
      BY <1>2, <2>4 DEF ConnectFails, TypeOK, handlerVars
    <3> QED
      BY <1>2, <2>4, <3>1 DEF ConnectFails, UpIsNoticed, NoHandlerWaits, TypeOK
  <2>6. ErrorHasRetry'
    BY <2>1, <2>3 DEF ErrorHasRetry, Active
  <2> QED
    BY <1>2, <2>1, <2>2, <2>5, <2>6 DEF ConnectFails, handlerVars, LockedConnects, HandlerComes,
        DownsNeedDrops, ConnectingEnds, Unlocked
<1> QED
  BY <1>1, <1>2 DEF ConnectEnds

-----------------------------------------------------------------------------
(* The library and the handlers.                                           *)

LEMMA LibraryKeeps ==
    ASSUME IInv, NEW n \in Clients, LinkUp(n) \/ LinkLost(n)
    PROVE  IInv'
<1> USE ConstantsFacts DEF IInv
<1>1. CASE LinkUp(n)
  <2>1. TypeOK'
    BY <1>1 DEF LinkUp, TypeOK, statusVars, timerVars, boundVars
  <2>2. ups'[n] > 0 /\ \A m \in Clients : ups'[m] >= ups[m]
    BY <1>1 DEF LinkUp, TypeOK
  <2>3. \A m \in Clients : link'[m] = link[m] \/ (m = n /\ ups'[m] > 0)
    BY <1>1, <2>2 DEF LinkUp, TypeOK
  <2>4. client \in Nat /\ (client # 0 => client \in Clients)
    BY DEF TypeOK, Clients
  <2>5. LockedConnects'
    BY <1>1 DEF LinkUp, LockedConnects, Unlocked, statusVars, timerVars
  <2>6. HandlerComes'
    <3> SUFFICES ASSUME ~Unlocked', link'[client'] # "dialling" PROVE ups'[client'] > 0
      BY DEF HandlerComes
    <3>1. client' = client /\ ~Unlocked /\ client \in Clients
      BY <1>1, <2>4 DEF LinkUp, LockedConnects, Unlocked
    <3>2. CASE link'[client] = link[client]
      <4>1. ups[client] > 0
        BY <3>1, <3>2 DEF HandlerComes
      <4> QED
        BY <1>1, <3>1, <4>1 DEF LinkUp, TypeOK
    <3>3. CASE client = n
      BY <2>2, <3>1, <3>3
    <3> QED
      BY <2>3, <3>1, <3>2, <3>3
  <2>7. ConnectingEnds'
    BY <1>1, <2>2, <2>4 DEF LinkUp, ConnectingEnds, Unlocked, statusVars, TypeOK
  <2>8. UpIsNoticed'
    BY <1>1, <2>2 DEF LinkUp, UpIsNoticed, NoHandlerWaits
  <2> QED
    BY <1>1, <2>1, <2>5, <2>6, <2>7, <2>8 DEF LinkUp, DownsNeedDrops, ErrorHasRetry, Active,
        statusVars, timerVars, boundVars
<1>2. CASE LinkLost(n)
  <2>1. TypeOK'
    <3>1. /\ link' \in [Clients -> {"unused", "dialling", "up", "lost", "closed"}]
          /\ downs' \in [Clients -> Nat]
      BY <1>2 DEF LinkLost, TypeOK
    <3>2. drops' \in 0 .. MaxDrops
      BY <1>2 DEF LinkLost, TypeOK
    <3> QED
      BY <1>2, <3>1, <3>2 DEF LinkLost, TypeOK, statusVars, timerVars
  <2>2. \A m \in Clients : link'[m] # "dialling" => link[m] # "dialling"
    BY <1>2 DEF LinkLost, TypeOK
  <2>3. drops' > 0
    BY <1>2 DEF LinkLost, TypeOK
  <2>4. HandlerComes'
    <3> SUFFICES ASSUME ~Unlocked', link'[client'] # "dialling" PROVE ups'[client'] > 0
      BY DEF HandlerComes
    <3>1. client' = client /\ ~Unlocked /\ client \in Clients
      BY <1>2 DEF LinkLost, LockedConnects, Unlocked, TypeOK, Clients
    <3> QED
      BY <1>2, <2>2, <3>1 DEF HandlerComes, LinkLost
  <2> QED
    BY <1>2, <2>1, <2>3, <2>4 DEF LinkLost, LockedConnects, DownsNeedDrops, ConnectingEnds,
        UpIsNoticed, ErrorHasRetry, Active, Unlocked, statusVars, timerVars
<1> QED
  BY <1>1, <1>2

LEMMA HandlersKeep ==
    ASSUME IInv, NEW n \in Clients, Handle(n)
    PROVE  IInv'
<1> USE ConstantsFacts DEF IInv
<1>1. CASE HandleUp(n)
  <2>1. TypeOK'
    <3>1. ups' \in [Clients -> Nat] /\ births' \in Nat
      BY <1>1 DEF HandleUp, TypeOK
    <3> QED
      BY <1>1, <3>1 DEF HandleUp, StateUp, TypeOK, linkVars, timerVars, boundVars
  <2> QED
    BY <1>1, <2>1 DEF HandleUp, StateUp, linkVars, timerVars, boundVars, LockedConnects,
        HandlerComes, DownsNeedDrops, ConnectingEnds, UpIsNoticed, ErrorHasRetry, Unlocked
<1>2. CASE HandleDown(n)
  <2>1. TypeOK'
    BY <1>2 DEF HandleDown, StateDown, TypeOK, linkVars, timerVars, boundVars
  <2>2. drops # 0
    BY <1>2 DEF HandleDown, DownsNeedDrops, TypeOK
  <2> QED
    BY <1>2, <2>1, <2>2 DEF HandleDown, StateDown, linkVars, timerVars, boundVars,
        LockedConnects, HandlerComes, DownsNeedDrops, ConnectingEnds, UpIsNoticed,
        ErrorHasRetry, Unlocked
<1> QED
  BY <1>1, <1>2 DEF Handle

LEMMA BirthKeeps ==
    ASSUME IInv, PublishNBirth
    PROVE  IInv'
<1>1. TypeOK'
  BY DEF PublishNBirth, IInv, TypeOK, statusVars, linkVars, timerVars, boundVars
<1> QED
  BY <1>1 DEF PublishNBirth, IInv, statusVars, linkVars, timerVars, boundVars, LockedConnects,
      HandlerComes, DownsNeedDrops, ConnectingEnds, UpIsNoticed, ErrorHasRetry, Active,
      NoHandlerWaits, Unlocked

-----------------------------------------------------------------------------
(* Disconnect and the timers.                                              *)

LEMMA DisconnectKeeps ==
    ASSUME IInv, Disconnect
    PROVE  IInv'
<1>1. TypeOK'
  BY ConstantsFacts DEF Disconnect, StopRetry, LinkClosed, IInv, TypeOK, handlerVars
<1> QED
  BY <1>1 DEF Disconnect, IInv, handlerVars, LockedConnects, HandlerComes, DownsNeedDrops,
      ConnectingEnds, UpIsNoticed, ErrorHasRetry, Unlocked

LEMMA TimersKeep ==
    ASSUME IInv, NEW k \in Timers, TimerExpires(k) \/ TimerRetries(k) \/ TimerGivesUp(k)
    PROVE  IInv'
<1>1. ASSUME NEW from, NEW to, from # "retrying", MoveTimer(k, from, to),
             to \in {"expired", "retrying", "done"},
             to = "done" => state # "error"
      PROVE  IInv'
  <2>1. TypeOK'
    BY <1>1 DEF MoveTimer, IInv, TypeOK, statusVars, linkVars, handlerVars, boundVars
  <2>2. LockedConnects'
    BY <1>1 DEF MoveTimer, IInv, TypeOK, LockedConnects, Unlocked, statusVars, linkVars
  <2>3. ErrorHasRetry'
    BY <1>1 DEF MoveTimer, IInv, TypeOK, ErrorHasRetry, Active, statusVars
  <2> QED
    BY <1>1, <2>1, <2>2, <2>3 DEF MoveTimer, IInv, statusVars, linkVars, handlerVars, boundVars,
        HandlerComes, DownsNeedDrops, ConnectingEnds, UpIsNoticed, NoHandlerWaits, Unlocked
<1> QED
  BY <1>1 DEF TimerExpires, TimerRetries, TimerGivesUp

-----------------------------------------------------------------------------
LEMMA StepKeeps == IInv /\ [Next]_vars => IInv'
<1> SUFFICES ASSUME IInv, [Next]_vars PROVE IInv'
  OBVIOUS
<1>1. CASE UNCHANGED vars
  BY <1>1 DEF vars, statusVars, linkVars, timerVars, handlerVars, boundVars, IInv, TypeOK,
      LockedConnects, HandlerComes, DownsNeedDrops, ConnectingEnds, UpIsNoticed, ErrorHasRetry,
      Active, NoHandlerWaits, Unlocked
<1>2. CASE Next
  BY <1>2, ConnectKeeps, ConnectEndsKeeps, LibraryKeeps, HandlersKeep, BirthKeeps,
      DisconnectKeeps, TimersKeep DEF Next, TimerStep
<1> QED
  BY <1>1, <1>2

LEMMA Invariance == Spec => []IInv
BY InitHolds, StepKeeps, PTL DEF Spec

(***************************************************************************)
(* Every variable keeps to its values; the counts stay within the bounds.  *)
(***************************************************************************)
THEOREM TypeCorrect == Spec => []TypeOK
<1>1. IInv => TypeOK
  BY DEF IInv
<1> QED
  BY <1>1, Invariance, PTL

(***************************************************************************)
(* "connecting" is never the last word: when Connect has returned with it, *)
(* an OnConnect handler waits for c.mu.                                    *)
(***************************************************************************)
THEOREM ConnectingIsPassing == Spec => []ConnectingEnds
<1>1. IInv => ConnectingEnds
  BY DEF IInv
<1> QED
  BY <1>1, Invariance, PTL

(***************************************************************************)
(* However late links come up, before any is lost the state says so.       *)
(***************************************************************************)
THEOREM LinkUpIsSeen == Spec => []UpIsNoticed
<1>1. IInv => UpIsNoticed
  BY DEF IInv
<1> QED
  BY <1>1, Invariance, PTL

(***************************************************************************)
(* An error always has a retry under way, but for the TLS configuration.   *)
(***************************************************************************)
THEOREM ErrorRetries == Spec => []ErrorHasRetry
<1>1. IInv => ErrorHasRetry
  BY DEF IInv
<1> QED
  BY <1>1, Invariance, PTL
-----------------------------------------------------------------------------
(* The refinement of Link.                                                 *)

(* While Connect waits its paho client dials, or its handler waits.        *)
LEMMA WaitingStirs == IInv /\ ~Unlocked => Stirring
<1> SUFFICES ASSUME IInv, ~Unlocked PROVE Stirring
  OBVIOUS
<1>1. client \in Clients
  BY ConstantsFacts DEF IInv, TypeOK, LockedConnects, Clients
<1>2. link[client] = "dialling" \/ ups[client] > 0
  BY DEF IInv, HandlerComes
<1> QED
  BY <1>1, <1>2 DEF Stirring

LEMMA PromiseKept == IInv => L!Promise
<1> SUFFICES ASSUME IInv, LinkStatus = "trying" PROVE (Stirring \/ RetryComing) \/ tlsFailed
  BY DEF L!Promise
<1>1. state \in {"connecting", "error"}
  BY DEF LinkStatus, IInv, TypeOK
<1>2. CASE state = "connecting" /\ Unlocked
  <2>1. client \in Clients /\ ups[client] > 0
    BY <1>2, ConstantsFacts DEF IInv, TypeOK, ConnectingEnds, Clients
  <2> QED
    BY <2>1 DEF Stirring
<1>3. CASE ~Unlocked
  BY <1>3, WaitingStirs
<1>4. CASE state = "error"
  BY <1>4 DEF IInv, ErrorHasRetry, RetryComing
<1> QED
  BY <1>1, <1>2, <1>3, <1>4

LEMMA LinkStep == IInv /\ IInv' /\ L!Promise' /\ [Next]_vars => [L!Next]_(L!vars)
<1> SUFFICES ASSUME IInv, IInv', L!Promise', [Next]_vars PROVE [L!Next]_(L!vars)
  OBVIOUS
<1>1. /\ LinkStatus \in {"down", "trying", "up"} /\ LinkStatus' \in {"down", "trying", "up"}
      /\ tlsFailed \in BOOLEAN /\ tlsFailed' \in BOOLEAN
  BY DEF IInv, TypeOK, LinkStatus
<1>2. /\ RetryComing \in BOOLEAN /\ RetryComing' \in BOOLEAN
      /\ Stirring \in BOOLEAN /\ Stirring' \in BOOLEAN
  BY DEF RetryComing, Stirring
<1> DEFINE NothingNew ==
        /\ Stirring' => Stirring
        /\ RetryComing' => RetryComing
<1>3. ASSUME NothingNew PROVE L!Ceases
  BY <1>2, <1>3 DEF L!Ceases
<1>4. ASSUME Stirring, UNCHANGED <<connects, disconnects>> PROVE [L!Next]_(L!vars)
  BY <1>1, <1>2, <1>4 DEF L!Next, L!Finish, L!Statuses, L!calls
<1> HIDE DEF NothingNew
<1>5. CASE Connect(Application)
  <2>1. connects' = connects + 1 /\ UNCHANGED disconnects
    BY <1>5, ConstantsFacts DEF Connect, ReturnsAtOnce, TLSFails, Dials, Calls
  <2>2. LinkStatus' \in {"trying", "up"}
    BY <1>5 DEF Connect, ReturnsAtOnce, TLSFails, Dials, AlreadyConnected, statusVars,
       LinkStatus
  <2> QED
    BY <1>1, <1>2, <2>1, <2>2 DEF L!Next, L!Connect
<1>6. CASE ConnectEnds
  <2>1. ~Unlocked /\ UNCHANGED <<connects, disconnects>>
    BY <1>6 DEF ConnectEnds, ConnectReturns, ConnectFails, boundVars
  <2> QED
    BY <1>4, <2>1, WaitingStirs
<1>7. ASSUME NEW n \in Clients, LinkUp(n) \/ LinkLost(n) \/ Handle(n) PROVE [L!Next]_(L!vars)
  <2>1. UNCHANGED <<connects, disconnects>>
    BY <1>7 DEF LinkUp, LinkLost, Handle, HandleUp, HandleDown, boundVars
  <2>2. link[n] \notin {"unused", "closed"} \/ ups[n] > 0 \/ downs[n] > 0
    BY <1>7 DEF LinkUp, LinkLost, Handle, HandleUp, HandleDown
  <2>3. Stirring
    BY <2>2 DEF Stirring
  <2> QED
    BY <1>4, <2>1, <2>3
\* A step that the link does not see.
<1>8. CASE PublishNBirth \/ UNCHANGED vars
  BY <1>8 DEF PublishNBirth, vars, statusVars, linkVars, timerVars, handlerVars, boundVars,
      L!vars, L!outcome, L!calls, LinkStatus, Stirring, RetryComing, Active
<1>9. CASE Disconnect
  <2>1. Stirring' => Stirring
    BY <1>9 DEF Disconnect, StopRetry, LinkClosed, handlerVars, Stirring, IInv, TypeOK
  <2>2. RetryComing' => RetryComing
    BY <1>9 DEF Disconnect, StopRetry, RetryComing, Active, IInv, TypeOK
  <2>3. NothingNew
    BY <2>1, <2>2 DEF NothingNew
  <2>4. LinkStatus' = "down" /\ UNCHANGED tlsFailed
    BY <1>9 DEF Disconnect, LinkStatus
  <2> QED
    BY <1>3, <1>9, <2>3, <2>4 DEF Disconnect, L!Next, L!Disconnect
<1>10. ASSUME NEW k \in Timers, TimerStep(k) PROVE [L!Next]_(L!vars)
  <2>1. CASE Connect(k)
    <3>1. timer[k] = "retrying" /\ UNCHANGED <<connects, disconnects>>
      BY <2>1, ConstantsFacts DEF Connect, ReturnsAtOnce, TLSFails, Dials, Calls
    <3>2. Stirring
      BY <3>1 DEF Stirring
    <3> QED
      BY <1>4, <3>1, <3>2
  <2>2. CASE TimerRetries(k)
    <3>1. /\ LinkStatus = "trying"
          /\ UNCHANGED <<LinkStatus, tlsFailed, connects, disconnects>>
      BY <2>2 DEF TimerRetries, MoveTimer, statusVars, boundVars, LinkStatus
    <3>2. RetryComing /\ RetryComing' /\ Stirring'
      BY <2>2 DEF TimerRetries, MoveTimer, RetryComing, Stirring, Active, IInv, TypeOK
    <3> QED
      BY <1>2, <3>1, <3>2 DEF L!Next, L!Look, L!calls
  <2>3. CASE TimerExpires(k) \/ TimerGivesUp(k)
    <3>1. UNCHANGED <<LinkStatus, tlsFailed, connects, disconnects>>
      BY <2>3 DEF TimerExpires, TimerGivesUp, MoveTimer, statusVars, boundVars, LinkStatus
    <3>2. Stirring' => Stirring
      BY <2>3 DEF TimerExpires, TimerGivesUp, MoveTimer, linkVars, handlerVars, Stirring,
          IInv, TypeOK
    <3>3. RetryComing' => RetryComing
      BY <2>3 DEF TimerExpires, TimerGivesUp, MoveTimer, RetryComing, Active, IInv, TypeOK
    <3>4. NothingNew
      BY <3>2, <3>3 DEF NothingNew
    <3> QED
      BY <1>3, <3>1, <3>4 DEF L!Next, L!Expire, L!calls
  <2> QED
    BY <1>10, <2>1, <2>2, <2>3 DEF TimerStep
<1> QED
  BY <1>5, <1>6, <1>7, <1>8, <1>9, <1>10 DEF Next

(***************************************************************************)
(* The MQTT connection implements Link: what its late handlers do is done  *)
(* on behalf of something that was begun before.                           *)
(***************************************************************************)
THEOREM LinkImplemented == Spec => ImplementsLink
<1>1. Init => L!Init
  BY DEF Init, L!Init, LinkStatus, RetryComing, Stirring, Active
<1>2. IInv /\ IInv' /\ L!Promise' /\ [Next]_vars => [L!Next]_(L!vars)
  BY LinkStep
<1> QED
  BY <1>1, <1>2, PromiseKept, Invariance, PTL DEF Spec, L!Spec, ImplementsLink

(***************************************************************************)
(* A client that is disconnected stays so until Connect is called, once    *)
(* no paho client dials, no handler waits and no timer is past its check,  *)
(* although timers may still expire.  It follows from Link alone: Finish,  *)
(* the only step that could take the link up, needs something late.        *)
(***************************************************************************)
Settled == LinkStatus = "down" /\ ~Stirring

THEOREM DisconnectStays ==
    Spec => [][Settled /\ connects' = connects => Settled']_vars
<1>1. IInv /\ [L!Next]_(L!vars) => (Settled /\ connects' = connects => Settled')
  <2> SUFFICES ASSUME IInv, [L!Next]_(L!vars), Settled, connects' = connects PROVE Settled'
    OBVIOUS
  <2>1. ~L!Connect
    <3>1. connects \in Nat
      BY ConstantsFacts DEF IInv, TypeOK
    <3> QED
      BY <3>1 DEF L!Connect
  <2>2. ~L!Finish /\ ~L!Look
    BY DEF L!Finish, L!Look, Settled
  <2>3. CASE L!Expire \/ L!Disconnect
    BY <2>3 DEF L!Expire, L!Disconnect, L!Ceases, Settled
  <2>4. CASE UNCHANGED L!vars
    BY <2>4 DEF L!vars, L!outcome, Settled
  <2> QED
    BY <2>1, <2>2, <2>3, <2>4 DEF L!Next
<1>2. L!Spec => [][L!Next]_(L!vars)
  BY PTL DEF L!Spec
<1> QED
  BY <1>1, <1>2, LinkImplemented, Invariance, PTL DEF Spec, ImplementsLink
=============================================================================
