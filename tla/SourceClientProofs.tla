------------------------- MODULE SourceClientProofs -------------------------
(***************************************************************************)
(* Proofs about SourceClient, for every kind of client and any number of   *)
(* calls, failures, broken links and failing closes; and, at the end, about*)
(* RetryBackoff, the delays of the timers that may expire at any time in   *)
(* SourceClient.                                                           *)
(***************************************************************************)
EXTENDS SourceClient, RetryBackoff, FiniteSetTheorems, TLAPS

ActiveTimers == {k \in Timers : Active(k)}

\* The Redis client's stopCh stays closed only after a failing Close: this is
\* why a Disconnect that panics cannot be what leaves an error without retry.
ClosedByFailure == stopCh = "closed" => closeErrs > 0

\* An open link is one that Connect finds.
OpenLinkIsFound == client = "open" => AlreadyConnected

\* A refused link counts as soon as it is there, since the next attempt
\* overwrites it.
RefusedNow == IF client = "refused" THEN 1 ELSE 0

IInv ==
    /\ TypeOK
    /\ StatusConsistent
    /\ WorkingLinksAreKept
    /\ leftovers + RefusedNow <= failures
    /\ ErrorHasRetry
    /\ RetriesBounded
    /\ ClosedByFailure

-----------------------------------------------------------------------------
LEMMA FailureClients ==
    ASSUME TypeOK
    PROVE  /\ ClientsOnFailure \subseteq {client, "closed", "refused"}
           /\ kind = "redis" => ClientsOnFailure \subseteq {"nil", "closed", "refused"}
           /\ kind # "redis" => ClientsOnFailure \subseteq {client, "closed"}
<1>1. kind = "modbus" \/ kind = "opcua" \/ kind = "redis"
  BY ConstantsAssumption DEF TypeOK
<1>2. CASE kind = "modbus"
  BY <1>2 DEF ClientsOnFailure
<1>3. CASE kind = "opcua"
  BY <1>3 DEF ClientsOnFailure
<1>4. CASE kind = "redis"
  BY <1>4 DEF ClientsOnFailure
<1> QED
  BY <1>1, <1>2, <1>3, <1>4

(* An attempt that finds no link up abandons none but a refused one.       *)
LEMMA Overwriting ==
    ASSUME TypeOK, Overwritten, client # "open"
    PROVE  orphans' = orphans /\ leftovers' = leftovers + RefusedNow
  BY DEF TypeOK, Overwritten, RefusedNow

(* Connect cannot overlook an open link, whoever calls it.                 *)
LEMMA LinkFound ==
    ASSUME TypeOK, StatusConsistent PROVE OpenLinkIsFound
  BY DEF TypeOK, StatusConsistent, OpenLinkIsFound, AlreadyConnected

LEMMA TypeStep == IInv /\ [Next]_vars => TypeOK'
<1> SUFFICES ASSUME IInv, [Next]_vars PROVE TypeOK'
  OBVIOUS
<1> USE ConstantsAssumption DEF TypeOK, IInv, TimerStates
<1>1. ASSUME NEW k \in Timers \cup {0}, Connect(k), connects' \in 0 .. MaxConnects
      PROVE  TypeOK'
  <2>1. CASE ReturnsAtOnce(k)
    BY <1>1, <2>1 DEF Connect, ReturnsAtOnce, Finished, linkVars, callbackVars
  <2>2. CASE Succeeds(k)
    <3>1. timer' \in [Timers -> TimerStates] /\ orphans' \in Nat /\ leftovers' \in Nat
      BY <2>2 DEF Succeeds, Finished, Overwritten
    <3>2. onConnects' \in Nat /\ overlapped' \in BOOLEAN
      BY <2>2 DEF Succeeds, Told, Overlaps
    <3> QED
      BY <1>1, <2>2, <3>1, <3>2 DEF Connect, Succeeds, ErrorCleared
  <2>3. CASE Fails(k)
    <3>1. client' \in {"nil", "closed", "refused", "open"}
      BY <2>3, FailureClients DEF Fails
    <3>2. orphans' \in Nat /\ leftovers' \in Nat
      BY <2>3 DEF Fails, Overwritten
    <3>3. timer' \in [Timers -> TimerStates]
      BY <2>3 DEF Fails, Armed, Finished, Timers
    <3> QED
      BY <1>1, <2>3, <3>1, <3>2, <3>3 DEF Connect, Fails, FailedState, callbackVars
  <2> QED
    BY <1>1, <2>1, <2>2, <2>3 DEF Connect
<1>2. CASE CallConnect
  BY <1>1, <1>2 DEF CallConnect
<1>3. CASE Disconnect
  BY <1>3 DEF Disconnect, DisconnectCall, StopRetry, ClientDropped, Overlaps
<1>4. CASE DisconnectFails
  BY <1>4 DEF DisconnectFails, DisconnectCall, StopRetry, callbackVars
<1>5. CASE DisconnectPanics
  BY <1>5 DEF DisconnectPanics, DisconnectCall, StopRetry, callbackVars
<1>6. ASSUME NEW k \in Timers, TimerStep(k) PROVE TypeOK'
  <2>1. CASE RetryConnect(k)
    BY <1>1, <2>1 DEF RetryConnect
  <2>2. CASE TimerExpires(k) \/ TimerRetries(k) \/ TimerGivesUp(k)
    BY <2>2 DEF TimerExpires, TimerRetries, TimerGivesUp, MoveTimer, linkVars,
                callbackVars, boundVars
  <2> QED
    BY <1>6, <2>1, <2>2 DEF TimerStep
<1>7. CASE LinkDrops
  BY <1>7 DEF LinkDrops, timerVars, callbackVars
<1>8. CASE OnConnect \/ OnDisconnect
  BY <1>8 DEF OnConnect, OnDisconnect, linkVars, timerVars, boundVars
<1>9. CASE UNCHANGED vars
  BY <1>9 DEF vars, linkVars, timerVars, callbackVars, boundVars
<1> QED
  BY <1>2, <1>3, <1>4, <1>5, <1>6, <1>7, <1>8, <1>9 DEF Next

(* What becomes of the links, in a step that does not touch them.          *)
LinksInv == StatusConsistent /\ WorkingLinksAreKept /\ leftovers + RefusedNow <= failures

LEMMA LinksUntouched ==
    ASSUME IInv, UNCHANGED <<linkVars, failures>>
    PROVE  LinksInv'
  BY DEF IInv, LinksInv, linkVars, StatusConsistent, WorkingLinksAreKept, RefusedNow

LEMMA ConnectLinks ==
    ASSUME IInv, NEW k \in Timers \cup {0}, Connect(k)
    PROVE  LinksInv'
<1> USE ConstantsAssumption DEF TypeOK, IInv, StatusConsistent, WorkingLinksAreKept, LinksInv
<1>0. OpenLinkIsFound
  BY LinkFound
<1>1. CASE ReturnsAtOnce(k)
  BY <1>1, LinksUntouched DEF ReturnsAtOnce
<1>2. CASE Succeeds(k)
  <2>1. orphans' = orphans /\ leftovers' = leftovers + RefusedNow
    BY <1>0, <1>2, Overwriting DEF Succeeds, OpenLinkIsFound
  <2>2. state' = "connected" /\ client' = "open" /\ ~err' /\ kind' = kind /\ failures' = failures
    BY <1>2 DEF Succeeds, ErrorCleared
  <2>3. kind # "redis" => RefusedNow = 0
    BY DEF RefusedNow
  <2> QED
    BY <2>1, <2>2, <2>3 DEF RefusedNow
<1>3. CASE Fails(k)
  <2>1. /\ state' = "error" /\ err' /\ kind' = kind /\ failures' = failures + 1
        /\ client' \in ClientsOnFailure /\ client # "open"
    BY <1>0, <1>3 DEF Fails, FailedState, OpenLinkIsFound
  <2>2. client' # "open" /\ (client' = "refused" => kind = "redis")
    BY <2>1, FailureClients
  <2>3. CASE kind = "opcua"
    <3>1. orphans' = orphans /\ leftovers' = leftovers
      BY <1>3, <2>3 DEF Fails
    <3> QED
      BY <2>1, <2>2, <2>3, <3>1 DEF RefusedNow
  <2>4. CASE kind # "opcua"
    <3>1. orphans' = orphans /\ leftovers' = leftovers + RefusedNow
      BY <1>3, <2>1, <2>4, Overwriting DEF Fails
    <3>2. kind # "redis" => RefusedNow = 0
      BY DEF RefusedNow
    <3>3. (RefusedNow' = 0 \/ RefusedNow' = 1) /\ (RefusedNow = 0 \/ RefusedNow = 1)
      BY DEF RefusedNow
    <3>4. leftovers' <= failures /\ failures \in Nat /\ leftovers' \in Nat
      BY <3>1, <3>3
    <3>5. leftovers' + RefusedNow' <= failures' /\ leftovers' <= failures'
      BY <2>1, <3>3, <3>4
    <3>6. StatusConsistent'
      BY <2>1, <2>2
    <3> QED
      BY <2>1, <3>1, <3>2, <3>5, <3>6
  <2> QED
    BY <2>3, <2>4
<1> QED
  BY <1>1, <1>2, <1>3 DEF Connect

LEMMA LinksStep == IInv /\ [Next]_vars => LinksInv'
<1> SUFFICES ASSUME IInv, [Next]_vars PROVE LinksInv'
  OBVIOUS
<1> USE DEF TypeOK, IInv, StatusConsistent, WorkingLinksAreKept, LinksInv
<1>2. CASE CallConnect
  BY <1>2, ConnectLinks DEF CallConnect
<1>3. CASE Disconnect
  BY <1>3 DEF Disconnect, DisconnectCall, ClientDropped, RefusedNow
<1>4. CASE DisconnectFails
  BY <1>4 DEF DisconnectFails, DisconnectCall, RefusedNow
<1>5. CASE DisconnectPanics
  BY <1>5, LinksUntouched DEF DisconnectPanics, DisconnectCall, linkVars
<1>6. ASSUME NEW k \in Timers, TimerStep(k) PROVE LinksInv'
  <2>1. CASE RetryConnect(k)
    BY <2>1, ConnectLinks DEF RetryConnect
  <2>2. CASE TimerExpires(k) \/ TimerRetries(k) \/ TimerGivesUp(k)
    BY <2>2, LinksUntouched DEF TimerExpires, TimerRetries, TimerGivesUp, MoveTimer, boundVars
  <2> QED
    BY <1>6, <2>1, <2>2 DEF TimerStep
<1>7. CASE LinkDrops
  BY <1>7 DEF LinkDrops, RefusedNow
<1>8. CASE OnConnect \/ OnDisconnect
  BY <1>8, LinksUntouched DEF OnConnect, OnDisconnect, boundVars
<1>9. CASE UNCHANGED vars
  BY <1>9, LinksUntouched DEF vars, boundVars
<1> QED
  BY <1>2, <1>3, <1>4, <1>5, <1>6, <1>7, <1>8, <1>9 DEF Next

LEMMA ClosedStep == IInv /\ [Next]_vars => ClosedByFailure'
<1> SUFFICES ASSUME IInv, [Next]_vars PROVE ClosedByFailure'
  OBVIOUS
<1> USE DEF TypeOK, IInv, ClosedByFailure
<1>1. CASE UNCHANGED <<stopCh, closeErrs>>
  BY <1>1
<1>2. CASE CallConnect
  BY <1>1, <1>2 DEF CallConnect, Connect
<1>3. CASE Disconnect \/ DisconnectPanics \/ LinkDrops \/ OnConnect \/ OnDisconnect
  BY <1>1, <1>3 DEF Disconnect, DisconnectPanics, LinkDrops, OnConnect, OnDisconnect, boundVars
<1>4. CASE DisconnectFails
  BY <1>4 DEF DisconnectFails
<1>5. ASSUME NEW k \in Timers, TimerStep(k) PROVE ClosedByFailure'
  BY <1>1, <1>5 DEF TimerStep, RetryConnect, Connect, TimerExpires, TimerRetries, TimerGivesUp,
     MoveTimer, boundVars
<1>6. CASE UNCHANGED vars
  BY <1>1, <1>6 DEF vars, boundVars
<1> QED
  BY <1>2, <1>3, <1>4, <1>5, <1>6 DEF Next

-----------------------------------------------------------------------------
(* Counting the timers that are about to retry.                            *)
LEMMA ActiveFinite == IsFiniteSet(ActiveTimers)
<1>1. IsFiniteSet(Timers)
  BY FS_Interval, ConstantsAssumption DEF Timers
<1> QED
  BY <1>1, FS_Subset DEF ActiveTimers

LEMMA CardinalityOfUpdate ==
    ASSUME NEW S, IsFiniteSet(S), NEW x
    PROVE  /\ IsFiniteSet(S \cup {x}) /\ IsFiniteSet(S \ {x})
           /\ Cardinality(S \cup {x}) <= Cardinality(S) + 1
           /\ Cardinality(S \ {x}) <= Cardinality(S)
           /\ x \in S => Cardinality(S \ {x}) = Cardinality(S) - 1
<1>1. Cardinality(S) \in Nat
  BY FS_CardinalityType
<1>2. IsFiniteSet(S \cup {x}) /\ IsFiniteSet(S \ {x})
  BY FS_AddElement, FS_RemoveElement
<1>3. CASE x \in S
  <2>1. Cardinality(S \cup {x}) = Cardinality(S)
    BY <1>3, S \cup {x} = S
  <2>2. Cardinality(S \ {x}) = Cardinality(S) - 1
    BY <1>3, FS_RemoveElement
  <2> QED
    BY <1>1, <1>2, <2>1, <2>2
<1>4. CASE x \notin S
  <2>1. Cardinality(S \cup {x}) = Cardinality(S) + 1
    BY <1>4, FS_AddElement
  <2>2. Cardinality(S \ {x}) = Cardinality(S)
    BY <1>4, S \ {x} = S
  <2> QED
    BY <1>1, <1>2, <1>4, <2>1, <2>2
<1> QED
  BY <1>3, <1>4

(* A timer that moves on within its callback stays one timer.              *)
LEMMA NoNewTimer ==
    ASSUME ActiveTimers' \subseteq ActiveTimers
    PROVE  Cardinality(ActiveTimers)' <= Cardinality(ActiveTimers)
  BY ActiveFinite, FS_Subset

(* A failure arms one timer; the one that made the attempt, if any, is done. *)
LEMMA OneMoreTimer ==
    ASSUME TypeOK, NEW k \in Timers \cup {0}, Fails(k)
    PROVE  /\ ActiveTimers' \subseteq (ActiveTimers \ {k}) \cup {failures'}
           /\ failures' \in ActiveTimers'
<1> USE ConstantsAssumption DEF TypeOK
<1>1. failures' \in Timers
  BY DEF Fails, Timers
<1>2. \A i \in Timers : timer'[i] = IF i = failures' THEN "armed"
                                    ELSE IF i = k THEN "done" ELSE timer[i]
  BY <1>1 DEF Fails, Armed, Finished
<1> QED
  BY <1>1, <1>2 DEF ActiveTimers, Active

(* The count stays below the number of calls, and an error keeps a retry.  *)
RetryInv == ErrorHasRetry /\ Cardinality(ActiveTimers) <= connects

LEMMA BoundIsCount == RetriesBounded <=> Cardinality(ActiveTimers) <= connects
  BY DEF RetriesBounded, ActiveTimers

LEMMA ConnectRetries ==
    ASSUME IInv, NEW k \in Timers \cup {0}, Connect(k),
           \/ k = 0 /\ connects' = connects + 1
           \/ k \in ActiveTimers /\ connects' = connects
    PROVE  RetryInv'
<1> USE ConstantsAssumption DEF IInv, TypeOK
<1>0. /\ Cardinality(ActiveTimers) \in Nat
      /\ Cardinality(ActiveTimers) <= connects
      /\ connects \in Nat
  BY ActiveFinite, FS_CardinalityType, BoundIsCount
<1>1. CASE ReturnsAtOnce(k)
  <2>1. ActiveTimers' \subseteq ActiveTimers
    BY <1>1 DEF ReturnsAtOnce, Finished, ActiveTimers, Active
  <2>2. Cardinality(ActiveTimers)' <= connects'
    BY <1>0, <2>1, NoNewTimer, ActiveFinite, FS_Subset, FS_CardinalityType
  <2> QED
    BY <1>1, <2>2 DEF RetryInv, ErrorHasRetry, ReturnsAtOnce, AlreadyConnected, linkVars
<1>2. CASE Succeeds(k)
  <2>1. ActiveTimers' \subseteq ActiveTimers
    BY <1>2 DEF Succeeds, Finished, ActiveTimers, Active
  <2>2. Cardinality(ActiveTimers)' <= connects'
    BY <1>0, <2>1, NoNewTimer, ActiveFinite, FS_Subset, FS_CardinalityType
  <2> QED
    BY <1>2, <2>2 DEF RetryInv, ErrorHasRetry, Succeeds
<1>3. CASE Fails(k)
  <2> DEFINE rest == ActiveTimers \ {k}
  <2>1. ActiveTimers' \subseteq rest \cup {failures'} /\ failures' \in ActiveTimers'
    BY <1>3, OneMoreTimer
  <2>2. /\ IsFiniteSet(rest)
        /\ Cardinality(rest) \in Nat
        /\ Cardinality(rest) + 1 <= connects'
    <3>1. CASE k = 0
      BY <1>0, <3>1, ActiveFinite, FS_Subset, FS_CardinalityType DEF ActiveTimers, Timers
    <3>2. CASE k \in ActiveTimers /\ connects' = connects
      <4>1. IsFiniteSet(rest) /\ Cardinality(rest) = Cardinality(ActiveTimers) - 1
        BY <3>2, ActiveFinite, CardinalityOfUpdate
      <4>2. Cardinality(rest) \in Nat
        BY <4>1, FS_CardinalityType
      <4> QED
        BY <1>0, <3>2, <4>1, <4>2
    <3> QED
      BY <3>1, <3>2 DEF ActiveTimers, Timers
  <2>3. /\ IsFiniteSet(rest \cup {failures'})
        /\ Cardinality(rest \cup {failures'}) <= Cardinality(rest) + 1
    BY <2>2, CardinalityOfUpdate
  <2>4. Cardinality(ActiveTimers') <= Cardinality(rest \cup {failures'})
    BY <2>1, <2>3, FS_Subset
  <2>5. Cardinality(ActiveTimers') \in Nat /\ Cardinality(rest \cup {failures'}) \in Nat
    BY <2>1, <2>3, FS_Subset, FS_CardinalityType
  <2>6. connects' \in Nat
    BY <1>0
  <2>7. Cardinality(ActiveTimers)' <= connects'
    BY <2>2, <2>3, <2>4, <2>5, <2>6
  <2>8. ErrorHasRetry'
    BY <2>1 DEF ErrorHasRetry, ActiveTimers
  <2> QED
    BY <2>7, <2>8 DEF RetryInv
<1> QED
  BY <1>1, <1>2, <1>3 DEF Connect

LEMMA RetryStep == IInv /\ [Next]_vars => RetryInv'
<1> SUFFICES ASSUME IInv, [Next]_vars PROVE RetryInv'
  OBVIOUS
<1> USE ConstantsAssumption DEF IInv, TypeOK
<1>0. /\ Cardinality(ActiveTimers) \in Nat
      /\ Cardinality(ActiveTimers) <= connects
      /\ connects \in Nat
  BY ActiveFinite, FS_CardinalityType, BoundIsCount
\* A step that arms no timer and is no call of Connect.
<1>1. ASSUME ActiveTimers' \subseteq ActiveTimers, connects' = connects, ErrorHasRetry'
      PROVE  RetryInv'
  BY <1>0, <1>1, NoNewTimer, ActiveFinite, FS_Subset, FS_CardinalityType DEF RetryInv
<1>2. CASE CallConnect
  BY <1>2, ConnectRetries DEF CallConnect
<1>3. CASE Disconnect
  <2>1. ActiveTimers' \subseteq ActiveTimers
    BY <1>3 DEF Disconnect, StopRetry, ActiveTimers, Active
  <2> QED
    BY <1>1, <1>3, <2>1 DEF Disconnect, DisconnectCall, ErrorHasRetry
<1>4. CASE DisconnectFails
  <2>1. ActiveTimers' \subseteq ActiveTimers
    BY <1>4 DEF DisconnectFails, StopRetry, ActiveTimers, Active
  <2> QED
    BY <1>1, <1>4, <2>1 DEF DisconnectFails, DisconnectCall, ErrorHasRetry
<1>5. CASE DisconnectPanics
  <2>1. ActiveTimers' \subseteq ActiveTimers
    BY <1>5 DEF DisconnectPanics, StopRetry, ActiveTimers, Active
  <2> QED
    BY <1>1, <1>5, <2>1
    DEF DisconnectPanics, DisconnectCall, StopChannelFree, ClosedByFailure, ErrorHasRetry
<1>6. ASSUME NEW k \in Timers, TimerStep(k) PROVE RetryInv'
  <2>1. CASE RetryConnect(k)
    BY <2>1, ConnectRetries DEF RetryConnect, ActiveTimers, Active
  <2>2. CASE TimerExpires(k) \/ TimerRetries(k)
    <3>1. ActiveTimers' \subseteq ActiveTimers /\ Active(k)'
      BY <2>2 DEF TimerExpires, TimerRetries, MoveTimer, ActiveTimers, Active
    <3> QED
      BY <1>1, <2>2, <3>1
      DEF TimerExpires, TimerRetries, MoveTimer, boundVars, ErrorHasRetry
  <2>3. CASE TimerGivesUp(k)
    <3>1. ActiveTimers' \subseteq ActiveTimers
      BY <2>3 DEF TimerGivesUp, MoveTimer, ActiveTimers, Active
    <3> QED
      BY <1>1, <2>3, <3>1
      DEF TimerGivesUp, StillInError, MoveTimer, linkVars, boundVars, ErrorHasRetry
  <2> QED
    BY <1>6, <2>1, <2>2, <2>3 DEF TimerStep
<1>7. CASE LinkDrops
  BY <1>1, <1>7 DEF LinkDrops, timerVars, ActiveTimers, Active, ErrorHasRetry
<1>8. CASE OnConnect \/ OnDisconnect
  BY <1>1, <1>8
  DEF OnConnect, OnDisconnect, linkVars, timerVars, boundVars, ActiveTimers, Active,
      ErrorHasRetry
<1>9. CASE UNCHANGED vars
  BY <1>1, <1>9
  DEF vars, linkVars, timerVars, boundVars, ActiveTimers, Active, ErrorHasRetry
<1> QED
  BY <1>2, <1>3, <1>4, <1>5, <1>6, <1>7, <1>8, <1>9 DEF Next

LEMMA InductiveStep == IInv /\ [Next]_vars => IInv'
<1>1. RetryInv' => ErrorHasRetry' /\ RetriesBounded'
  BY DEF RetryInv, RetriesBounded, ActiveTimers
<1> QED
  BY <1>1, TypeStep, LinksStep, ClosedStep, RetryStep DEF IInv, LinksInv

LEMMA Inductive == Spec => []IInv
<1>1. Init => IInv
  <2> SUFFICES ASSUME Init PROVE IInv
    OBVIOUS
  <2>1. ActiveTimers = {}
    BY DEF Init, ActiveTimers, Active
  <2>2. RetriesBounded
    BY <2>1, FS_EmptySet, BoundIsCount DEF Init
  <2>3. TypeOK
    <3>1. timer \in [Timers -> TimerStates]
      BY DEF Init, TimerStates
    <3>2. /\ connects \in 0 .. MaxConnects /\ disconnects \in 0 .. MaxDisconnects
          /\ failures \in 0 .. MaxFailures /\ retryTimeout \in 0 .. MaxFailures
          /\ drops \in 0 .. MaxDrops /\ closeErrs \in 0 .. MaxCloseErrs
          /\ orphans \in Nat /\ leftovers \in Nat /\ onConnects \in Nat /\ onDisconnects \in Nat
      BY ConstantsAssumption DEF Init
    <3> QED
      BY <3>1, <3>2 DEF Init, TypeOK
  <2>4. StatusConsistent /\ ErrorHasRetry /\ ClosedByFailure
    BY DEF Init, StatusConsistent, ErrorHasRetry, ClosedByFailure
  <2>5. WorkingLinksAreKept /\ leftovers + RefusedNow <= failures
    BY DEF Init, WorkingLinksAreKept, RefusedNow
  <2> QED
    BY <2>2, <2>3, <2>4, <2>5 DEF IInv
<1>2. IInv /\ [Next]_vars => IInv'
  BY InductiveStep
<1> QED
  BY <1>1, <1>2, PTL DEF Spec

-----------------------------------------------------------------------------
(* Types: in particular the counts never leave their bounds.               *)
THEOREM TypeCorrect == Spec => []TypeOK
  BY Inductive, PTL DEF IInv

(* State, Error and the client's link never contradict each other; a link  *)
(* that is open although the client is in error is one whose Redis server  *)
(* answered Ping with an error (redis/client.go:87-97).                    *)
THEOREM StatusIsConsistent == Spec => []StatusConsistent
  BY Inductive, PTL DEF IInv

(* Retries of any number of failures, racing with Connect and Disconnect,  *)
(* never overwrite a link that came up (the check at the top of Connect);  *)
(* what Redis leaves behind is at most a refused link per failed attempt.  *)
THEOREM WorkingLinksKept == Spec => []WorkingLinksAreKept
  BY Inductive, PTL DEF IInv

(* An error always has a retry behind it unless a Close has failed.        *)
THEOREM ErrorRetries == Spec => []ErrorHasRetry
  BY Inductive, PTL DEF IInv

(* There are never more chains of retries than calls of Connect.           *)
THEOREM RetryChainsBounded == Spec => []RetriesBounded
  BY Inductive, PTL DEF IInv

(* A connection that is down and has no retry past its check stays down    *)
(* until Connect is called: the check in the timer's callback suffices.    *)
THEOREM DisconnectStays == Spec => DisconnectSticks
<1>1. IInv /\ [Next]_vars => [Settled /\ connects' = connects => Settled']_vars
  <2> SUFFICES ASSUME IInv, Next, Settled, connects' = connects PROVE Settled'
    OBVIOUS
  <2> USE DEF IInv, TypeOK, Settled
  <2>1. ~CallConnect
    BY ConstantsAssumption DEF CallConnect
  <2>2. CASE Disconnect \/ DisconnectFails \/ DisconnectPanics
    BY <2>2 DEF Disconnect, DisconnectFails, DisconnectPanics, StopRetry
  <2>3. ASSUME NEW k \in Timers, TimerStep(k) PROVE Settled'
    <3>1. TimerExpires(k) \/ TimerGivesUp(k)
      BY <2>3 DEF TimerStep, TimerRetries, StillInError, RetryConnect
    <3> QED
      BY <3>1 DEF TimerExpires, TimerGivesUp, MoveTimer, linkVars
  <2>4. CASE LinkDrops \/ OnConnect \/ OnDisconnect
    BY <2>4 DEF LinkDrops, OnConnect, OnDisconnect, linkVars, timerVars
  <2> QED
    BY <2>1, <2>2, <2>3, <2>4 DEF Next
<1> QED
  BY <1>1, Inductive, PTL DEF Spec, DisconnectSticks

(***************************************************************************)
(* As long as callbacks do not overlap, the one that is under way, or the  *)
(* last that ran, tells the present state.                                 *)
(***************************************************************************)
CallbackInv ==
    ~overlapped =>
        /\ onConnects + onDisconnects <= 1
        /\ state = "connected" =>
              onDisconnects = 0 /\ (onConnects = 1 \/ appView = "connected")
        /\ state = "disconnected" =>
              onConnects = 0 /\ (onDisconnects = 1 \/ appView = "disconnected")

(* A callback that overlaps with none is the only one under way.           *)
LEMMA CallbackAlone ==
    ASSUME TypeOK, overlapped' = Overlaps, ~overlapped'
    PROVE  onConnects = 0 /\ onDisconnects = 0
<1>1. ~(onConnects + onDisconnects > 0)
  BY DEF Overlaps
<1> QED
  BY <1>1 DEF TypeOK

LEMMA CallbackStep == IInv /\ CallbackInv /\ [Next]_vars => CallbackInv'
<1> SUFFICES ASSUME IInv, CallbackInv, [Next]_vars PROVE CallbackInv'
  OBVIOUS
<1> USE DEF IInv, TypeOK, CallbackInv
<1>1. CASE UNCHANGED <<state, callbackVars>>
  BY <1>1 DEF callbackVars
<1>2. ASSUME NEW k \in Timers \cup {0}, Connect(k) PROVE CallbackInv'
  <2>1. CASE ReturnsAtOnce(k)
    BY <1>1, <2>1 DEF ReturnsAtOnce, linkVars
  <2>2. CASE Succeeds(k)
    <3>1. ~overlapped' => onConnects = 0 /\ onDisconnects = 0
      BY <2>2, CallbackAlone DEF Succeeds
    <3>2. state' = "connected" /\ onConnects' = onConnects + 1 /\ onDisconnects' = onDisconnects
      BY <2>2 DEF Succeeds, Told
    <3> QED
      BY <3>1, <3>2
  <2>3. CASE Fails(k)
    BY <2>3 DEF Fails, FailedState, callbackVars
  <2> QED
    BY <1>2, <2>1, <2>2, <2>3 DEF Connect
<1>3. CASE CallConnect
  BY <1>2, <1>3 DEF CallConnect
<1>4. CASE Disconnect
  <2>1. ~overlapped' => onConnects = 0 /\ onDisconnects = 0
    BY <1>4, CallbackAlone DEF Disconnect
  <2>2. /\ state' = "disconnected"
        /\ onConnects' = onConnects /\ onDisconnects' = onDisconnects + 1
    BY <1>4 DEF Disconnect
  <2> QED
    BY <2>1, <2>2
<1>5. CASE DisconnectFails \/ DisconnectPanics \/ LinkDrops
  BY <1>1, <1>5 DEF DisconnectFails, DisconnectPanics, LinkDrops
<1>6. ASSUME NEW k \in Timers, TimerStep(k) PROVE CallbackInv'
  BY <1>1, <1>2, <1>6
  DEF TimerStep, RetryConnect, TimerExpires, TimerRetries, TimerGivesUp, MoveTimer, linkVars
<1>7. CASE OnConnect \/ OnDisconnect
  BY <1>7 DEF OnConnect, OnDisconnect, linkVars
<1>8. CASE UNCHANGED vars
  BY <1>1, <1>8 DEF vars, linkVars
<1> QED
  BY <1>3, <1>4, <1>5, <1>6, <1>7, <1>8 DEF Next

(* Callbacks that do not overlap leave the application with the right view *)
(* of the connection: Connect and Disconnect tell of every change.         *)
THEOREM CallbacksAreTrue == Spec => []CallbacksTellState
<1>1. Init => CallbackInv
  BY DEF Init, CallbackInv
<1>2. IInv /\ CallbackInv => CallbacksTellState
  BY DEF IInv, TypeOK, CallbackInv, CallbacksTellState
<1> QED
  BY <1>1, <1>2, CallbackStep, Inductive, PTL DEF Spec
-----------------------------------------------------------------------------
(* The refinement of Link.                                                 *)

(* The mapping takes states to states of Link, and errors to kept promises. *)
LEMMA LinkMapped ==
    IInv' => LinkStatus' \in {"down", "trying", "up"} /\ L!Promise'
  BY DEF IInv, TypeOK, LinkStatus, L!Promise, ErrorHasRetry, RetryComing, CloseFailed

LEMMA LinkStep == IInv /\ [Next]_vars => [L!Next]_(L!vars)
<1> SUFFICES ASSUME IInv, [Next]_vars PROVE [L!Next]_(L!vars)
  OBVIOUS
<1>1. IInv'
  BY InductiveStep
<1>2. L!Promise' /\ LinkStatus' \in {"down", "trying", "up"}
  BY <1>1, LinkMapped
<1>3. /\ RetryComing \in BOOLEAN /\ RetryComing' \in BOOLEAN
      /\ RetryUnderWay \in BOOLEAN /\ RetryUnderWay' \in BOOLEAN
      /\ CloseFailed \in BOOLEAN /\ CloseFailed' \in BOOLEAN
  BY DEF RetryComing, RetryUnderWay, CloseFailed
<1> DEFINE NoNewRetry ==
        /\ \A k \in Timers : timer[k] \notin {"armed", "expired", "retrying"} =>
              timer'[k] \notin {"armed", "expired", "retrying"}
        /\ \A k \in Timers : timer'[k] = "retrying" => timer[k] = "retrying"
<1>4. ASSUME NoNewRetry PROVE L!Ceases
  <2>1. (RetryComing' => RetryComing) /\ (RetryUnderWay' => RetryUnderWay)
    BY <1>4 DEF RetryComing, RetryUnderWay, Active
  <2> QED
    BY <1>3, <2>1 DEF L!Ceases
<1> HIDE DEF NoNewRetry
\* A step that the link does not see.
<1>5. ASSUME UNCHANGED <<state, timer, connects, disconnects, closeErrs>>
      PROVE  [L!Next]_(L!vars)
  BY <1>5 DEF L!vars, L!outcome, L!calls, LinkStatus, RetryComing, RetryUnderWay, CloseFailed,
     Active
<1>6. ASSUME NEW k, Connect(k) PROVE LinkStatus' \in {"trying", "up"}
  BY <1>6 DEF Connect, ReturnsAtOnce, Succeeds, Fails, AlreadyConnected, FailedState,
     LinkStatus,
      linkVars
<1>7. CASE CallConnect
  <2>1. LinkStatus' \in {"trying", "up"} /\ connects' = connects + 1 /\ UNCHANGED disconnects
    BY <1>6, <1>7 DEF CallConnect, Connect
  <2> QED
    BY <1>2, <1>3, <2>1 DEF L!Next, L!Connect
<1>8. CASE Disconnect
  <2>1. LinkStatus' = "down" /\ UNCHANGED CloseFailed
    BY <1>8 DEF Disconnect, LinkStatus, CloseFailed
  <2>2. NoNewRetry
    BY <1>8 DEF Disconnect, StopRetry, NoNewRetry, IInv, TypeOK
  <2> QED
    BY <1>4, <1>8, <2>1, <2>2 DEF Disconnect, DisconnectCall, L!Next, L!Disconnect
<1>9. CASE DisconnectFails \/ DisconnectPanics
  <2>1. CloseFailed' = TRUE /\ UNCHANGED LinkStatus
    BY <1>9 DEF DisconnectFails, DisconnectPanics, StopChannelFree, CloseFailed, LinkStatus,
        IInv, TypeOK, ClosedByFailure
  <2>2. NoNewRetry
    BY <1>9 DEF DisconnectFails, DisconnectPanics, StopRetry, NoNewRetry, IInv, TypeOK
  <2> QED
    BY <1>4, <1>9, <2>1, <2>2
    DEF DisconnectFails, DisconnectPanics, DisconnectCall, L!Next, L!Disconnect
<1>10. ASSUME NEW k \in Timers, TimerStep(k) PROVE [L!Next]_(L!vars)
  <2>1. CASE RetryConnect(k)
    <3>1. LinkStatus' \in {"trying", "up"} /\ UNCHANGED <<connects, disconnects>>
      BY <1>6, <2>1 DEF RetryConnect, Connect
    <3>2. RetryUnderWay
      BY <2>1 DEF RetryConnect, RetryUnderWay
    <3> QED
      BY <1>2, <1>3, <3>1, <3>2 DEF L!Next, L!Finish, L!Statuses, L!calls
  <2>2. CASE TimerRetries(k)
    <3>1. LinkStatus = "trying" /\ UNCHANGED <<LinkStatus, CloseFailed, connects, disconnects>>
      BY <2>2 DEF TimerRetries, StillInError, MoveTimer, linkVars, boundVars, LinkStatus,
         CloseFailed
    <3>2. RetryComing /\ RetryComing' /\ RetryUnderWay'
      BY <2>2 DEF TimerRetries, MoveTimer, RetryComing, RetryUnderWay, Active, IInv, TypeOK
    <3> QED
      BY <1>3, <3>1, <3>2 DEF L!Next, L!Look, L!calls
  <2>3. CASE TimerExpires(k) \/ TimerGivesUp(k)
    <3>1. UNCHANGED <<LinkStatus, CloseFailed, connects, disconnects>>
      BY <2>3 DEF TimerExpires, TimerGivesUp, MoveTimer, linkVars, boundVars, LinkStatus,
         CloseFailed
    <3>2. NoNewRetry
      BY <2>3 DEF TimerExpires, TimerGivesUp, MoveTimer, NoNewRetry, IInv, TypeOK
    <3> QED
      BY <1>2, <1>4, <3>1, <3>2 DEF L!Next, L!Expire, L!calls
  <2> QED
    BY <1>10, <2>1, <2>2, <2>3 DEF TimerStep
<1>11. CASE LinkDrops \/ OnConnect \/ OnDisconnect \/ UNCHANGED vars
  BY <1>5, <1>11
  DEF LinkDrops, OnConnect, OnDisconnect, vars, linkVars, timerVars, boundVars
<1> QED
  BY <1>7, <1>8, <1>9, <1>10, <1>11 DEF Next

(***************************************************************************)
(* Connections of all three kinds implement Link: whatever the timing of   *)
(* retries and calls, the application can rely on what Link says.          *)
(***************************************************************************)
THEOREM LinkImplemented == Spec => ImplementsLink
<1>1. Init => L!Init
  BY DEF Init, L!Init, LinkStatus, RetryComing, RetryUnderWay, CloseFailed, Active
<1>2. IInv /\ [Next]_vars => [L!Next]_(L!vars)
  BY LinkStep
<1> QED
  BY <1>1, <1>2, Inductive, PTL DEF Spec, L!Spec, ImplementsLink

-----------------------------------------------------------------------------
(* RetryBackoff, for any width of a Duration, any configured delays and    *)
(* outages of any length.                                                  *)

\* The invariant behind the properties: the delay scheduled last is the one
\* for half of the present power.
DelayIsLatest ==
    retryCount > 0 => \E p \in Nat \ {0} : power = 2 * p /\ delay = DelayFor(p)

\* After a success the count is that of a new client.
QuietIsReset == quiet => power = 1

DelayInv == RetryTypeOK /\ DelayIsLatest /\ QuietIsReset

(* A larger power never gives a shorter delay where conversion saturates.  *)
LEMMA DelayMonotone ==
    ASSUME RetryTypeOK, saturates, NEW p \in Nat \ {0}
    PROVE  DelayFor(2 * p) >= DelayFor(p)
<1>1. minDelay * (2 * p) = 2 * (minDelay * p) /\ minDelay * p \in Nat
  BY RetryAssumption DEF RetryTypeOK
<1> QED
  BY <1>1, RetryAssumption DEF RetryTypeOK, DelayFor, Capped, ToDuration

(* A delay is in its type, and in range if it does not overflow.           *)
LEMMA DelayBounds ==
    ASSUME RetryTypeOK, NEW p \in Nat \ {0}
    PROVE  /\ DelayFor(p) \in (-MaxDuration - 1) .. maxDelay
           /\ (saturates \/ minDelay * p <= MaxDuration) =>
                 DelayFor(p) >= minDelay \/ DelayFor(p) = maxDelay
<1>1. minDelay * p \in Nat /\ minDelay * p >= minDelay
  BY RetryAssumption DEF RetryTypeOK
<1> QED
  BY <1>1, RetryAssumption DEF RetryTypeOK, DelayFor, Capped, ToDuration

LEMMA RetryInductive == RetrySpec => []DelayInv
<1>1. RetryInit => DelayInv
  BY RetryAssumption DEF RetryInit, DelayInv, RetryTypeOK, DelayIsLatest, QuietIsReset,
     WithDefault
<1>2. DelayInv /\ [RetryNext]_retryVars => DelayInv'
  <2> SUFFICES ASSUME DelayInv, [RetryNext]_retryVars PROVE DelayInv'
    OBVIOUS
  <2> USE RetryAssumption DEF DelayInv, RetryTypeOK
  <2>1. CASE ScheduleRetry
    <3>1. delay' \in (-MaxDuration - 1) .. maxDelay
      BY <2>1, DelayBounds DEF ScheduleRetry
    <3>2. RetryTypeOK'
      <4>1. retryCount' \in 0 .. MaxRetries /\ power' \in Nat \ {0}
        BY <2>1 DEF ScheduleRetry
      <4>2. quiet' \in BOOLEAN
        BY <2>1 DEF ScheduleRetry
      <4> QED
        BY <2>1, <3>1, <4>1, <4>2 DEF ScheduleRetry, config
    <3>3. DelayIsLatest'
      BY <2>1 DEF ScheduleRetry, config, DelayIsLatest, DelayFor, Capped, ToDuration
    <3>4. QuietIsReset'
      BY <2>1 DEF ScheduleRetry, QuietIsReset
    <3> QED
      BY <3>2, <3>3, <3>4
  <2>2. CASE Connected
    BY <2>2 DEF Connected, config, CountAfterSuccess, DelayIsLatest, QuietIsReset
  <2>3. CASE UNCHANGED retryVars
    BY <2>3 DEF retryVars, config, DelayIsLatest, QuietIsReset, DelayFor, Capped, ToDuration
  <2> QED
    BY <2>1, <2>2, <2>3 DEF RetryNext
<1> QED
  BY <1>1, <1>2, PTL DEF RetrySpec

-----------------------------------------------------------------------------
(* No delay exceeds the configured maximum, on any machine.                *)
THEOREM RetryTypeCorrect == RetrySpec => []RetryTypeOK
  BY RetryInductive, PTL DEF DelayInv

(* Where the conversion saturates, every retry waits between minDelay and  *)
(* maxDelay however long the outage (scheduleRetry, modbus/client.go:157). *)
THEOREM BackoffInRange == RetrySpec => []InRangeIfSaturating
<1>1. DelayInv => InRangeIfSaturating
  BY DelayBounds, RetryAssumption
  DEF DelayInv, DelayIsLatest, InRangeIfSaturating, InRange, RetryTypeOK
<1> QED
  BY <1>1, RetryInductive, PTL

(* On every machine that holds until the product overflows a Duration.     *)
THEOREM BackoffUntilOverflow == RetrySpec => []InRangeUntilOverflow
<1>1. DelayInv => InRangeUntilOverflow
  <2> SUFFICES ASSUME DelayInv, retryCount > 0, minDelay * power <= 2 * MaxDuration
               PROVE  InRange
    BY DEF InRangeUntilOverflow
  <2>1. PICK p \in Nat \ {0} : power = 2 * p /\ delay = DelayFor(p)
    BY DEF DelayInv, DelayIsLatest
  <2>2. minDelay * p <= MaxDuration
    BY <2>1, minDelay * (2 * p) = 2 * (minDelay * p), RetryAssumption DEF DelayInv, RetryTypeOK
  <2> QED
    BY <2>1, <2>2, DelayBounds, RetryAssumption DEF DelayInv, RetryTypeOK, InRange
<1> QED
  BY <1>1, RetryInductive, PTL

(* Where the conversion saturates, delays do not shrink during an outage.  *)
THEOREM BackoffGrows == RetrySpec => DelaysGrow
<1>1. DelayInv /\ [RetryNext]_retryVars =>
        [saturates /\ retryCount > 0 /\ retryCount' > retryCount => delay' >= delay]_retryVars
  <2> SUFFICES ASSUME DelayInv, RetryNext, saturates, retryCount > 0, retryCount' > retryCount
               PROVE  delay' >= delay
    OBVIOUS
  <2>1. ScheduleRetry
    BY RetryAssumption DEF RetryNext, Connected, CountAfterSuccess, DelayInv, RetryTypeOK
  <2>2. PICK p \in Nat \ {0} : power = 2 * p /\ delay = DelayFor(p)
    BY DEF DelayInv, DelayIsLatest
  <2>3. delay' = DelayFor(2 * p)
    BY <2>1, <2>2 DEF ScheduleRetry
  <2> QED
    BY <2>2, <2>3, DelayMonotone DEF DelayInv
<1> QED
  BY <1>1, RetryInductive, PTL DEF RetrySpec, DelaysGrow

(* Every outage begins with the shortest delay again, on any machine: the  *)
(* reset of retryCount in Connect (redis/client.go:105).                   *)
THEOREM BackoffStartsAfresh == RetrySpec => OutagesStartAfresh
<1>1. DelayInv /\ [RetryNext]_retryVars => [quiet /\ ~quiet' => delay' = Capped(minDelay)]_retryVars
  <2> SUFFICES ASSUME DelayInv, RetryNext, quiet, ~quiet' PROVE delay' = Capped(minDelay)
    OBVIOUS
  <2>1. ScheduleRetry
    BY DEF RetryNext, Connected
  <2>2. delay' = DelayFor(1)
    BY <2>1 DEF ScheduleRetry, DelayInv, QuietIsReset
  <2> QED
    BY <2>2, RetryAssumption DEF DelayFor, ToDuration, DelayInv, RetryTypeOK
<1> QED
  BY <1>1, RetryInductive, PTL DEF RetrySpec, OutagesStartAfresh
=============================================================================
