---------------------------- MODULE SourceClient ----------------------------
(***************************************************************************)
(* One connection of pkg/modbus, pkg/opcua or pkg/redis: Connect,          *)
(* Disconnect, the retry timers that scheduleRetry arms, the reconnection  *)
(* they attempt, and the callbacks that tell the application.              *)
(*                                                                         *)
(* Connect and Disconnect hold c.mu from beginning to end, dialling        *)
(* included, so each is one step and "connecting" is seen by nobody.  The  *)
(* callback of a retry timer takes c.mu twice, first to look at the state, *)
(* then, inside Connect, to reconnect: between the two anything can happen.*)
(*                                                                         *)
(* The delay of a retry is the subject of RetryBackoff; here a timer may   *)
(* expire at any time.  The key listener of the Redis client is left out,  *)
(* but not the channel that Disconnect closes to stop it.                  *)
(***************************************************************************)
EXTENDS Naturals, FiniteSets

CONSTANTS
    Kinds,          \* the kinds of client considered
    MaxConnects,    \* bound: calls of Connect by the application
    MaxDisconnects, \* bound: calls of Disconnect
    MaxFailures,    \* bound: attempts to connect that fail
    MaxDrops,       \* bound: links that break down
    MaxCloseErrs    \* bound: calls of the library's Close that fail

ASSUME ConstantsAssumption ==
    /\ Kinds \subseteq {"modbus", "opcua", "redis"}
    /\ MaxConnects \in Nat /\ MaxDisconnects \in Nat /\ MaxFailures \in Nat
    /\ MaxDrops \in Nat /\ MaxCloseErrs \in Nat

VARIABLES
    kind,         \* the package the client is from
    state,        \* c.state
    client,       \* c.client: "nil", or how its link is: "closed", "open", or
                  \* "refused": open, but the server answered Ping with an error
    err,          \* c.error is not nil
    timer,        \* timer[k]: state of the timer armed by the k-th failure
    retryTimeout, \* the timer in c.retryTimeout, 0 for nil
    stopCh,       \* Redis: c.stopCh, "open" or "closed"
    crashed,      \* the program has panicked
    orphans,      \* links that came up and that no field refers to any more
    leftovers,    \* refused links that no field refers to any more
    connects, disconnects, failures, drops, closeErrs, \* the counts bounded above
    onConnects,   \* calls of onConnect that are under way
    onDisconnects,\* calls of onDisconnect that are under way
    appView,      \* what the last callback that ran has said
    overlapped    \* a callback was started while another was under way

linkVars == <<kind, state, client, err, orphans, leftovers>>
timerVars == <<timer, retryTimeout>>
callbackVars == <<onConnects, onDisconnects, appView, overlapped>>
boundVars == <<connects, disconnects, failures, drops, closeErrs>>
vars == <<linkVars, timerVars, callbackVars, boundVars, stopCh, crashed>>

Timers == 1 .. MaxFailures
TimerStates == {"unused", "armed", "expired", "retrying", "done"}

Active(k) == timer[k] \in {"armed", "expired", "retrying"}

Init ==
    /\ kind \in Kinds
    /\ state = "disconnected" /\ client = "nil" /\ err = FALSE
    /\ orphans = 0 /\ leftovers = 0
    /\ timer = [k \in Timers |-> "unused"] /\ retryTimeout = 0
    /\ stopCh = "open" /\ crashed = FALSE
    /\ connects = 0 /\ disconnects = 0 /\ failures = 0 /\ drops = 0 /\ closeErrs = 0
    /\ onConnects = 0 /\ onDisconnects = 0 /\ appView = "disconnected"
    /\ overlapped = FALSE

-----------------------------------------------------------------------------
(* The body of Connect.  The timer whose callback runs it, 0 for a call of *)
(* the application, is done with it.                                       *)

\* Mutated form: every call dials.
NeverConnected == FALSE
AlreadyConnected ==
    /\ state = "connected"
    /\ client # "nil"
    /\ kind = "modbus" => client = "open"

\* A link that is open when c.client is overwritten is nobody's any more.
Overwritten ==
    /\ orphans' = orphans + (IF client = "open" THEN 1 ELSE 0)
    /\ leftovers' = leftovers + (IF client = "refused" THEN 1 ELSE 0)

\* opcua assigns c.client only when it is connected.  redis assigns it before
\* Ping, which fails without a connection or with an error as the answer, and
\* does not close it; with a URL that cannot be parsed it is never assigned.
ClientsOnFailure ==
    CASE kind = "modbus" -> {"closed"}
      [] kind = "opcua" -> {client}
      [] kind = "redis" -> {"closed", "refused"} \cup ({client} \cap {"nil"})

Finished(k) == [i \in Timers |-> IF i = k THEN "done" ELSE timer[i]]

ReturnsAtOnce(k) ==
    /\ AlreadyConnected
    /\ timer' = Finished(k)
    /\ UNCHANGED <<linkVars, retryTimeout, callbackVars, failures>>

\* Mutated form: a successful Connect leaves the error of an earlier one.
ErrorKept == err
ErrorCleared == FALSE

\* Mutated form: only the caller of Connect is told, a retry tells nobody.
ToldIfCalled(k) == IF k = 0 THEN onConnects + 1 ELSE onConnects
Told(k) == onConnects + 1

Overlaps == overlapped \/ onConnects + onDisconnects > 0

Succeeds(k) ==
    /\ ~AlreadyConnected
    /\ state' = "connected"
    /\ client' = "open"
    /\ err' = ErrorCleared
    /\ Overwritten
    /\ timer' = Finished(k)
    /\ onConnects' = Told(k)
    /\ overlapped' = Overlaps
    /\ UNCHANGED <<kind, retryTimeout, onDisconnects, appView, failures>>

\* Mutated form: scheduleRetry does not arm its timer.
NotArmed(n, k) == Finished(k)
Armed(n, k) == [Finished(k) EXCEPT ![n] = "armed"]

FailedState == "error"

\* The attempt fails: scheduleRetry arms one more timer.
Fails(k) ==
    /\ ~AlreadyConnected
    /\ failures < MaxFailures
    /\ failures' = failures + 1
    /\ state' = FailedState
    /\ err' = TRUE
    /\ client' \in ClientsOnFailure
    /\ IF kind = "opcua" THEN UNCHANGED <<orphans, leftovers>> ELSE Overwritten
    /\ timer' = Armed(failures', k)
    /\ retryTimeout' = failures'
    /\ UNCHANGED <<kind, callbackVars>>

Connect(k) ==
    /\ ReturnsAtOnce(k) \/ Succeeds(k) \/ Fails(k)
    /\ UNCHANGED <<disconnects, drops, closeErrs, stopCh, crashed>>

CallConnect ==
    /\ ~crashed
    /\ connects < MaxConnects
    /\ connects' = connects + 1
    /\ Connect(0)

-----------------------------------------------------------------------------
(* Disconnect.  Stop keeps a timer from firing if it has not expired yet.  *)

StopRetry ==
    /\ retryTimeout' = 0
    /\ timer' = [k \in Timers |->
          IF k = retryTimeout /\ timer[k] = "armed" THEN "done" ELSE timer[k]]

\* A second close of the Redis client's stopCh panics.
StopChannelFree == kind = "redis" => stopCh = "open"

DisconnectCall ==
    /\ ~crashed
    /\ disconnects < MaxDisconnects
    /\ disconnects' = disconnects + 1
    /\ UNCHANGED <<kind, err, orphans, leftovers, connects, failures, drops>>

ClientDropped == "nil"

Disconnect ==
    /\ DisconnectCall
    /\ StopChannelFree
    /\ StopRetry
    /\ state' = "disconnected"
    /\ client' = ClientDropped
    /\ onDisconnects' = onDisconnects + 1
    /\ overlapped' = Overlaps
    /\ UNCHANGED <<onConnects, appView, closeErrs, stopCh, crashed>>

\* Close fails and Disconnect returns early: the retry is off, state and
\* client are as before; whether the link is still up is not known.
DisconnectFails ==
    /\ DisconnectCall
    /\ StopChannelFree
    /\ client # "nil"
    /\ closeErrs < MaxCloseErrs
    /\ closeErrs' = closeErrs + 1
    /\ StopRetry
    /\ client' \in {client, "closed"}
    /\ stopCh' = IF kind = "redis" THEN "closed" ELSE stopCh
    /\ UNCHANGED <<state, callbackVars, crashed>>

\* The panic comes after the retry timer was stopped.
DisconnectPanics ==
    /\ DisconnectCall
    /\ ~StopChannelFree
    /\ StopRetry
    /\ crashed' = TRUE
    /\ UNCHANGED <<state, client, callbackVars, closeErrs, stopCh>>

-----------------------------------------------------------------------------
(* The retry timers.                                                       *)

MoveTimer(k, from, to) ==
    /\ ~crashed
    /\ timer[k] = from
    /\ timer' = [timer EXCEPT ![k] = to]
    /\ UNCHANGED <<linkVars, retryTimeout, callbackVars, boundVars, stopCh, crashed>>

TimerExpires(k) == MoveTimer(k, "armed", "expired")

\* Mutated form: the callback reconnects whatever the state.
AlwaysRetry == TRUE
StillInError == state = "error"

\* First critical section of the callback: the look at the state.
TimerRetries(k) == StillInError /\ MoveTimer(k, "expired", "retrying")
TimerGivesUp(k) == ~StillInError /\ MoveTimer(k, "expired", "done")

\* Second critical section: Connect, on what the first one saw.
RetryConnect(k) ==
    /\ ~crashed
    /\ timer[k] = "retrying"
    /\ Connect(k)
    /\ UNCHANGED connects

-----------------------------------------------------------------------------
(* The link and the application.                                           *)

\* The peer goes away and the Modbus library notices.  The OPC UA and Redis
\* libraries repair their links themselves.
LinkDrops ==
    /\ ~crashed
    /\ kind = "modbus" /\ client = "open" /\ drops < MaxDrops
    /\ drops' = drops + 1
    /\ client' = "closed"
    /\ UNCHANGED <<kind, state, err, orphans, leftovers, timerVars, callbackVars, connects,
                   disconnects, failures, closeErrs, stopCh, crashed>>

\* Each callback runs in a goroutine of its own: any of them may be next.
OnConnect ==
    /\ ~crashed /\ onConnects > 0
    /\ onConnects' = onConnects - 1
    /\ appView' = "connected"
    /\ UNCHANGED <<linkVars, timerVars, onDisconnects, overlapped, boundVars, stopCh, crashed>>

OnDisconnect ==
    /\ ~crashed /\ onDisconnects > 0
    /\ onDisconnects' = onDisconnects - 1
    /\ appView' = "disconnected"
    /\ UNCHANGED <<linkVars, timerVars, onConnects, overlapped, boundVars, stopCh, crashed>>

-----------------------------------------------------------------------------
TimerStep(k) == TimerExpires(k) \/ TimerRetries(k) \/ TimerGivesUp(k) \/ RetryConnect(k)

Next ==
    \/ CallConnect
    \/ Disconnect \/ DisconnectFails \/ DisconnectPanics
    \/ \E k \in Timers : TimerStep(k)
    \/ LinkDrops
    \/ OnConnect \/ OnDisconnect

Spec == Init /\ [][Next]_vars

\* Timers expire and the goroutines they start run; nothing makes the
\* application connect or disconnect, or a link break.
FairSpec == Spec /\ \A k \in Timers : WF_vars(TimerStep(k))

-----------------------------------------------------------------------------
TypeOK ==
    /\ kind \in Kinds
    /\ state \in {"disconnected", "connected", "error"}
    /\ client \in {"nil", "closed", "refused", "open"}
    /\ err \in BOOLEAN
    /\ timer \in [Timers -> TimerStates]
    /\ retryTimeout \in 0 .. MaxFailures
    /\ stopCh \in {"open", "closed"}
    /\ crashed \in BOOLEAN
    /\ orphans \in Nat /\ leftovers \in Nat
    /\ connects \in 0 .. MaxConnects
    /\ disconnects \in 0 .. MaxDisconnects
    /\ failures \in 0 .. MaxFailures
    /\ drops \in 0 .. MaxDrops
    /\ closeErrs \in 0 .. MaxCloseErrs
    /\ onConnects \in Nat /\ onDisconnects \in Nat
    /\ appView \in {"connected", "disconnected"}
    /\ overlapped \in BOOLEAN

(***************************************************************************)
(* What State, Error and the link say fits together: connected means a     *)
(* client and no error; error means an error and no link that is up, though*)
(* with Redis perhaps one whose server refuses; disconnected means no      *)
(* client, so that nothing stays open behind it.                           *)
(***************************************************************************)
StatusConsistent ==
    /\ state = "connected" => client \in {"closed", "open"} /\ ~err
    /\ state = "error" => client # "open" /\ err
    /\ client = "refused" => kind = "redis" /\ state = "error"
    /\ state = "disconnected" => client = "nil"

(***************************************************************************)
(* However the retries of several failures overlap with the calls of the   *)
(* application, a link that came up is never overwritten by a newer one.   *)
(* What is overwritten, and stays open with nobody to close it, is at most *)
(* one refused link for each failed attempt, and with Redis only.          *)
(***************************************************************************)
WorkingLinksAreKept ==
    /\ orphans = 0
    /\ leftovers <= failures
    /\ kind # "redis" => leftovers = 0

(***************************************************************************)
(* A client in error is going to try again, unless a Disconnect gave up    *)
(* half-way because Close failed.                                          *)
(***************************************************************************)
ErrorHasRetry ==
    state = "error" => closeErrs > 0 \/ \E k \in Timers : Active(k)

(***************************************************************************)
(* A retry never multiplies: there are at most as many chains of retries   *)
(* as there were calls of Connect by the application.                      *)
(***************************************************************************)
RetriesBounded == Cardinality({k \in Timers : Active(k)}) <= connects

(***************************************************************************)
(* Once the client is disconnected and no timer is between its look at the *)
(* state and its Connect, older timers cannot bring the connection back:   *)
(* only a new call of Connect can.                                         *)
(***************************************************************************)
Settled == state = "disconnected" /\ \A k \in Timers : timer[k] # "retrying"

DisconnectSticks == [][Settled /\ connects' = connects => Settled']_vars

(***************************************************************************)
(* The callbacks tell the truth: an application that has heard all of them *)
(* knows whether the client is connected, if no callback was started while *)
(* another was under way.  (Each runs in a goroutine of its own: of two    *)
(* that overlap the older may be heard last.)                              *)
(***************************************************************************)
CallbacksTellState ==
    ~overlapped /\ onConnects + onDisconnects = 0 /\ state # "error" => appView = state

(***************************************************************************)
(* An unreachable server is reached again once attempts stop failing, with *)
(* no help from the application, unless a Disconnect gave up half-way.     *)
(***************************************************************************)
ErrorIsLeft == state = "error" ~> (state # "error" \/ closeErrs > 0)

(***************************************************************************)
(* The connection does what Link says of any connection: an error has a    *)
(* retry behind it unless a Close has failed, and between two calls only a *)
(* retry that has already looked at the state changes anything, so that a  *)
(* client that is disconnected stays so.                                   *)
(***************************************************************************)
LinkStatus ==
    CASE state = "disconnected" -> "down"
      [] state = "error" -> "trying"
      [] state = "connected" -> "up"
RetryComing == \E k \in Timers : Active(k)
RetryUnderWay == \E k \in Timers : timer[k] = "retrying"
CloseFailed == closeErrs > 0

L == INSTANCE Link WITH
    status <- LinkStatus,
    hope <- RetryComing,
    late <- RetryUnderWay,
    abandoned <- CloseFailed

ImplementsLink == L!Spec
=============================================================================
