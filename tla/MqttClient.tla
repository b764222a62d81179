----------------------------- MODULE MqttClient -----------------------------
(***************************************************************************)
(* The connection of pkg/mqtt/client.go.  Unlike the other clients it is   *)
(* told by its library, in goroutines of their own, when the link is up or *)
(* lost: Connect makes a new client of the paho library, waits for it up   *)
(* to 30 s with c.mu held, and leaves the state "connecting"; the library's*)
(* OnConnect handler, which needs c.mu, makes it "connected" and publishes *)
(* the Sparkplug NBIRTH after it has released c.mu.                        *)
(*                                                                         *)
(* The options ConnectRetry and AutoReconnect make a paho client dial until*)
(* it is told to disconnect.  The n-th paho client is the number n.        *)
(* The application's callbacks, which SourceClient has, and the delays of  *)
(* the retries, which RetryBackoff has, are left out.                      *)
(***************************************************************************)
EXTENDS Integers, FiniteSets

CONSTANTS
    Sparkplug,      \* GroupID and EdgeNodeID are configured
    UseTLS,         \* config.UseTLS: buildTLSConfig may fail
    MaxClients,     \* bound: paho clients; MaxConnects + MaxFailures are enough
    MaxConnects,    \* bound: calls of Connect by the application
    MaxDisconnects, \* bound: calls of Disconnect
    MaxFailures,    \* bound: calls of Connect that time out or fail
    MaxDrops        \* bound: links that are lost

ASSUME ConstantsAssumption ==
    /\ Sparkplug \in BOOLEAN /\ UseTLS \in BOOLEAN
    /\ MaxClients \in Nat /\ MaxConnects \in Nat /\ MaxDisconnects \in Nat
    /\ MaxFailures \in Nat /\ MaxDrops \in Nat

VARIABLES
    state,        \* c.state
    err,          \* c.error is not nil
    client,       \* c.client, 0 for nil
    made,         \* how many paho clients there are
    link,         \* link[n]: what paho client n is doing
    holder,       \* who waits inside Connect, with c.mu held, if anybody
    timer,        \* timer[k]: state of the timer armed by the k-th failure
    retryTimeout, \* the timer in c.retryTimeout, 0 for nil
    ups, downs,   \* handlers of client n that wait for c.mu
    births,       \* OnConnect handlers between their unlock and publishNBirth
    crashed,      \* the program has panicked
    tlsFailed,    \* the last call of Connect failed in buildTLSConfig
    connects, disconnects, failures, drops \* the counts bounded above

statusVars == <<state, err>>
linkVars == <<client, made, link>>
timerVars == <<timer, retryTimeout>>
handlerVars == <<ups, downs, births>>
boundVars == <<connects, disconnects, failures, drops>>
vars == <<statusVars, linkVars, holder, timerVars, handlerVars, crashed, tlsFailed, boundVars>>

Clients == 1 .. MaxClients
Timers == 1 .. MaxFailures
Application == 0
Nobody == -1

Unlocked == holder = Nobody
Active(k) == timer[k] \in {"armed", "expired", "retrying"}

Init ==
    /\ state = "disconnected" /\ err = FALSE
    /\ client = 0 /\ made = 0 /\ link = [n \in Clients |-> "unused"]
    /\ holder = Nobody
    /\ timer = [k \in Timers |-> "unused"] /\ retryTimeout = 0
    /\ ups = [n \in Clients |-> 0] /\ downs = [n \in Clients |-> 0] /\ births = 0
    /\ crashed = FALSE /\ tlsFailed = FALSE
    /\ connects = 0 /\ disconnects = 0 /\ failures = 0 /\ drops = 0

-----------------------------------------------------------------------------
(* Connect, on behalf of k: the application or the timer k.                *)

Finished(k) == [i \in Timers |-> IF i = k THEN "done" ELSE timer[i]]

\* Who may call Connect, and the count of the application's calls.
Calls(k) ==
    /\ ~crashed /\ Unlocked
    /\ \/ k = Application /\ connects < MaxConnects /\ connects' = connects + 1
       \/ k \in Timers /\ timer[k] = "retrying" /\ UNCHANGED connects
    /\ UNCHANGED <<disconnects, failures, drops, handlerVars, crashed>>

\* paho's IsConnected holds of a client that is still dialling.
AlreadyConnected == state = "connected" /\ client # 0 /\ link[client] # "closed"

ReturnsAtOnce(k) ==
    /\ Calls(k)
    /\ AlreadyConnected
    /\ timer' = Finished(k)
    /\ UNCHANGED <<statusVars, linkVars, holder, retryTimeout, tlsFailed>>

\* buildTLSConfig fails: an error, and no retry.
TLSFails(k) ==
    /\ Calls(k)
    /\ ~AlreadyConnected
    /\ UseTLS
    /\ state' = "error" /\ err' = TRUE /\ tlsFailed' = TRUE
    /\ timer' = Finished(k)
    /\ UNCHANGED <<linkVars, holder, retryTimeout>>

\* The old paho client, if any, is overwritten, not disconnected.
Dials(k) ==
    /\ Calls(k)
    /\ ~AlreadyConnected
    /\ made < MaxClients
    /\ made' = made + 1
    /\ client' = made'
    /\ link' = [link EXCEPT ![made'] = "dialling"]
    /\ state' = "connecting"
    /\ holder' = k
    /\ tlsFailed' = FALSE
    /\ UNCHANGED <<err, timerVars>>

\* The token is done: Connect returns and leaves the rest to the handler.
ConnectReturns ==
    /\ ~crashed /\ ~Unlocked
    /\ link[client] \in {"up", "lost"}
    /\ timer' = Finished(holder)
    /\ holder' = Nobody
    /\ UNCHANGED <<statusVars, linkVars, retryTimeout, handlerVars, crashed, tlsFailed, boundVars>>

\* Mutated form: scheduleRetry does not arm its timer.
NotArmed(n, k) == Finished(k)
Armed(n, k) == [Finished(k) EXCEPT ![n] = "armed"]

\* After 30 s, done or not, or when the token carries an error (no broker).
ConnectFails ==
    /\ ~crashed /\ ~Unlocked
    /\ failures < MaxFailures
    /\ failures' = failures + 1
    /\ \/ UNCHANGED link
       \/ link[client] = "dialling" /\ link' = [link EXCEPT ![client] = "closed"]
    /\ state' = "error" /\ err' = TRUE
    /\ timer' = Armed(failures', holder)
    /\ retryTimeout' = failures'
    /\ holder' = Nobody
    /\ UNCHANGED <<client, made, handlerVars, crashed, tlsFailed, connects, disconnects, drops>>

-----------------------------------------------------------------------------
(* The library, and the handlers that Connect has given it.                *)

\* The broker answers a client that dials, first or again.
LinkUp(n) ==
    /\ ~crashed
    /\ link[n] \in {"dialling", "lost"}
    /\ link' = [link EXCEPT ![n] = "up"]
    /\ ups' = [ups EXCEPT ![n] = @ + 1]
    /\ UNCHANGED <<statusVars, client, made, holder, timerVars, downs, births, crashed, tlsFailed,
                   boundVars>>

LinkLost(n) ==
    /\ ~crashed
    /\ link[n] = "up"
    /\ drops < MaxDrops
    /\ drops' = drops + 1
    /\ link' = [link EXCEPT ![n] = "lost"]
    /\ downs' = [downs EXCEPT ![n] = @ + 1]
    /\ UNCHANGED <<statusVars, client, made, holder, timerVars, ups, births, crashed, tlsFailed,
                   connects, disconnects, failures>>

\* Mutated form: the handler does not set the state.
StateLeft == state
StateUp == "connected"

\* OnConnect, up to its unlock.
HandleUp(n) ==
    /\ ~crashed /\ Unlocked
    /\ ups[n] > 0
    /\ ups' = [ups EXCEPT ![n] = @ - 1]
    /\ state' = StateUp
    /\ err' = FALSE
    /\ births' = IF Sparkplug THEN births + 1 ELSE births
    /\ UNCHANGED <<linkVars, holder, timerVars, downs, crashed, tlsFailed, boundVars>>

\* publishNBirth uses c.client as it is now, which may be nil.
PublishNBirth ==
    /\ ~crashed
    /\ births > 0
    /\ births' = births - 1
    /\ crashed' = (client = 0)
    /\ UNCHANGED <<statusVars, linkVars, holder, timerVars, ups, downs, tlsFailed, boundVars>>

StateDown == "disconnected"

\* ConnectionLost
HandleDown(n) ==
    /\ ~crashed /\ Unlocked
    /\ downs[n] > 0
    /\ downs' = [downs EXCEPT ![n] = @ - 1]
    /\ state' = StateDown
    /\ err' = TRUE
    /\ UNCHANGED <<linkVars, holder, timerVars, ups, births, crashed, tlsFailed, boundVars>>

-----------------------------------------------------------------------------
(* Disconnect, which disconnects the paho client it finds in c.client.     *)

StopRetry ==
    /\ retryTimeout' = 0
    /\ timer' = [k \in Timers |->
          IF k = retryTimeout /\ timer[k] = "armed" THEN "done" ELSE timer[k]]

LinkClosed == [n \in Clients |-> IF n = client THEN "closed" ELSE link[n]]

Disconnect ==
    /\ ~crashed /\ Unlocked
    /\ disconnects < MaxDisconnects
    /\ disconnects' = disconnects + 1
    /\ StopRetry
    /\ link' = LinkClosed
    /\ client' = 0
    /\ state' = "disconnected"
    /\ UNCHANGED <<err, made, holder, handlerVars, crashed, tlsFailed, connects, failures, drops>>

-----------------------------------------------------------------------------
(* The retry timers.                                                       *)

MoveTimer(k, from, to) ==
    /\ ~crashed
    /\ timer[k] = from
    /\ timer' = [timer EXCEPT ![k] = to]
    /\ UNCHANGED <<statusVars, linkVars, holder, retryTimeout, handlerVars, crashed, tlsFailed,
                   boundVars>>

TimerExpires(k) == MoveTimer(k, "armed", "expired")
TimerRetries(k) == Unlocked /\ state = "error" /\ MoveTimer(k, "expired", "retrying")
TimerGivesUp(k) == Unlocked /\ state # "error" /\ MoveTimer(k, "expired", "done")

-----------------------------------------------------------------------------
Connect(k) == ReturnsAtOnce(k) \/ TLSFails(k) \/ Dials(k)
ConnectEnds == ConnectReturns \/ ConnectFails
TimerStep(k) == TimerExpires(k) \/ TimerRetries(k) \/ TimerGivesUp(k) \/ Connect(k)
Handle(n) == HandleUp(n) \/ HandleDown(n)

Next ==
    \/ Connect(Application)
    \/ ConnectEnds
    \/ \E n \in Clients : LinkUp(n) \/ LinkLost(n) \/ Handle(n)
    \/ PublishNBirth
    \/ Disconnect
    \/ \E k \in Timers : TimerStep(k)

Spec == Init /\ [][Next]_vars

\* Connect waits for 30 s at most, timers expire, goroutines run.  Nothing
\* makes the broker answer.
FairSpec ==
    /\ Spec
    /\ WF_vars(ConnectEnds)
    /\ WF_vars(PublishNBirth)
    /\ \A k \in Timers : WF_vars(TimerStep(k))
    /\ \A n \in Clients : WF_vars(HandleUp(n)) /\ WF_vars(HandleDown(n))

-----------------------------------------------------------------------------
TypeOK ==
    /\ state \in {"disconnected", "connecting", "connected", "error"}
    /\ err \in BOOLEAN
    /\ made \in 0 .. MaxClients
    /\ client \in 0 .. made
    /\ link \in [Clients -> {"unused", "dialling", "up", "lost", "closed"}]
    /\ holder \in {Nobody, Application} \cup Timers
    /\ timer \in [Timers -> {"unused", "armed", "expired", "retrying", "done"}]
    /\ retryTimeout \in 0 .. MaxFailures
    /\ ups \in [Clients -> Nat] /\ downs \in [Clients -> Nat] /\ births \in Nat
    /\ crashed \in BOOLEAN /\ tlsFailed \in BOOLEAN
    /\ connects \in 0 .. MaxConnects /\ disconnects \in 0 .. MaxDisconnects
    /\ failures \in 0 .. MaxFailures /\ drops \in 0 .. MaxDrops

NoHandlerWaits == \A n \in Clients : ups[n] = 0 /\ downs[n] = 0

(***************************************************************************)
(* Connect may return with the state "connecting", but never for good: the *)
(* handler that ends it is on its way.                                     *)
(***************************************************************************)
ConnectingEnds == (state = "connecting" /\ Unlocked) => client # 0 /\ ups[client] > 0

(***************************************************************************)
(* As long as no link is lost, an application that sees no handler pending *)
(* sees "connected" if its link is up - even when the 30 s of Connect were *)
(* over just before, or older clients come up late.                        *)
(***************************************************************************)
UpIsNoticed ==
    (drops = 0 /\ Unlocked /\ NoHandlerWaits /\ client # 0 /\ link[client] = "up" /\ ~tlsFailed)
        => state = "connected"

(***************************************************************************)
(* A client in error is going to try again, unless it could not read its   *)
(* certificates.                                                           *)
(***************************************************************************)
ErrorHasRetry == state = "error" => tlsFailed \/ \E k \in Timers : Active(k)

(***************************************************************************)
(* The error is left without the application's help, by a new attempt or   *)
(* because the old one succeeds after all - unless it was the certificates *)
(* that failed, or the program has panicked.                               *)
(***************************************************************************)
ErrorIsLeft == (state = "error" /\ ~tlsFailed) ~> (state # "error" \/ tlsFailed \/ crashed)

(***************************************************************************)
(* The connection does what Link says of any connection: it is down for    *)
(* good, until somebody connects, once no paho client is left that dials,  *)
(* no handler waits and no timer is past its look at the state; and as     *)
(* long as it is not made, something is left that will bring news of it.   *)
(***************************************************************************)
Stirring ==
    \/ \E n \in Clients : link[n] \notin {"unused", "closed"} \/ ups[n] > 0 \/ downs[n] > 0
    \/ \E k \in Timers : timer[k] = "retrying"
RetryComing == \E k \in Timers : Active(k)
LinkStatus ==
    CASE state = "disconnected" -> "down"
      [] state \in {"connecting", "error"} -> "trying"
      [] state = "connected" -> "up"

L == INSTANCE Link WITH
    status <- LinkStatus,
    hope <- Stirring \/ RetryComing,
    late <- Stirring,
    abandoned <- tlsFailed

ImplementsLink == L!Spec
=============================================================================
