-------------------------- MODULE VariableUpdates --------------------------
(***************************************************************************)
(* How a value that is written reaches the observer of a PLC: SetValue of  *)
(* pkg/plc/runtime.go stores the value under the lock of the variable,     *)
(* and, after it has released that lock, offers an update to the bounded   *)
(* channel updateCh without waiting; the goroutine handleUpdates takes the *)
(* updates out and calls onVariableUpdate.                                 *)
(*                                                                         *)
(* Writers are the goroutines that call SetValue: task programs, GraphQL   *)
(* mutations, the application, and onVariableUpdate itself.  The n-th      *)
(* value of writer w is the stamp <<w, n>>.  Timestamps are left out.      *)
(***************************************************************************)
EXTENDS Naturals, Sequences

CONSTANTS
    Vars,      \* the keys of p.variables
    Writers,   \* the goroutines that write
    WritersOf, \* WritersOf[v]: those among them that write v
    Handlers,  \* the calls of Start: each runs one handleUpdates
    ChanCap,   \* capacity of updateCh (100 in the code)
    MaxWrites, \* bound: how many values each writer writes
    Default    \* config.Default, the value a variable has at first

ASSUME ConstantsAssumption ==
    /\ WritersOf \in [Vars -> SUBSET Writers]
    /\ ChanCap \in Nat \ {0}
    /\ MaxWrites \in Nat
    /\ Default \notin Writers \X (1 .. MaxWrites)

VARIABLES
    value,     \* value[v]: v.Value.Value
    quality,   \* quality[v]: v.Value.Quality
    err,       \* err[v]: v.Value.Error is not nil
    written,   \* written[w]: how many values w has stored
    pending,   \* pending[w]: the update w has still to offer, if any
    queue,     \* updateCh
    hstate,    \* hstate[h]: state of the handleUpdates goroutine h
    holding,   \* holding[h]: the update h has taken out, if any
    stopped,   \* p.stopCh is closed
    seen,      \* seen[v]: the value last given to onVariableUpdate
    delivered, \* delivered[w]: number of the stamp of w last given to it
    notified,  \* notified[v]: the value of the last update accepted for v
    lost       \* lost[v]: the update offered last for v was dropped

varVars == <<value, quality, err>>
handlerVars == <<hstate, holding, seen, delivered>>
history == <<notified, lost>>
vars == <<varVars, written, pending, queue, handlerVars, stopped, history>>

Stamps == Writers \X (1 .. MaxWrites)
Values == Stamps \cup {Default}
Updates == [var : Vars, val : Stamps]
AtMostOne(S) == {<<>>} \cup {<<x>> : x \in S}

Init ==
    /\ value = [v \in Vars |-> Default]
    /\ quality = [v \in Vars |-> "good"]
    /\ err = [v \in Vars |-> FALSE]
    /\ written = [w \in Writers |-> 0]
    /\ pending = [w \in Writers |-> <<>>]
    /\ queue = <<>>
    /\ hstate = [h \in Handlers |-> "absent"]
    /\ holding = [h \in Handlers |-> <<>>]
    /\ stopped = FALSE
    /\ seen = [v \in Vars |-> Default]
    /\ delivered = [w \in Writers |-> 0]
    /\ notified = [v \in Vars |-> Default]
    /\ lost = [v \in Vars |-> FALSE]

-----------------------------------------------------------------------------
(* SetValue.  The variable's lock covers the store only.                   *)

NextStamp(w) == <<w, written[w] + 1>>

\* Mutated form: the notification carries the value read before the store,
\* unless the variable still had its default.
StaleUpdate(w, v) ==
    [var |-> v, val |-> IF value[v] \in Stamps THEN value[v] ELSE NextStamp(w)]
UpdateFor(w, v) == [var |-> v, val |-> NextStamp(w)]

Store(w, v) ==
    /\ w \in WritersOf[v]
    /\ pending[w] = <<>>
    /\ written[w] < MaxWrites
    /\ written' = [written EXCEPT ![w] = @ + 1]
    /\ value' = [value EXCEPT ![v] = NextStamp(w)]
    /\ quality' = [quality EXCEPT ![v] = "good"]
    /\ err' = [err EXCEPT ![v] = FALSE]
    /\ pending' = [pending EXCEPT ![w] = <<UpdateFor(w, v)>>]
    /\ UNCHANGED <<queue, handlerVars, stopped, history>>

HasRoom == Len(queue) < ChanCap

\* Mutated form: an update overtakes those that wait.
Pushed(u) == <<u>> \o queue
Enqueued(u) == Append(queue, u)

\* The select of SetValue finds room in updateCh.
Accept(w) ==
    /\ pending[w] # <<>>
    /\ HasRoom
    /\ LET u == Head(pending[w]) IN
          /\ queue' = Enqueued(u)
          /\ notified' = [notified EXCEPT ![u.var] = u.val]
          /\ lost' = [lost EXCEPT ![u.var] = FALSE]
    /\ pending' = [pending EXCEPT ![w] = <<>>]
    /\ UNCHANGED <<varVars, written, handlerVars, stopped>>

\* "Channel full, skip": the newest update is the one that is dropped.
Drop(w) ==
    /\ pending[w] # <<>>
    /\ ~HasRoom
    /\ lost' = [lost EXCEPT ![Head(pending[w]).var] = TRUE]
    /\ pending' = [pending EXCEPT ![w] = <<>>]
    /\ UNCHANGED <<varVars, written, queue, handlerVars, stopped, notified>>

\* Variable.SetError and Variable.ClearError, called by whoever holds v.
SetError(v) ==
    /\ err' = [err EXCEPT ![v] = TRUE]
    /\ quality' = [quality EXCEPT ![v] = "bad"]
    /\ UNCHANGED <<value, written, pending, queue, handlerVars, stopped, history>>

QualityCleared(v) == IF quality[v] = "bad" THEN "good" ELSE quality[v]

ClearError(v) ==
    /\ err' = [err EXCEPT ![v] = FALSE]
    /\ quality' = [quality EXCEPT ![v] = QualityCleared(v)]
    /\ UNCHANGED <<value, written, pending, queue, handlerVars, stopped, history>>

-----------------------------------------------------------------------------
(* handleUpdates, and the calls that begin and end it.                     *)

\* Start; every call runs a handler of its own, stopped or not.
StartHandler(h) ==
    /\ hstate[h] = "absent"
    /\ hstate' = [hstate EXCEPT ![h] = "running"]
    /\ UNCHANGED <<varVars, written, pending, queue, holding, stopped, seen, delivered, history>>

Stop ==
    /\ ~stopped
    /\ stopped' = TRUE
    /\ UNCHANGED <<varVars, written, pending, queue, handlerVars, history>>

Receive(h) ==
    /\ hstate[h] = "running"
    /\ holding[h] = <<>>
    /\ queue # <<>>
    /\ holding' = [holding EXCEPT ![h] = <<Head(queue)>>]
    /\ queue' = Tail(queue)
    /\ UNCHANGED <<varVars, written, pending, hstate, stopped, seen, delivered, history>>

\* Mutated form: the goroutine handles one update only.
HandlesOne == "exited"
GoesRound == "running"

Callback(h) ==
    /\ holding[h] # <<>>
    /\ LET u == Head(holding[h]) IN
          /\ seen' = [seen EXCEPT ![u.var] = u.val]
          /\ delivered' = [delivered EXCEPT ![u.val[1]] = u.val[2]]
    /\ holding' = [holding EXCEPT ![h] = <<>>]
    /\ hstate' = [hstate EXCEPT ![h] = GoesRound]
    /\ UNCHANGED <<varVars, written, pending, queue, stopped, history>>

\* The select may return for p.stopCh even when updates are waiting.
HandlerExit(h) ==
    /\ hstate[h] = "running"
    /\ holding[h] = <<>>
    /\ stopped
    /\ hstate' = [hstate EXCEPT ![h] = "exited"]
    /\ UNCHANGED <<varVars, written, pending, queue, holding, stopped, seen, delivered, history>>

-----------------------------------------------------------------------------
Offer(w) == Accept(w) \/ Drop(w)

Next ==
    \/ \E w \in Writers : Offer(w) \/ \E v \in Vars : Store(w, v)
    \/ \E v \in Vars : SetError(v) \/ ClearError(v)
    \/ \E h \in Handlers :
          StartHandler(h) \/ Receive(h) \/ Callback(h) \/ HandlerExit(h)
    \/ Stop

Spec == Init /\ [][Next]_vars

\* A writer that is inside SetValue goes on.
WriterFairness == \A w \in Writers : WF_vars(Offer(w))
\* A handler takes what is there, and onVariableUpdate returns.
HandlerFairness == \A h \in Handlers : WF_vars(Receive(h)) /\ WF_vars(Callback(h))

FairSpec == Spec /\ WriterFairness /\ HandlerFairness

-----------------------------------------------------------------------------
TypeOK ==
    /\ value \in [Vars -> Values]
    /\ quality \in [Vars -> {"good", "bad"}]
    /\ err \in [Vars -> BOOLEAN]
    /\ written \in [Writers -> 0 .. MaxWrites]
    /\ pending \in [Writers -> AtMostOne(Updates)]
    /\ queue \in Seq(Updates)
    /\ Len(queue) <= ChanCap
    /\ hstate \in [Handlers -> {"absent", "running", "exited"}]
    /\ holding \in [Handlers -> AtMostOne(Updates)]
    /\ stopped \in BOOLEAN
    /\ seen \in [Vars -> Values]
    /\ delivered \in [Writers -> 0 .. MaxWrites]
    /\ notified \in [Vars -> Values]
    /\ lost \in [Vars -> BOOLEAN]

Waiting(v) ==
    \/ \E i \in 1 .. Len(queue) : queue[i].var = v
    \/ \E h \in Handlers : holding[h] # <<>> /\ Head(holding[h]).var = v

(***************************************************************************)
(* With one handler, the observer is never left with an older update than  *)
(* the last one the channel accepted for the variable.                     *)
(***************************************************************************)
ObserverCaughtUp == \A v \in Vars : ~Waiting(v) => seen[v] = notified[v]

(***************************************************************************)
(* A variable that only one goroutine writes: an observer with nothing     *)
(* left to see of it holds its current value, unless the last update was   *)
(* dropped.  (Two writers can store in one order and notify in the other.) *)
(***************************************************************************)
OneWriter(v) == \E w \in Writers : WritersOf[v] = {w}
Offering(v) == \E w \in Writers : pending[w] # <<>> /\ Head(pending[w]).var = v

ObserverCurrent ==
    \A v \in Vars :
        OneWriter(v) /\ ~Offering(v) /\ ~Waiting(v) /\ ~lost[v] => seen[v] = value[v]

(***************************************************************************)
(* With one handler the observer sees what LossyDelivery promises: of each *)
(* writer's values some, in the order in which they were written.          *)
(***************************************************************************)
D == INSTANCE LossyDelivery WITH
    Senders <- Writers,
    sent <- written,
    received <- delivered

ShownInOrder == D!Spec

(***************************************************************************)
(* As long as the PLC is not stopped, a started handler shows everything   *)
(* that the channel has accepted.                                          *)
(***************************************************************************)
AcceptedIsSeen ==
    \A v \in Vars, h \in Handlers :
        (hstate[h] # "absent" /\ Waiting(v)) ~> (stopped \/ ~Waiting(v))
=============================================================================
