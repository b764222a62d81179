----------------------------- MODULE ClientLock -----------------------------
(***************************************************************************)
(* The lock c.mu of a source client.  Connect, Disconnect and the retry    *)
(* timers write under it; Read, Write, Get, Set, Publish and Subscribe     *)
(* only look, under a read lock, whether there is a connection, and use    *)
(* the client they found after they have released it.                      *)
(*                                                                         *)
(* A Modbus operation reads state and client in one section.  An OPC UA or *)
(* Redis operation calls IsConnected inside its section, which takes a     *)
(* second read lock on top of the first.                                   *)
(*                                                                         *)
(* sync.RWMutex: a writer announces itself, then waits for the readers it  *)
(* found; a reader that comes after the announcement is parked, and all    *)
(* who are parked are let in when the writer unlocks.                      *)
(***************************************************************************)
EXTENDS Naturals

CONSTANTS
    Readers,   \* goroutines that use the connection
    Writers,   \* goroutines that connect, disconnect or retry
    Kinds,     \* the kinds of client considered
    NoWriter

ASSUME LockAssumption ==
    /\ NoWriter \notin Writers
    /\ Kinds \subseteq {"modbus", "opcua", "redis"}

VARIABLES
    kind,      \* the package the client is from
    state,     \* c.state
    client,    \* c.client: "nil" or "object"
    announced, \* the writer that has announced itself, if any
    holds,     \* holds[r]: how many read locks r has
    rpc,       \* rpc[r]: where reader r is
    wpc        \* wpc[w]: where writer w is

connection == <<kind, state, client>>
lockVars == <<connection, announced, holds, rpc, wpc>>

Parked == {"parked", "parkedInside"}
ReaderPcs == {"idle", "section", "nested", "refused", "passed", "using"} \cup Parked
WriterPcs == {"idle", "called", "announced", "inside", "dialling"}

Nested == kind # "modbus"

LockInit ==
    /\ kind \in Kinds
    /\ state = "disconnected" /\ client = "nil"
    /\ announced = NoWriter
    /\ holds = [r \in Readers |-> 0]
    /\ rpc = [r \in Readers |-> "idle"]
    /\ wpc = [w \in Writers |-> "idle"]

-----------------------------------------------------------------------------
(* Readers.                                                                *)

ReaderGoes(r, from, to) ==
    /\ rpc[r] = from
    /\ rpc' = [rpc EXCEPT ![r] = to]
    /\ UNCHANGED <<connection, announced, wpc>>

\* c.mu.RLock()
RLock(r, from, to, parked) ==
    \/ /\ announced = NoWriter
       /\ ReaderGoes(r, from, to)
       /\ holds' = [holds EXCEPT ![r] = @ + 1]
    \/ /\ announced # NoWriter
       /\ ReaderGoes(r, from, parked)
       /\ UNCHANGED holds

\* Mutated form: the lock is not released.
NotReleased(n) == n
Released(n) == n - 1

RUnlock(r, from, to) ==
    /\ ReaderGoes(r, from, to)
    /\ holds' = [holds EXCEPT ![r] = Released(@)]

Connected == state = "connected" /\ client # "nil"

CallRead(r) == RLock(r, "idle", "section", "parked")

\* Modbus: state and client are copied, the lock is released, the copies tell;
\* and so does the library, which knows if the link is lost.
TakeClient(r) ==
    /\ ~Nested
    /\ \/ Connected /\ RUnlock(r, "section", "using")
       \/ RUnlock(r, "section", "idle")

\* OPC UA and Redis: IsConnected with its own lock ...
CallIsConnected(r) == Nested /\ RLock(r, "section", "nested", "parkedInside")
\* ... its answer ...
IsConnected(r) == RUnlock(r, "nested", IF Connected THEN "passed" ELSE "refused")
\* ... an error, or the client.
NotConnected(r) == RUnlock(r, "refused", "idle")
CopyClient(r) == RUnlock(r, "passed", "using")

\* The library has done the request.
Return(r) == ReaderGoes(r, "using", "idle") /\ UNCHANGED holds

-----------------------------------------------------------------------------
(* Writers.                                                                *)

WriterGoes(w, from, to) ==
    /\ wpc[w] = from
    /\ wpc' = [wpc EXCEPT ![w] = to]

CallLock(w) ==
    /\ WriterGoes(w, "idle", "called")
    /\ UNCHANGED <<connection, announced, holds, rpc>>

Announce(w) ==
    /\ announced = NoWriter
    /\ WriterGoes(w, "called", "announced")
    /\ announced' = w
    /\ UNCHANGED <<connection, holds, rpc>>

\* Mutated form: the writer has taken a read lock by mistake.
WithReaders == TRUE
MayWrite == \A r \in Readers : holds[r] = 0

Acquire(w) ==
    /\ MayWrite
    /\ WriterGoes(w, "announced", "inside")
    /\ UNCHANGED <<connection, announced, holds, rpc>>

\* Mutated form: an early return without unlocking.
KeepsLock == UNCHANGED <<announced, holds, rpc>>
Unlock ==
    /\ announced' = NoWriter
    /\ holds' = [r \in Readers |-> IF rpc[r] \in Parked THEN holds[r] + 1 ELSE holds[r]]
    /\ rpc' = [r \in Readers |->
          IF rpc[r] = "parked" THEN "section"
          ELSE IF rpc[r] = "parkedInside" THEN "nested" ELSE rpc[r]]

\* Connect, up to the library's call; a Modbus link may be lost by then.
Dial(w) ==
    /\ Connected => ~Nested
    /\ WriterGoes(w, "inside", "dialling")
    /\ state' = "connecting"
    /\ UNCHANGED <<kind, client, announced, holds, rpc>>

DialEnds(w) ==
    /\ WriterGoes(w, "dialling", "idle")
    /\ \/ state' = "connected" /\ client' = "object"
       \/ state' = "error" /\ client' \in {client, "object"}
    /\ UNCHANGED kind
    /\ Unlock

\* Disconnect
Drop(w) ==
    /\ WriterGoes(w, "inside", "idle")
    /\ state' = "disconnected" /\ client' = "nil"
    /\ UNCHANGED kind
    /\ Unlock

\* Already connected, a failing Close, a timer that has nothing to do
LeaveAsIs(w) ==
    /\ WriterGoes(w, "inside", "idle")
    /\ UNCHANGED connection
    /\ Unlock

-----------------------------------------------------------------------------
ReaderStep(r) ==
    TakeClient(r) \/ CallIsConnected(r) \/ IsConnected(r) \/ NotConnected(r) \/ CopyClient(r)
        \/ Return(r)

WriterStep(w) == Acquire(w) \/ Dial(w) \/ DialEnds(w) \/ Drop(w) \/ LeaveAsIs(w)

LockNext ==
    \/ \E r \in Readers : CallRead(r) \/ ReaderStep(r)
    \/ \E w \in Writers : CallLock(w) \/ Announce(w) \/ WriterStep(w)

LockSpec == LockInit /\ [][LockNext]_lockVars

\* Goroutines run, libraries answer or time out, and no writer is passed over
\* for ever (a Go mutex hands itself over to a waiter that starves).  Nothing
\* makes anybody call.
FairLockSpec ==
    /\ LockSpec
    /\ \A r \in Readers : WF_lockVars(ReaderStep(r))
    /\ \A w \in Writers : WF_lockVars(WriterStep(w)) /\ SF_lockVars(Announce(w))

-----------------------------------------------------------------------------
LockTypeOK ==
    /\ kind \in Kinds
    /\ state \in {"disconnected", "connecting", "connected", "error"}
    /\ client \in {"nil", "object"}
    /\ announced \in Writers \cup {NoWriter}
    /\ holds \in [Readers -> 0 .. 2]
    /\ rpc \in [Readers -> ReaderPcs]
    /\ wpc \in [Writers -> WriterPcs]

(***************************************************************************)
(* Whoever has a read lock finds Connect done or not begun: "connecting"   *)
(* is never seen.                                                          *)
(***************************************************************************)
ReadersSeeWholeSteps == \A r \in Readers : holds[r] > 0 => state # "connecting"

(***************************************************************************)
(* An operation goes to the library only with a client that was connected  *)
(* when it let go of the lock: the answer of IsConnected is not stale by   *)
(* the time the client is copied, and nil is never called.                 *)
(***************************************************************************)
UsesConnectedClient ==
    [][\A r \in Readers : rpc[r] # "using" /\ rpc'[r] = "using" => Connected]_lockVars

(***************************************************************************)
(* Modbus: not everybody waits for everybody.  While an operation or a     *)
(* Connect is under way, somebody can go on: one that holds the lock, one  *)
(* that is with the library, a writer that finds the lock free.            *)
(***************************************************************************)
UnderWay ==
    \/ \E r \in Readers : rpc[r] # "idle"
    \/ \E w \in Writers : wpc[w] # "idle"

SomebodyCanGoOn ==
    \/ \E r \in Readers : rpc[r] \in {"section", "using"}
    \/ \E w \in Writers :
          \/ wpc[w] \in {"inside", "dialling"}
          \/ wpc[w] = "announced" /\ MayWrite
          \/ wpc[w] = "called" /\ announced = NoWriter

PlainClientsGoOn == ~Nested /\ UnderWay => SomebodyCanGoOn

(***************************************************************************)
(* Modbus: an operation that was called returns, whoever connects and      *)
(* disconnects meanwhile.                                                  *)
(***************************************************************************)
Returns(r) == rpc[r] # "idle" ~> rpc[r] = "idle"

PlainOperationsReturn == ~Nested => \A r \in Readers : Returns(r)

(***************************************************************************)
(* Modbus: Connect, Disconnect and the retries get the lock, however many  *)
(* operations there are, and return.                                       *)
(***************************************************************************)
ConnectsReturn == ~Nested => \A w \in Writers : wpc[w] # "idle" ~> wpc[w] = "idle"

(***************************************************************************)
(* What the code says of itself and a run refutes.                         *)
(***************************************************************************)
\* "Read reads a value from an OPC UA node." (opcua/client.go:219): it would
\* return, with the value or with an error.
OperationsReturn == \A r \in Readers : Returns(r)
=============================================================================
