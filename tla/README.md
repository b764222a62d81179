# PLCGo: specifications, model checking and proofs

This directory specifies the Go program PLCGo in TLA+: the scan loops and the
variables of its runtime, the connections of its protocol clients, MQTT
subscriptions, the Redis key listener, the GraphQL server, and the main program
that starts and stops them. TLC
checks the specifications on small instances, TLAPS proves the safety
properties that matter most for every value of the constants. Source references
are to the repository (`pkg/plc/runtime.go` is `src/pkg/plc/runtime.go`).

    tlc -config MCTaskScheduler.cfg MCTaskScheduler.tla    # one run
    tlapm TaskSchedulerProofs.tla                          # one proof module

`PROJECT.json` lists the components, the runs, what each run is expected to
find, the lines each definition stands for, the hazards and the theorems.

## 1. The system

| component | state | operations | interacts with |
|---|---|---|---|
| Task scheduler, `plc.PLC` (`runtime.go`) | per task: `Running`, `stopCh`, `interval`; `p.stopCh` | `RegisterTask`, `Start`, `Stop`, goroutines `runTask` and `handleUpdates` | runs task programs, which call `SetValue` |
| Variables (`types.go`, `runtime.go`) | value, quality, error; `updateCh` (100) | `SetValue`, `SetError`, `ClearError`, `handleUpdates` | task programs, GraphQL mutations and the application write; the callback `onVariableUpdate` observes |
| Modbus, OPC UA and Redis clients | `state`, `error`, `client`, `retryTimeout`, `retryCount`, `stopCh` (Redis) | `Connect`, `Disconnect`, `scheduleRetry` and its timers, operations on the connection | the library of the protocol; callbacks to the application |
| Modbus registers | the device's registers | `Read`, `Write` | variable sources choose type, format and address |
| MQTT client | the same, and what the paho library does | `Connect`, `Disconnect`, handlers `OnConnect` and `ConnectionLost`, timers | the library calls the handlers in goroutines of its own |
| MQTT subscriptions | `handlers`; in the library the callback of a topic, at the broker the session | `Subscribe`, `Unsubscribe`, the callback | the broker may send again what was not acknowledged |
| MQTT publishing, Sparkplug | `seq` | `Publish`, `PublishDData`, ... | `OnConnect` publishes NBIRTH and resets `seq` |
| Redis key listener | `pubsub`, `keyHandlers`, `stopCh` | `WatchKey`, `handleKeyspaceNotifications` | `Disconnect` closes and replaces what the listener reads without the lock |
| REST client | none | one HTTP request per call | - |
| GraphQL server | subscribers, `http.Server` | `Start`, `Stop`, `publishUpdates`, queries, `setValue`, `PubSub` | reads and writes the PLC |
| Facade, command line, example | what was constructed | `New`, `Start`, `StartGraphQL`, `Stop` | all of the above |
| `Result`, configuration | - | - | - |

What makes each of them correct, and what is hard about it:

* *Scheduler.* A task that is marked running has exactly one loop, which can be
  stopped; a stopped task has none; a started task is executed. The calls of
  `Start` and `Stop` lock per task only, loops read shared fields without the
  lock each time round, and a loop may be busy in a program meanwhile.
* *Variables.* The observer sees the values in order and ends with the current
  one; writers never wait. The store and the notification are two steps, and
  the channel is bounded and drops.
* *Connections.* State, error and link agree; a failed connection is retried
  until it succeeds; a disconnected one stays disconnected; no link is
  forgotten. Timers expire at any moment, the retry looks at the state and acts
  on it in two critical sections, `Close` can fail, links break.
* *Lock of a client.* Operations and connections all go on; an operation uses
  only a connection that was there. Go's `RWMutex` prefers writers.
* *Retry delays.* In range and not shrinking, however long the outage.
* *Registers.* What was written is read back: widths, signs, word order.
* *MQTT.* The state follows the link although handlers come late. What a
  reported subscription promises holds while the session lasts, and `Subscribe`,
  `Unsubscribe`, lost links and messages that are sent again come in any order.
* *Key listener.* An open subscription has a listener that `Disconnect` can end,
  and its handlers come to know the value of the key. The listener looks at
  fields that `Disconnect` changes one after the other.
* *GraphQL.* The variables are read one by one while others write them, so a
  snapshot is no state they ever had; still an answer must not be older than its
  question, and a subscriber must not see a variable go back, or be left behind
  when its channel was full.
* *Program.* `Stop` returns, the server is gone before the PLC, and no source
  comes up again afterwards, whatever requests and retries are under way.

## 2. Modules

| module | models | specification | MC module | proofs |
|---|---|---|---|---|
| `TaskScheduler` | Start, Stop, scan loops | `Spec`, `FairSpec` | `MCTaskScheduler` | `TaskSchedulerProofs` |
| `VariableUpdates` | SetValue to callback | `Spec`, `FairSpec` | `MCVariableUpdates` | `VariableUpdatesProofs` |
| `SourceClient` | one Modbus, OPC UA or Redis connection | `Spec`, `FairSpec` | `MCSourceClient` | `SourceClientProofs` |
| `ClientLock` | `c.mu` between operations and connections | `LockSpec`, `FairLockSpec` | `MCClientLock` | `ModbusRegistersProofs` |
| `RetryBackoff` | `scheduleRetry`'s delays | `RetrySpec` | `MCRetryBackoff` | `SourceClientProofs` |
| `ModbusRegisters` | Modbus `Read` and `Write` | `Spec` | `MCModbusRegisters` | `ModbusRegistersProofs` |
| `MqttClient` | the MQTT connection | `Spec`, `FairSpec` | - | `MqttClientProofs` |
| `MqttMessages` | MQTT subscriptions and messages | `Spec` | `MCMqttMessages` | `MqttMessagesProofs` |
| `KeyWatch` | the Redis key listener | `Spec`, `FairSpec` | - | `KeyWatchProofs` |
| `GraphQLUpdates` | what the GraphQL server shows | `Spec`, `FairSpec` | `MCGraphQLUpdates` | `PLCGoProofs` |
| `PLCGo` | the program from Start to Stop | `SystemSpec`, `FairSystemSpec` | `MCPLCGo` | `PLCGoProofs` |
| `Link` | abstract: a connection | `Spec` | - | - |
| `LossyDelivery` | abstract: a channel that drops | `Spec` | - | - |

How they fit together:

    Link           <- implemented by  SourceClient, MqttClient    (ImplementsLink)
    LossyDelivery  <- implemented by  VariableUpdates, GraphQLUpdates (ShownInOrder),
                                      MqttMessages                (LinkHeardInOrder)
    PLCGo          =  GraphQLUpdates (extended) + one Link per source
                      + the scan loops as one that runs or is stopping

`RetryBackoff` and `ClientLock` are small, and their definitions have names of
their own (`RetrySpec`, `LockInit`, ...), so that the proofs about a larger part
of a client can be kept in one module with theirs.

Every module has one action per operation or per stretch of code that nothing
can interrupt. Definitions marked "Mutated form" are what a plausible slip in
the code would make of the definition below them; no specification uses them.
Checking with the mutated form in place of the right one makes TLC find the
violation that `PROJECT.json` names under "mutants", which shows that the
property depends on that piece of code.

### TaskScheduler

The s-th call of `Start` is the number s, and so are its context, its handler,
the stop channel it makes for a task and the ticker its loop makes. `StartCall`
and `StopCall` begin a call; `StartTask`/`SkipTask` and `StopTask`/`StopIdleTask`
are `startTask` and `stopTask`, each one critical section of `p.mu`, in any
order of tasks (map iteration). A loop goes `spawned` (go statement), `ticking`
(after `task.interval = NewTicker`), `enter` (after `defer task.interval.Stop()`,
whose receiver is read then: `own`), `select` (channels read: `selStop`,
`selTick`), `scan` and back to `enter`. The unsynchronised reads of `task.stopCh`
and `task.interval` are steps of their own. A ticker holds one tick at most and
`Stop` discards it (Go 1.23, as `go.mod` says). Reading the two fields in
`EnterSelect` is one step: nothing between the two reads changes both in a way
that matters, since `stopCh` is written before the goroutine that writes
`interval` exists. The metrics of `executeTask` are left out.

### VariableUpdates

The n-th value of writer w is the stamp `<<w, n>>`. `Store` is the critical
section of the variable; `Accept` and `Drop` are the select of `SetValue`, after
it; `Receive`, `Callback` and `HandlerExit` are `handleUpdates`. `notified`,
`lost`, `seen` and `delivered` are history variables that no guard reads.
`WritersOf` says which goroutines write a variable.
Cancelling a handler's context is not modelled; it has the effect of `Stop` on
one handler.

### SourceClient

One connection, of any of three kinds, which differ in what "already connected"
means, in what a failure does to `c.client` and in the stop channel of Redis.
`overlapped` is a history variable. `Connect` and `Disconnect` are one step
each, because nobody sees their intermediate state: they hold `c.mu` throughout,
which `ClientLock` checks (`ReadersSeeWholeSteps`). The function of a retry
timer takes the lock twice: `TimerRetries` or `TimerGivesUp`, then
`RetryConnect`. The k-th failure arms timer k. That a Modbus link breaks is the
library's: `LinkDrops`; the libraries of OPC UA and Redis reconnect by
themselves. Redis assigns `c.client` before `Ping` and does not close it when
`Ping` fails: without a connection it is "closed", but when the server answers
with an error (no authentication, still loading) the connection stays open,
which is "refused" (`ClientsOnFailure`). `orphans` counts the links that came up
and were overwritten, `leftovers` the refused ones.

### ClientLock

`sync.RWMutex` as its documentation has it: a writer announces itself and waits
for the readers it found; later readers are parked and let in by its unlock.
The kind of client is chosen at first. `Nested` tells the operations of OPC UA
and Redis, which call `IsConnected`
inside their read lock, from those of Modbus, which do not.

### RetryBackoff

`DelayFor` in the order of the code: product, conversion, cut-off. The product
is exact in floating point (a power of two), the conversion of a number that
does not fit depends on the machine, which is chosen at first: `saturates`.
`quiet` is a history variable.

### ModbusRegisters

Registers have `Base` values (2^16 in the code); a value is its Go type and its
number, or bit pattern for the float types. `WriteFails` is a request whose
answer is lost: the device may have done it. `written` is a history variable:
what was last written through a source, until its registers are written
through another. Conversions between floats and integers are left out of `Next`
(`Rounds`).

### MqttClient

`Dials` makes a paho client and begins the wait with `c.mu` held (`holder`);
`ConnectReturns` and `ConnectFails` end it. `LinkUp` and `LinkLost` are the
library and the network; `HandleUp` and `HandleDown` are the two handlers, which
wait for `c.mu` in goroutines of their own; `PublishNBirth` is what `OnConnect`
does after its unlock. As a `Link`, the client has something `late` under way
whenever a paho client is alive: its handlers do not look at the state.

### MqttMessages

Each call of `Subscribe` has its handler. `Subscribe` and `Unsubscribe` are the
critical sections of `c.mu`, with the paho client that they find (`via`,
`uvia`); `SubscribeReturns`, `SubscribeFails` and `UnsubscribeEnds` are what
follows the unlock. `routes` are the callbacks that each paho client has,
`Dispatch` the callback, which looks the handlers up, `CallHandler` each call of
one. The library passes on one message after the other, link by link, but only
within one paho client: one that was disconnected goes on with what it has read
while the next one has a loop of its own. `links` counts the links, `owner` says
which paho client had each.

The broker is external: it keeps the subscriptions and messages of a session
unless `CleanSession` is set, and sends again what was not acknowledged over the
link that ended (`LinkEnds`): all that was not passed on, and of what was passed
on any part (`Unacknowledged`), since acknowledgements can be lost with the link.
So a handler may be called with older messages again, over a later link.
`heard[h][l]` is the last message of link l with which h was called. Messages
are published without the retain flag.
Topics have no wildcards: the callback looks up handlers by the topic of the
message (`mqtt/client.go:305`), so a handler of a filter with wildcards is never
found. `session`, `since`, `removed` and `contested` are history variables.

### KeyWatch

`Disconnect` is three steps (`CloseStopCh`, `ClosePubSub`, and `CloseClient` or
`CloseFails`) because the listener reads `c.pubsub` and `c.stopCh` without the
lock; `stage` says how far it is, and whether the program has panicked. A
listener goes `spawned` (go statement), `looping` (after `c.pubsub.Channel()`:
`source`), `select` (`c.stopCh` read: `waitsOn`), `notified`, `asking` (handlers
and client read under the lock) and back. The server and the library are
external: a subscription can break and be renewed, and what changed meanwhile
is missed.

### GraphQLUpdates

`ReadOne` reads one variable, as `PLC.ToJSON` and `buildPLCResponse` do, in any
order. `publishUpdates` is `Tick`, readings, and `Publish` or `PublishFails`
(JSON refuses a value, such as NaN); a request is `Arrive`, readings for a text
that mentions `query` or `plc`, `SetValue` and again readings for a mutation,
and `Answer`. `Subscribe`, `Unsubscribe` and the sending to the channels are
whole steps, since each holds `ps.mu`. `floor` is a history variable.

### PLCGo

The main goroutine connects the sources, starts the PLC, spawns the goroutine of
`StartGraphQL`, and after a signal stops the server, the PLC and the sources.
`GraphQLUpdates` is extended and takes its steps only while there is a server;
a source takes the steps of `Link`, which is what the proofs about `SourceClient`
and `MqttClient` allow. An MQTT source with Sparkplug, such as the one of the
example, has one thing more, which `MqttClient` calls `PublishNBirth`: after the
unlock of its `OnConnect` handler (`births`) it publishes through `c.client`, and
if `Disconnect` has set that to nil the program panics (`crashed`) and takes no
further step. A retry may have set it again, so the panic is one of two outcomes.
The loops write the variables until they end, which is after `Stop` has gone on.
`net/http`'s `Shutdown` is external: it closes the listener and waits for the
requests or for its context.

### Link, LossyDelivery

What a connection and a bounded channel promise. In `Link` the status changes
between two calls only through something begun before (`late`), and a link that
is `trying` has something that will try it again (`hope`) or the caller got an
error (`abandoned`). In `LossyDelivery` items of a sender may be missing, but
none comes back, comes late or was never sent.

## 3. Runs

One passing run per specification (the longest, `watch`, `graphql` and `plcgo`,
take two or three minutes); the cfg has the name of the MC module.

| run | bounds | shows |
|---|---|---|
| `scheduler` | 1 task, 2 Starts, calls overlap | `RunningIsStoppable`, `RunningIsServed`, `OneLoopUntilStopped`, `WaitingLoopsCanBeStopped`, `StoppedLoopsEnd`, `StartedTasksScan` |
| `updates` | 2 variables, one written by one of 2 writers and one by both, 3 writes each, channel of 2 | `ObserverCaughtUp`, `ObserverCurrent`, `ShownInOrder`, `AcceptedIsSeen` |
| `client` | 3 kinds, 3 Connects, 2 Disconnects, 4 failures, 1 lost link, 1 failing Close | `StatusConsistent`, `WorkingLinksAreKept`, `CallbacksTellState`, `ErrorIsLeft`, `ImplementsLink` |
| `backoff` | 10-bit Duration, both conversions, delays 0, 1, 2, 3, 7, 30, 511, 12 failures | `InRangeIfSaturating`, `InRangeUntilOverflow` |
| `lock` | 2 readers, 2 writers, 3 kinds | `ReadersSeeWholeSteps`, `UsesConnectedClient`; for Modbus `PlainClientsGoOn`, `PlainOperationsReturn`, `ConnectsReturn` |
| `registers` | registers of 2 bits, 4 addresses, 9 sources that overlap, 13 values of 8 types | `ReadsBack`, `WriteBackChangesNothing` |
| `mqtt` | Sparkplug, TLS, 4 paho clients, 2 Connects, 1 Disconnect, 2 failures, 1 lost link | `UpIsNoticed`, `ErrorIsLeft`, `ImplementsLink` |
| `messages` | 2 handlers of a topic, 2 links of one paho client or of two, 1 Unsubscribe, 2 messages, clean and kept sessions | `HeardWhileSessionLasts`, `UnsubscribedIsSilent`, `LinkHeardInOrder` |
| `watch` | 2 calls of WatchKey, 2 Connects, 1 Disconnect, 2 changes, 1 fault | `QuietMeansTold`, `SubscriptionIsServed`, `WatchedIsTold` |
| `graphql` | 2 variables with 1 write each, one value JSON refuses, 1 publisher, 1 request, 2 Subscribes with one id, channels of 2 | `MapIsOpenChannels`, `AnswersAreFresh`, `ShownInOrder`, `SubscribersCatchUp` |
| `plcgo` | 2 sources, an enabled MQTT one with Sparkplug and a disabled one, 1 variable, 1 publisher, 1 request | `RequestsEndFirst`, `StoppedIsDown`, `StopReturns` |

The type invariants are in no run: TLAPS proves them for all bounds.

Why the bounds are enough. Tasks do not interact in the scheduler except through
the calls that visit them, so one task shows what can go wrong with one; two
Starts are needed for a loop of each of two generations. Two writers of one
variable and a channel of two show reordering and dropping, and updates that
follow a dropped one. Two chains of retries need two failures, and a Connect and
a Disconnect between them; two more failures let each chain continue. Two
readers and two writers show a parked reader with an announced and a waiting
writer. Twelve doublings of any configured delay overflow ten bits. Two-bit
registers have 256 patterns in four words: every carry between words and both
signs occur. Two handlers of one topic are enough for a failing `Subscribe` next
to a successful one, two messages for their order and for an older one that is
sent again after the newer, two links for a session that goes on after the first
and, if each has a paho client of its own, for two loops side by side. Two calls of
`WatchKey`, two clients and a Disconnect make a second listener while the first
one still runs. Two variables make a snapshot that never was, two Subscribes
with one id overwrite a channel. In `plcgo` one source is enabled and one is
not, so `Disconnect` meets a link that was never tried; the enabled one has
Sparkplug, so that an NBIRTH can come after its `Disconnect`, while the other
source is still to be disconnected. The theorems of section
4 remove the bounds for safety.

Where a cfg says `CHECK_DEADLOCK FALSE`, the system may stop: nobody need call
anything, the program has stopped or panicked, or a bound is used up, or - OPC
UA and Redis in `ClientLock` - the code really deadlocks, which is a finding.

Fairness. `TaskScheduler`: a call under way goes on, goroutines are scheduled,
tickers tick, programs return (weak fairness); the two cases of a loop's select
are strongly fair, since Go chooses at random among ready cases. No caller is
fair. `VariableUpdates`: a writer inside `SetValue` goes on, handlers receive
and the callback returns. `SourceClient` and `MqttClient`: timers expire and
their functions run, `Connect` ends after 30 s at the latest, handlers run;
neither the application nor the broker is fair, failures are limited by their
bound. `ClientLock`: goroutines run, libraries answer or time out, and a
writer is not passed over for ever (strong fairness of `Announce`), as Go's
mutex hands itself over to a waiter that starves. `GraphQLUpdates`: the ticker
ticks and subscribers read their channels; requests and writers are not fair.
`KeyWatch`: goroutines run, Disconnect returns, the server answers a request (or
it fails, a bounded number of times), but it need not renew a subscription.
`PLCGo`: only Stop goes on. Shutdown ends with its context; each Disconnect
returns, since it waits for `c.mu` only, which a `Connect` of a retry holds for
a bounded time, and no task program of the repository uses a source, so that the
deadlock below cannot have come about. After a panic nothing goes on.

### What the runs refute

One run checks a statement that the code contradicts (`findings` in
`PROJECT.json` has the quotation).

| run | execution |
|---|---|
| `lock_deadlock` | OPC UA, Redis: a writer between the two read locks of an operation stops everybody |

### What the properties leave out on purpose

Some properties carry a condition that the code makes necessary. What is behind
it is behaviour of the models too, so a property without the condition fails:

* `RunningIsServed`: a cancelled context ends the loop and leaves `Running`
  true (`runtime.go:281`).
* `OneLoopUntilStopped`, `StoppedLoopsEnd`: a loop reads `task.stopCh` for every
  select (`runtime.go:282`), so after a Stop and a Start while its program runs
  it never sees its own channel again: two loops of one task for good, though
  the next Stop ends both (`WaitingLoopsCanBeStopped`).
* `StartedTasksScan`: after a Stop and a Start the deferred
  `task.interval.Stop()` of an old loop can stop the ticker of the new one
  (`runtime.go:272`), and `p.stopCh` stays closed, so that the new update
  handler returns (`runtime.go:191`). A program can begin after Stop has
  returned, since Stop does not wait (`runtime.go:284`).
* `ObserverCurrent`: two writers of one variable can store in one order and
  notify in the other (`runtime.go:342`).
* `ObserverCaughtUp` and `ShownInOrder` (of `VariableUpdates`) suppose one update
  handler, that of `GraphQLUpdates` one publisher: a second call of `Start` adds
  another that overtakes the first (`runtime.go:172`, `graphql/schema.go:91`).
* `CallbacksTellState`: callbacks run in goroutines of their own and can
  overtake each other (`opcua/client.go:133`).
* `WorkingLinksAreKept`: a Redis client whose `Ping` was answered with an error is
  overwritten by the next retry with its connection open, and nobody closes it
  (`redis/client.go:87`): one for each failed attempt, for as long as the server
  refuses.
* `ImplementsLink`: a retry that has seen the state `error` connects after a
  Disconnect that came in between (`modbus/client.go:167`); a paho client
  abandoned after the 30 s of `Connect` goes on dialling after Disconnect
  (`mqtt/client.go:159`). Both are `late` in `Link`, and `excused` in
  `StoppedIsDown`, since the sources are disconnected like that by `plcgo.go:209`.
  As every live paho client is `late`, `StoppedIsDown` says of an MQTT source only
  that one without a live client stays down; it is about the other three kinds.
* `ErrorIsLeft` of `SourceClient`, and `abandoned` in `Link`: a Disconnect whose
  Close fails has already stopped the retry (`opcua/client.go:145`). With Redis
  it has closed `stopCh` too, and the next Disconnect panics
  (`redis/client.go:124`). A Modbus link that breaks is noticed by nobody before
  the next Connect.
* `InRangeUntilOverflow`: on amd64 the conversion of a product that does not fit
  is negative, which is not cut: in a long outage retries come without a pause
  (`modbus/client.go:158`).
* `PlainClientsGoOn`: with a second read lock inside the first one, as in OPC UA
  and Redis, everybody can wait for everybody (`lock_deadlock`).
* `ReadsBack`: an integer that does not fit its format is cut without an error
  (`modbus/client.go:452`); the format STRING is handled as UINT16.
* `UpIsNoticed`: the handler of a lost link can run after that of the restored
  one and leave `disconnected` on a live link (`mqtt/client.go:138`).
* `ErrorIsLeft` of `MqttClient`: a certificate that cannot be read schedules no
  retry (`mqtt/client.go:112`); a Disconnect between the unlock of `OnConnect`
  and its NBIRTH is a nil pointer (`mqtt/client.go:128`).
* `HeardWhileSessionLasts`: subscriptions are made once, so a new client or a
  clean session has none (`mqtt/client.go:303`); a `Subscribe` that runs at the
  same time as an `Unsubscribe` of its topic can reach the broker before it
  (`contested`, `mqtt/client.go:297`).
* `LinkHeardInOrder`: when acknowledgements are lost with a link, the broker sends
  older messages again after newer ones were heard, over the next link; and the
  loop of a paho client that was disconnected may call handlers beside that of the
  next one (`mqtt/client.go:309`). So the order holds for what comes over one
  link, not for a handler altogether.
* `QuietMeansTold`, `WatchedIsTold`, `SubscriptionIsServed`: the listener has the
  context of the first `WatchKey`, and when that is cancelled `c.pubsub` stays
  set, so that no later call starts another (`redis/client.go:260`); a listener
  whose subscription is closed and whose stop channel was replaced receives nil
  without end (`redis/client.go:279`); one that begins after a Disconnect reads
  a nil `c.pubsub` (`redis/client.go:270`); a request that fails is not repeated.
* `SubscribersCatchUp`: one value that JSON cannot express stops the publication
  of all of them (`graphql/schema.go:110`).
* `RequestsEndFirst`: `Server.Stop` reads `s.server` without synchronisation and
  may find nil (`missed`, `graphql/schema.go:98`); Shutdown gives up with its
  context (`expired`).
* `StopReturns`: the NBIRTH of a Sparkplug source can come after Stop has
  disconnected it (`mqtt/client.go:128`, `:229`, `:373`), and the panic ends the
  program inside Stop, before it has disconnected the sources that are left.

## 4. Proofs

The proofs hold for all values of the constants allowed by the assumptions
named in the modules, which say no more than that bounds are natural numbers,
sets of enabled things are subsets, and a value that stands for "none" is not
one of the others (`SourcesAssumption`: a source's registers are addresses;
`BaseAssumption`: `Base` is even). Each proof module defines the invariant
`IInv`, shows that it holds initially and that every action keeps it, and
derives the properties.

* `TaskSchedulerProofs`: `RunningIsStoppable`, `RunningIsServed`,
  `OneLoopUntilStopped`. None of them is inductive. What is missing is that
  channels and loops carry the number of a call that has begun, that a closed
  channel was made by an earlier call, that a loop waits on its own channel
  unless a later call has replaced it, and, before the Stop, that the call in
  `task.stopCh` is the only one that ever started a loop. Also
  `WaitingLoopsCanBeStopped`, which needs that every channel of a task that does
  not run is closed, and from it `StopReachesLoops`: the step that takes
  `Running` from a task lets all its waiting loops leave. This is what
  `StoppedLoopsEnd` adds fairness to.
* `VariableUpdatesProofs`: with one handler `ObserverCaughtUp`,
  `ObserverCurrent` and `ShownInOrder`, that is, `Spec` implements
  `LossyDelivery!Spec` under the mapping of the module. The invariant says where
  the last accepted update of a variable is (last in the queue, in the handler's
  hands, or seen), that the stamps of a writer grow along delivered, held,
  queued and pending, and that a variable's only writer has told its current
  value to the channel, or is about to.
* `SourceClientProofs`: `StatusConsistent`, `WorkingLinksAreKept`,
  `CallbacksTellState`, `ImplementsLink` (each action is a step of `Link` or a
  stutter), and beyond what the runs check `ErrorHasRetry`, `RetriesBounded` and
  `DisconnectSticks`. The first two and the retries are inductive only together,
  with the types and the facts that the Redis stop channel is closed after a
  failing Close only, and that the refused links, with the present one, are no
  more than the failures. A step that arms a timer either was called by the
  application or finishes the timer that made it, so the number of active timers
  stays below the number of calls. In the same module `RetryBackoff`, the delays
  of the timers that may expire at any time in `SourceClient`:
  `InRangeIfSaturating` and `InRangeUntilOverflow`, also `DelaysGrow` and
  `OutagesStartAfresh`. The invariant: the last delay is that of half the
  present power, which is 1 after a success.
* `ModbusRegistersProofs`: `ReadsBack` and `WriteBackChangesNothing`, from
  lemmas on the splitting and joining of words (quotients and remainders). In
  the same module `ClientLock`, the lock that `Read` and `Write` take:
  `ReadersSeeWholeSteps`, `UsesConnectedClient` and `PlainClientsGoOn`. The
  invariant counts the locks a reader has at each place, excludes readers while
  a writer is inside, keeps the answer of `IsConnected` true while the outer
  lock is held, and parks a reader behind an announced writer only - without
  nesting, while it holds no lock, which rules out a circle of waiting.
* `MqttClientProofs`: `UpIsNoticed` and `ImplementsLink`, also `ConnectingEnds`,
  `ErrorHasRetry` and, from `Link` alone, that a disconnected client with
  nothing late stays down (`DisconnectStays`). The invariant relates the paho
  client of a waiting `Connect` to its link, and a link that is up to a handler
  that waits or has run.
* `MqttMessagesProofs`: `UnsubscribedIsSilent`, `HeardWhileSessionLasts` and
  `LinkHeardInOrder` (`Spec` implements `LossyDelivery!Spec`, with a sender for
  each handler and link), for any topics, handlers, links and messages. Three
  invariants stand on the types. `OrderInv`: what waits over a link is newer than
  what its handlers have heard, or are being called with, over the same link, and
  was sent; the calls that are under way over one link are for one message; over
  a link that is still to come nothing waits and nothing was heard, so what is
  sent again starts afresh. `SilenceInv`: a handler that was
  removed is called with nothing that was sent later, since what is called was
  looked up while the handler was registered. `DeliveryInv`: as long as a
  session lasts and nobody contested the subscription, the last message sent
  since then is heard, being called, waiting, or kept for the next link.
* `KeyWatchProofs`: `SubscriptionIsServed` and `QuietMeansTold`. The invariant
  follows `Disconnect` through its three steps (`DisconnectInOrder`: what is
  closed and cleared at each `stage`), says that a subscription that is set has
  a client, that subscriptions and listeners were made by calls of `WatchKey`
  and a listener that has begun reads one of them, that no notification and no
  value is newer than the key, and that the newest change is on its way to each
  handler that watches: told, being asked for, in the listener's hands or last
  in its queue (`LatestIsOnItsWay`). A renewed subscription or a failed request
  is what `missed` excuses.
* `PLCGoProofs`: of the server `MapIsOpenChannels` (with: the channel in the map
  was made for its id), `AnswersAreFresh` (`FreshInv`: what was read, and what
  an answer must show, is no newer than the variable, and what is not left to be
  read is new enough) and, with one publisher, `ShownInOrder` (`OrderInv`: along
  shown, queued, last read and current, the values of a variable grow). Of the
  composition: every system step is a step of `GraphQLUpdates` or leaves it
  alone (`ServerImplemented`), so `AnswersAreFresh` holds in it
  (`FreshInSystem`); `RequestsEndFirst` (`ServerHasEnded`: after Stop has left
  the server, Shutdown has closed it with no request under way, or gave up, or
  missed it); `StoppedIsDown` (`VisitedAreDown`: a source that Stop has visited
  is down with nothing under way, which no step of `Link` ends without a call).

All invariants and action properties that the runs check, the five refinements
(`ImplementsLink` twice, `ShownInOrder` twice and `LinkHeardInOrder`) and the type
invariants are theorems. Only model-checked are the liveness properties
(`StoppedLoopsEnd`, `StartedTasksScan`, `AcceptedIsSeen`, `ErrorIsLeft`,
`PlainOperationsReturn`, `ConnectsReturn`, `SubscribersCatchUp`, `WatchedIsTold`,
`StopReturns`): the prover has no rules for ENABLED and thus for fairness, nor
for induction with a predicate as a parameter. For most of them the safety they
rest on is proved: `StopReachesLoops` for `StoppedLoopsEnd`,
`OneLoopUntilStopped` (the ticker of the only loop runs) for `StartedTasksScan`,
`ErrorHasRetry` for `ErrorIsLeft`, `PlainClientsGoOn` for the two of the lock,
`LatestIsOnItsWay` for `WatchedIsTold`.

## 5. What is not modelled

* The metrics and counters of tasks, timestamps, names and log messages: no
  decision of the code reads them.
* Deadband, publish rate, `Min`, `Max` and `Writable`: configured and never used.
* REST, the source registry, `Result` and the configuration types: no state that
  operations share, or a map behind one lock.
* Sparkplug payloads, and its sequence numbers, which nothing in the repository
  reads; MQTT topics with wildcards, and retained messages.
* The requests of OPC UA and Redis themselves (I/O of their libraries); the
  notification goroutine of OPC UA's `Subscribe`, which only its context ends.
* Several keys of the Redis listener, which share nothing but the subscription.
* GraphQL introspection, health and playground: constants. Flags, configuration
  file, and the forwarding methods of the facade.
* A second `Stop` of the PLC, which panics (`runtime.go:191`).
* Conversions between floats and integers in Modbus writes.
* Panics of task programs and of `NewTicker` for a negative scan rate.

## 6. Plan

Done, in this order: `TaskScheduler`, `VariableUpdates`, `SourceClient`,
`RetryBackoff`, `ModbusRegisters`, `MqttClient`, `ClientLock`; `Link` and
`LossyDelivery` with their refinements; `GraphQLUpdates`, `PLCGo`, `KeyWatch`,
`MqttMessages`; the proofs of every safety property that the runs check.

What is left:

1. `ClientLock` with `SourceClient`: one step of the latter for each critical
   section of the former, proved as a refinement.
2. `TaskScheduler` with `VariableUpdates`: programs that write, in place of the
   single loop of `PLCGo`.
3. Proofs: the safety that `AcceptedIsSeen` and `SubscribersCatchUp` rest on
   (what was accepted is in the queue until a handler takes it; a snapshot that
   was published last is queued or was dropped by a full channel).
4. `SparkplugSequence`, once something reads the numbers; the JSON form of
   `Duration`.
