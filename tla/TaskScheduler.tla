--------------------------- MODULE TaskScheduler ---------------------------
(***************************************************************************)
(* The life of the scan loops of pkg/plc/runtime.go: Start and Stop of the *)
(* PLC, startTask and stopTask for each configured task, and the goroutine *)
(* runTask that waits in a select for its context, its stop channel or its *)
(* ticker and executes the task program.                                   *)
(*                                                                         *)
(* Identifiers.  The s-th call of Start is the number s.  It owns one      *)
(* context, starts at most one handleUpdates goroutine and, for each task, *)
(* at most one runTask goroutine; the stop channel that startTask makes    *)
(* and the ticker that runTask makes for the task carry the number of that *)
(* call too.  Channel 0 is the one New makes, ticker 0 is the nil pointer. *)
(*                                                                         *)
(* The fields task.stopCh and task.interval are shared by all the loops of *)
(* a task and are read afresh, without the lock, each time a loop enters   *)
(* its select: a loop waits on the channels it read then (selStop and      *)
(* selTick), not on those it was started with.                             *)
(***************************************************************************)
EXTENDS Naturals

CONSTANTS
    Tasks,       \* the keys of p.tasks
    Enabled,     \* the tasks whose configuration says Enabled
    MaxStarts    \* bound: how often Start is called

ASSUME ConstantsAssumption ==
    /\ Enabled \subseteq Tasks
    /\ MaxStarts \in Nat

VARIABLES
    registered,  \* registered[t]: task.Program is set
    begun,       \* the calls of Start made so far
    todo,        \* todo[s]: the tasks call s of Start has still to visit
    cancelled,   \* the calls of Start whose context is cancelled
    handlers,    \* the calls of Start whose handleUpdates goroutine lives
    pstopClosed, \* p.stopCh is closed: Stop was called
    stopTodo,    \* the tasks Stop has still to visit
    running,     \* running[t]: task.Running
    stopCh,      \* stopCh[t]: the channel in task.stopCh
    closed,      \* closed[t]: the stop channels of t that are closed
    interval,    \* interval[t]: the ticker in task.interval
    pc,          \* pc[t][s]: where the loop of t started by call s is
    selStop,     \* selStop[t][s]: the stop channel that loop's select waits on
    selTick,     \* selTick[t][s]: the ticker that loop's select waits on
    own,         \* own[t][s]: the ticker its deferred Stop will stop
    ticker       \* ticker[t][s]: state of the ticker that loop made

callVars == <<registered, begun, todo, cancelled, handlers, pstopClosed, stopTodo>>
taskVars == <<running, stopCh, closed>>
loopVars == <<interval, pc, selStop, selTick, own, ticker>>
vars == <<callVars, taskVars, loopVars>>

StartIds == 1 .. MaxStarts
Ids == 0 .. MaxStarts
LoopPcs == {"none", "spawned", "ticking", "enter", "select", "scan", "done"}
TickerStates == {"none", "active", "ready", "stopped"}

Live(t, s) == pc[t][s] \notin {"none", "done"}

\* New has built every task runtime; nothing is registered or started.
Init ==
    /\ registered = [t \in Tasks |-> FALSE]
    /\ begun = {}
    /\ todo = [s \in StartIds |-> {}]
    /\ cancelled = {}
    /\ handlers = {}
    /\ pstopClosed = FALSE
    /\ stopTodo = {}
    /\ running = [t \in Tasks |-> FALSE]
    /\ stopCh = [t \in Tasks |-> 0]
    /\ closed = [t \in Tasks |-> {}]
    /\ interval = [t \in Tasks |-> 0]
    /\ pc = [t \in Tasks |-> [s \in StartIds |-> "none"]]
    /\ selStop = [t \in Tasks |-> [s \in StartIds |-> 0]]
    /\ selTick = [t \in Tasks |-> [s \in StartIds |-> 0]]
    /\ own = [t \in Tasks |-> [s \in StartIds |-> 0]]
    /\ ticker = [t \in Tasks |-> [s \in StartIds |-> "none"]]

-----------------------------------------------------------------------------
(* The calls of the API.  Start and Stop visit the tasks one by one and    *)
(* take p.mu for each task only.                                           *)

RegisterTask(t) ==
    /\ ~registered[t]
    /\ registered' = [registered EXCEPT ![t] = TRUE]
    /\ UNCHANGED <<begun, todo, cancelled, handlers, pstopClosed, stopTodo, taskVars, loopVars>>

\* Start: the update handler is started first, then the tasks are visited.
StartCall(s) ==
    /\ s \notin begun
    /\ 1 .. (s - 1) \subseteq begun
    /\ begun' = begun \cup {s}
    /\ todo' = [todo EXCEPT ![s] = Tasks]
    /\ handlers' = handlers \cup {s}
    /\ UNCHANGED <<registered, cancelled, pstopClosed, stopTodo, taskVars, loopVars>>

\* Mutated form: startTask forgets its "already running" check.
StartableUnchecked(t) == t \in Enabled /\ registered[t]
Startable(t) == t \in Enabled /\ registered[t] /\ ~running[t]

\* Mutated form: startTask keeps the old stop channel.
SameChannel(t, s) == stopCh[t]
FreshChannel(t, s) == s

\* startTask for an enabled, registered task that is not running.
StartTask(s, t) ==
    /\ t \in todo[s]
    /\ Startable(t)
    /\ todo' = [todo EXCEPT ![s] = @ \ {t}]
    /\ running' = [running EXCEPT ![t] = TRUE]
    /\ stopCh' = [stopCh EXCEPT ![t] = FreshChannel(t, s)]
    /\ pc' = [pc EXCEPT ![t][s] = "spawned"]
    /\ UNCHANGED <<registered, begun, cancelled, handlers, pstopClosed, stopTodo,
                   closed, interval, selStop, selTick, own, ticker>>

\* A task that is disabled, has no program or already runs is passed over;
\* the error of startTask is only logged.
SkipTask(s, t) ==
    /\ t \in todo[s]
    /\ ~Startable(t)
    /\ todo' = [todo EXCEPT ![s] = @ \ {t}]
    /\ UNCHANGED <<registered, begun, cancelled, handlers, pstopClosed, stopTodo, taskVars, loopVars>>

\* Stop, first call (a second one would close p.stopCh again and panic).
StopCall ==
    /\ ~pstopClosed
    /\ pstopClosed' = TRUE
    /\ stopTodo' = Tasks
    /\ UNCHANGED <<registered, begun, todo, cancelled, handlers, taskVars, loopVars>>

StopTicker(tk, t, k) == [tk EXCEPT ![t] = [s \in StartIds |-> IF s = k THEN "stopped" ELSE @[s]]]

\* Mutated form: stopTask closes no channel.
ChannelLeftOpen(t) == closed
StopChannelClosed(t) == [closed EXCEPT ![t] = @ \cup {stopCh[t]}]

\* stopTask for a running task: the ticker the task has by now, if any, is
\* stopped as well.  A tick that was waiting in it is discarded (Go 1.23).
StopTask(t) ==
    /\ t \in stopTodo
    /\ running[t]
    /\ stopTodo' = stopTodo \ {t}
    /\ closed' = StopChannelClosed(t)
    /\ running' = [running EXCEPT ![t] = FALSE]
    /\ ticker' = StopTicker(ticker, t, interval[t])
    /\ UNCHANGED <<registered, begun, todo, cancelled, handlers, pstopClosed, stopCh,
                   interval, pc, selStop, selTick, own>>

\* stopTask for a task that does not run returns at once.
StopIdleTask(t) ==
    /\ t \in stopTodo
    /\ ~running[t]
    /\ stopTodo' = stopTodo \ {t}
    /\ UNCHANGED <<registered, begun, todo, cancelled, handlers, pstopClosed, taskVars, loopVars>>

\* The owner of the context given to call s of Start cancels it.
Cancel(s) ==
    /\ s \in begun \ cancelled
    /\ cancelled' = cancelled \cup {s}
    /\ UNCHANGED <<registered, begun, todo, handlers, pstopClosed, stopTodo, taskVars, loopVars>>

\* handleUpdates returns when its context or p.stopCh says so.
HandlerExit(s) ==
    /\ s \in handlers
    /\ s \in cancelled \/ pstopClosed
    /\ handlers' = handlers \ {s}
    /\ UNCHANGED <<registered, begun, todo, cancelled, pstopClosed, stopTodo, taskVars, loopVars>>

-----------------------------------------------------------------------------
(* The goroutine runTask.                                                  *)

Goto(t, s, from, to) ==
    /\ pc[t][s] = from
    /\ pc' = [pc EXCEPT ![t][s] = to]

\* task.interval = time.NewTicker(scanRate)
MakeTicker(t, s) ==
    /\ Goto(t, s, "spawned", "ticking")
    /\ interval' = [interval EXCEPT ![t] = s]
    /\ ticker' = [ticker EXCEPT ![t][s] = "active"]
    /\ UNCHANGED <<callVars, taskVars, selStop, selTick, own>>

\* defer task.interval.Stop(): the receiver is read here.
DeferStop(t, s) ==
    /\ Goto(t, s, "ticking", "enter")
    /\ own' = [own EXCEPT ![t][s] = interval[t]]
    /\ UNCHANGED <<callVars, taskVars, interval, selStop, selTick, ticker>>

\* The select reads task.stopCh and task.interval.C as they are now.
EnterSelect(t, s) ==
    /\ Goto(t, s, "enter", "select")
    /\ selStop' = [selStop EXCEPT ![t][s] = stopCh[t]]
    /\ selTick' = [selTick EXCEPT ![t][s] = interval[t]]
    /\ UNCHANGED <<callVars, taskVars, interval, own, ticker>>

\* A ticker holds at most one tick; further ones are dropped.
Tick(t, s) ==
    /\ ticker[t][s] = "active"
    /\ ticker' = [ticker EXCEPT ![t][s] = "ready"]
    /\ UNCHANGED <<callVars, taskVars, interval, pc, selStop, selTick, own>>

\* Mutated form: the select loses its stop case.
LeavesOnCancel(t, s) == s \in cancelled
MayLeave(t, s) == s \in cancelled \/ selStop[t][s] \in closed[t]

\* The loop returns through its context or stop case; its deferred call
\* stops the ticker it read in DeferStop.
LeaveLoop(t, s) ==
    /\ Goto(t, s, "select", "done")
    /\ MayLeave(t, s)
    /\ ticker' = StopTicker(ticker, t, own[t][s])
    /\ selStop' = [selStop EXCEPT ![t][s] = 0]
    /\ selTick' = [selTick EXCEPT ![t][s] = 0]
    /\ own' = [own EXCEPT ![t][s] = 0]
    /\ UNCHANGED <<callVars, taskVars, interval>>

\* Mutated form: the loop waits on a one-shot timer instead of a ticker.
OneShot == "stopped"
Periodic == "active"

\* The tick case: executeTask is entered and the program runs.
BeginScan(t, s) ==
    /\ Goto(t, s, "select", "scan")
    /\ selTick[t][s] \in StartIds
    /\ ticker[t][selTick[t][s]] = "ready"
    /\ ticker' = [ticker EXCEPT ![t][selTick[t][s]] = Periodic]
    /\ selStop' = [selStop EXCEPT ![t][s] = 0]
    /\ selTick' = [selTick EXCEPT ![t][s] = 0]
    /\ UNCHANGED <<callVars, taskVars, interval, own>>

\* Mutated form: the loop ends with its first scan.
ScansOnce == "done"
AfterScan == "enter"

\* The program has returned, the counters are updated, the loop goes round.
EndScan(t, s) ==
    /\ Goto(t, s, "scan", AfterScan)
    /\ UNCHANGED <<callVars, taskVars, interval, selStop, selTick, own, ticker>>

-----------------------------------------------------------------------------
LoopStep(t, s) ==
    \/ MakeTicker(t, s)
    \/ DeferStop(t, s)
    \/ EnterSelect(t, s)
    \/ EndScan(t, s)

CallStep ==
    \/ \E s \in StartIds, t \in Tasks : StartTask(s, t) \/ SkipTask(s, t)
    \/ \E t \in Tasks : StopTask(t) \/ StopIdleTask(t)

Next ==
    \/ \E t \in Tasks : RegisterTask(t)
    \/ \E s \in StartIds : StartCall(s) \/ Cancel(s) \/ HandlerExit(s)
    \/ StopCall
    \/ CallStep
    \/ \E t \in Tasks, s \in StartIds :
          LoopStep(t, s) \/ Tick(t, s) \/ LeaveLoop(t, s) \/ BeginScan(t, s)

Spec == Init /\ [][Next]_vars

(***************************************************************************)
(* Fairness.  A call of Start or Stop that is under way goes on, a         *)
(* goroutine that can run is scheduled, task programs return, time passes. *)
(* The two cases of a loop's select are strongly fair because Go picks     *)
(* among the ready cases of a select at random.  Nothing makes a caller    *)
(* call Start, Stop, RegisterTask or cancel its context.                   *)
(***************************************************************************)
Fairness ==
    /\ WF_vars(CallStep)
    /\ \A s \in StartIds : WF_vars(HandlerExit(s))
    /\ \A t \in Tasks, s \in StartIds :
          /\ WF_vars(LoopStep(t, s))
          /\ WF_vars(Tick(t, s))
          /\ SF_vars(LeaveLoop(t, s))
          /\ SF_vars(BeginScan(t, s))

FairSpec == Spec /\ Fairness

-----------------------------------------------------------------------------
TypeOK ==
    /\ registered \in [Tasks -> BOOLEAN]
    /\ begun \subseteq StartIds
    /\ todo \in [StartIds -> SUBSET Tasks]
    /\ cancelled \subseteq begun
    /\ handlers \subseteq begun
    /\ pstopClosed \in BOOLEAN
    /\ stopTodo \subseteq Tasks
    /\ running \in [Tasks -> BOOLEAN]
    /\ stopCh \in [Tasks -> Ids]
    /\ closed \in [Tasks -> SUBSET Ids]
    /\ interval \in [Tasks -> Ids]
    /\ pc \in [Tasks -> [StartIds -> LoopPcs]]
    /\ selStop \in [Tasks -> [StartIds -> Ids]]
    /\ selTick \in [Tasks -> [StartIds -> Ids]]
    /\ own \in [Tasks -> [StartIds -> Ids]]
    /\ ticker \in [Tasks -> [StartIds -> TickerStates]]

(***************************************************************************)
(* A task that is marked running has an open stop channel: stopTask can    *)
(* still reach its loop and cannot close a closed channel (which panics).  *)
(***************************************************************************)
RunningIsStoppable ==
    \A t \in Tasks : running[t] => stopCh[t] # 0 /\ stopCh[t] \notin closed[t]

(***************************************************************************)
(* A task that is marked running is served by the loop of the Start call   *)
(* that marked it, unless the context of that call was cancelled - however *)
(* calls of Start and Stop overlap and whatever older loops still do.      *)
(***************************************************************************)
RunningIsServed ==
    \A t \in Tasks : running[t] =>
        stopCh[t] \in StartIds /\ (Live(t, stopCh[t]) \/ stopCh[t] \in cancelled)

(***************************************************************************)
(* Until Stop is called a task has at most one scan loop, and that loop's  *)
(* ticker is not stopped under it: overlapping calls of Start do not scan  *)
(* a task twice.                                                           *)
(***************************************************************************)
OneLoopUntilStopped ==
    ~pstopClosed =>
        \A t \in Tasks, s \in StartIds : Live(t, s) =>
            /\ \A r \in StartIds \ {s} : ~Live(t, r)
            /\ pc[t][s] = "select" =>
                  selTick[t][s] = s /\ ticker[t][s] \in {"active", "ready"}

(***************************************************************************)
(* No loop waits on a channel that nobody will close: the channel is       *)
(* closed, or it is the one that stopTask will close.  So when Stop has    *)
(* visited a task, each of its loops that waits can leave, those that an   *)
(* earlier Stop and Start left behind included.                            *)
(***************************************************************************)
WaitingLoopsCanBeStopped ==
    \A t \in Tasks, s \in StartIds : pc[t][s] = "select" =>
        selStop[t][s] \in closed[t] \/ (running[t] /\ selStop[t][s] = stopCh[t])

(***************************************************************************)
(* Once stopTask has closed the stop channel of a task, every scan loop of *)
(* that task returns, unless Start starts the task again: no program keeps *)
(* being executed after a Stop.                                            *)
(***************************************************************************)
StoppedLoopsEnd ==
    \A t \in Tasks :
        (stopCh[t] \in closed[t]) ~> (running[t] \/ \A s \in StartIds : ~Live(t, s))

(***************************************************************************)
(* A started task is scanned: as long as nobody stops the PLC or cancels   *)
(* the context, its loop keeps coming back to its program.                 *)
(***************************************************************************)
StartedTasksScan ==
    \A t \in Tasks, s \in StartIds :
        Live(t, s) ~> (pc[t][s] = "scan" \/ pstopClosed \/ s \in cancelled)
=============================================================================
