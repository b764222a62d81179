------------------------ MODULE TaskSchedulerProofs ------------------------
(***************************************************************************)
(* Proofs about TaskScheduler, for any sets of tasks, any number of calls  *)
(* of Start and any interleaving of the calls with the scan loops.         *)
(***************************************************************************)
EXTENDS TaskScheduler, TLAPS

(***************************************************************************)
(* The inductive invariant.  A loop exists only for a call of Start that   *)
(* has visited its task; the channel in task.stopCh, and every closed      *)
(* channel, was made together with a loop; and a loop whose own channel is *)
(* still in task.stopCh cannot be waiting on another one.                  *)
(***************************************************************************)
CallsPrecedeLoops ==
    \A t \in Tasks, s \in StartIds :
        /\ t \in todo[s] => s \in begun
        /\ pc[t][s] # "none" => s \in begun /\ t \notin todo[s]

ChannelsHaveLoops ==
    \A t \in Tasks :
        /\ stopCh[t] # 0 => pc[t][stopCh[t]] # "none"
        /\ \A k \in closed[t] : k # 0 /\ pc[t][k] # "none"
        /\ running[t] => stopCh[t] # 0 /\ stopCh[t] \notin closed[t]

LoopWaitsOnItsChannel ==
    \A t \in Tasks, s \in StartIds :
        stopCh[t] = s /\ pc[t][s] = "select" => selStop[t][s] = s

\* A channel that has been made for a task is closed by the time the task is
\* not running, and a loop begins after its channel has been made.
StoppedIsClosed ==
    \A t \in Tasks :
        /\ ~running[t] => stopCh[t] = 0 \/ stopCh[t] \in closed[t]
        /\ \A s \in StartIds : pc[t][s] # "none" => stopCh[t] # 0

\* Before the first Stop the only loop of a task is the one that made it
\* running, and everything that loop uses is its own.
LoopOwnsTask(t, s) ==
    /\ running[t]
    /\ stopCh[t] = s
    /\ pc[t][s] \in {"ticking", "enter", "select", "scan"} =>
          interval[t] = s /\ ticker[t][s] \in {"active", "ready"}
    /\ pc[t][s] \in {"enter", "select", "scan"} => own[t][s] = s
    /\ pc[t][s] = "select" => selTick[t][s] = s

BeforeStop ==
    ~pstopClosed =>
        /\ stopTodo = {}
        /\ \A t \in Tasks, s \in StartIds : pc[t][s] # "none" => LoopOwnsTask(t, s)

StructureInv ==
    /\ CallsPrecedeLoops
    /\ ChannelsHaveLoops
    /\ LoopWaitsOnItsChannel
    /\ StoppedIsClosed
    /\ WaitingLoopsCanBeStopped
    /\ RunningIsServed
    /\ BeforeStop

IInv == TypeOK /\ StructureInv

-----------------------------------------------------------------------------
(* Every value stays in its type, whatever the tasks and the bound.        *)
LEMMA IdFacts == StartIds \subseteq Ids /\ 0 \in Ids /\ 0 \notin StartIds
  BY ConstantsAssumption DEF StartIds, Ids

LEMMA LoopUpdate ==
    ASSUME NEW S, NEW f \in [Tasks -> [StartIds -> S]],
           NEW t \in Tasks, NEW s \in StartIds, NEW x \in S
    PROVE  [f EXCEPT ![t][s] = x] \in [Tasks -> [StartIds -> S]]
  OBVIOUS

LEMMA StopTickerType ==
    ASSUME NEW tk \in [Tasks -> [StartIds -> TickerStates]], NEW t \in Tasks, NEW k
    PROVE  StopTicker(tk, t, k) \in [Tasks -> [StartIds -> TickerStates]]
<1> DEFINE row == [s \in StartIds |-> IF s = k THEN "stopped" ELSE tk[t][s]]
<1>1. row \in [StartIds -> TickerStates]
  BY DEF TickerStates
<1>2. StopTicker(tk, t, k) = [tk EXCEPT ![t] = row]
  BY DEF StopTicker
<1> QED
  BY <1>1, <1>2

LEMMA TypeStep == TypeOK /\ [Next]_vars => TypeOK'
<1> SUFFICES ASSUME TypeOK, [Next]_vars PROVE TypeOK'
  OBVIOUS
<1> USE IdFacts DEF TypeOK
<1>1. ASSUME NEW t \in Tasks, RegisterTask(t) PROVE TypeOK'
  BY <1>1 DEF RegisterTask, callVars, taskVars, loopVars
<1>2. ASSUME NEW s \in StartIds, StartCall(s) PROVE TypeOK'
  BY <1>2 DEF StartCall, callVars, taskVars, loopVars
<1>3. ASSUME NEW s \in StartIds, Cancel(s) PROVE TypeOK'
  BY <1>3 DEF Cancel, callVars, taskVars, loopVars
<1>4. ASSUME NEW s \in StartIds, HandlerExit(s) PROVE TypeOK'
  BY <1>4 DEF HandlerExit, callVars, taskVars, loopVars
<1>5. CASE StopCall
  BY <1>5 DEF StopCall, callVars, taskVars, loopVars
<1>6. ASSUME NEW s \in StartIds, NEW t \in Tasks, StartTask(s, t) PROVE TypeOK'
  <2>1. todo' \in [StartIds -> SUBSET Tasks]
    BY <1>6 DEF StartTask
  <2>2. stopCh' \in [Tasks -> Ids] /\ running' \in [Tasks -> BOOLEAN]
    BY <1>6 DEF StartTask, FreshChannel
  <2>3. pc' \in [Tasks -> [StartIds -> LoopPcs]]
    BY <1>6, LoopUpdate, "spawned" \in LoopPcs DEF StartTask, LoopPcs
  <2> QED
    BY <1>6, <2>1, <2>2, <2>3 DEF StartTask
<1>7. ASSUME NEW s \in StartIds, NEW t \in Tasks, SkipTask(s, t) PROVE TypeOK'
  BY <1>7 DEF SkipTask, callVars, taskVars, loopVars
<1>8. ASSUME NEW t \in Tasks, StopTask(t) PROVE TypeOK'
  <2>1. closed' \in [Tasks -> SUBSET Ids] /\ running' \in [Tasks -> BOOLEAN]
    BY <1>8 DEF StopTask, StopChannelClosed
  <2>2. ticker' \in [Tasks -> [StartIds -> TickerStates]]
    BY <1>8, StopTickerType DEF StopTask
  <2> QED
    BY <1>8, <2>1, <2>2 DEF StopTask
<1>9. ASSUME NEW t \in Tasks, StopIdleTask(t) PROVE TypeOK'
  BY <1>9 DEF StopIdleTask, callVars, taskVars, loopVars
<1>10. ASSUME NEW t \in Tasks, NEW s \in StartIds, MakeTicker(t, s) PROVE TypeOK'
  BY <1>10 DEF MakeTicker, Goto, LoopPcs, TickerStates, callVars, taskVars, loopVars
<1>11. ASSUME NEW t \in Tasks, NEW s \in StartIds, DeferStop(t, s) PROVE TypeOK'
  BY <1>11 DEF DeferStop, Goto, LoopPcs, callVars, taskVars, loopVars
<1>12. ASSUME NEW t \in Tasks, NEW s \in StartIds, EnterSelect(t, s) PROVE TypeOK'
  BY <1>12 DEF EnterSelect, Goto, LoopPcs, callVars, taskVars, loopVars
<1>13. ASSUME NEW t \in Tasks, NEW s \in StartIds, EndScan(t, s) PROVE TypeOK'
  BY <1>13 DEF EndScan, Goto, LoopPcs, AfterScan, callVars, taskVars, loopVars
<1>14. ASSUME NEW t \in Tasks, NEW s \in StartIds, Tick(t, s) PROVE TypeOK'
  BY <1>14 DEF Tick, TickerStates, callVars, taskVars, loopVars
<1>15. ASSUME NEW t \in Tasks, NEW s \in StartIds, LeaveLoop(t, s) PROVE TypeOK'
  BY <1>15, StopTickerType DEF LeaveLoop, Goto, LoopPcs, callVars, taskVars, loopVars
<1>16. ASSUME NEW t \in Tasks, NEW s \in StartIds, BeginScan(t, s) PROVE TypeOK'
  BY <1>16 DEF BeginScan, Goto, LoopPcs, Periodic, TickerStates, callVars, taskVars, loopVars
<1>17. CASE UNCHANGED vars
  BY <1>17 DEF vars, callVars, taskVars, loopVars
<1> QED
  BY <1>1, <1>2, <1>3, <1>4, <1>5, <1>6, <1>7, <1>8, <1>9, <1>10, <1>11, <1>12, <1>13, <1>14,
     <1>15, <1>16, <1>17 DEF Next, CallStep, LoopStep

-----------------------------------------------------------------------------
(* The invariant is inductive.                                             *)
LEMMA StructureStep == IInv /\ [Next]_vars => StructureInv'
<1> SUFFICES ASSUME IInv, [Next]_vars PROVE StructureInv'
  OBVIOUS
<1> TypeOK'
  BY TypeStep DEF IInv
<1> USE IdFacts DEF IInv, TypeOK, StructureInv
<1>1. ASSUME NEW t \in Tasks, RegisterTask(t)
      PROVE  StructureInv'
  BY <1>1 DEF RegisterTask, CallsPrecedeLoops, ChannelsHaveLoops,
         LoopWaitsOnItsChannel, StoppedIsClosed, WaitingLoopsCanBeStopped,
         RunningIsServed, BeforeStop, LoopOwnsTask,
         Live, taskVars, loopVars
<1>2. ASSUME NEW s \in StartIds, StartCall(s)
      PROVE  StructureInv'
  BY <1>2 DEF StartCall, CallsPrecedeLoops, ChannelsHaveLoops,
         LoopWaitsOnItsChannel, StoppedIsClosed, WaitingLoopsCanBeStopped,
         RunningIsServed, BeforeStop, LoopOwnsTask,
         Live, taskVars, loopVars
<1>3. ASSUME NEW s \in StartIds, Cancel(s)
      PROVE  StructureInv'
  BY <1>3 DEF Cancel, CallsPrecedeLoops, ChannelsHaveLoops,
         LoopWaitsOnItsChannel, StoppedIsClosed, WaitingLoopsCanBeStopped,
         RunningIsServed, BeforeStop, LoopOwnsTask,
         Live, taskVars, loopVars
<1>4. ASSUME NEW s \in StartIds, HandlerExit(s)
      PROVE  StructureInv'
  BY <1>4 DEF HandlerExit, CallsPrecedeLoops, ChannelsHaveLoops,
         LoopWaitsOnItsChannel, StoppedIsClosed, WaitingLoopsCanBeStopped,
         RunningIsServed, BeforeStop, LoopOwnsTask,
         Live, taskVars, loopVars
<1>5. CASE StopCall
  BY <1>5 DEF StopCall, CallsPrecedeLoops, ChannelsHaveLoops,
         LoopWaitsOnItsChannel, StoppedIsClosed, WaitingLoopsCanBeStopped,
         RunningIsServed, BeforeStop, LoopOwnsTask,
         Live, taskVars, loopVars
<1>6. ASSUME NEW s \in StartIds, NEW t \in Tasks, StartTask(s, t)
      PROVE  StructureInv'
  <2>1. CallsPrecedeLoops'
    BY <1>6 DEF StartTask, CallsPrecedeLoops, Startable
  <2>2. ChannelsHaveLoops'
    BY <1>6 DEF StartTask, ChannelsHaveLoops, FreshChannel, Startable,
           CallsPrecedeLoops
  <2>3. LoopWaitsOnItsChannel'
    BY <1>6 DEF StartTask, LoopWaitsOnItsChannel, FreshChannel,
           CallsPrecedeLoops, ChannelsHaveLoops
  <2>4. RunningIsServed'
    BY <1>6 DEF StartTask, RunningIsServed, Live, FreshChannel
  <2>5. BeforeStop'
    BY <1>6 DEF StartTask, BeforeStop, LoopOwnsTask, Startable, FreshChannel,
           CallsPrecedeLoops
  <2>6. StoppedIsClosed'
    BY <1>6 DEF StartTask, StoppedIsClosed,
           Startable, FreshChannel, CallsPrecedeLoops, ChannelsHaveLoops
  <2>7. WaitingLoopsCanBeStopped'
    BY <1>6 DEF StartTask, WaitingLoopsCanBeStopped, StoppedIsClosed,
           Startable, FreshChannel, CallsPrecedeLoops, ChannelsHaveLoops
  <2> QED
    BY <2>1, <2>2, <2>3, <2>4, <2>5, <2>6, <2>7
<1>7. ASSUME NEW s \in StartIds, NEW t \in Tasks, SkipTask(s, t)
      PROVE  StructureInv'
  BY <1>7 DEF SkipTask, CallsPrecedeLoops, ChannelsHaveLoops,
         LoopWaitsOnItsChannel, StoppedIsClosed, WaitingLoopsCanBeStopped,
         RunningIsServed, BeforeStop, LoopOwnsTask,
         Live, taskVars, loopVars
<1>8. ASSUME NEW t \in Tasks, StopTask(t)
      PROVE  StructureInv'
  <2>1. CallsPrecedeLoops'
    BY <1>8 DEF StopTask, CallsPrecedeLoops
  <2>2. ChannelsHaveLoops'
    BY <1>8 DEF StopTask, ChannelsHaveLoops, StopChannelClosed
  <2>3. LoopWaitsOnItsChannel'
    BY <1>8 DEF StopTask, LoopWaitsOnItsChannel
  <2>4. RunningIsServed'
    BY <1>8 DEF StopTask, RunningIsServed, Live
  <2>5. BeforeStop'
    BY <1>8 DEF StopTask, BeforeStop, LoopOwnsTask
  <2>6. StoppedIsClosed'
    BY <1>8 DEF StopTask, StoppedIsClosed,
           StopChannelClosed
  <2>7. WaitingLoopsCanBeStopped'
    BY <1>8 DEF StopTask, WaitingLoopsCanBeStopped, StoppedIsClosed,
           StopChannelClosed
  <2> QED
    BY <2>1, <2>2, <2>3, <2>4, <2>5, <2>6, <2>7
<1>9. ASSUME NEW t \in Tasks, StopIdleTask(t)
      PROVE  StructureInv'
  BY <1>9 DEF StopIdleTask, CallsPrecedeLoops, ChannelsHaveLoops,
         LoopWaitsOnItsChannel, StoppedIsClosed, WaitingLoopsCanBeStopped,
         RunningIsServed, BeforeStop, LoopOwnsTask,
         Live, taskVars, loopVars
<1>10. ASSUME NEW t \in Tasks, NEW s \in StartIds, MakeTicker(t, s)
      PROVE  StructureInv'
  <2>1. CallsPrecedeLoops'
    BY <1>10 DEF MakeTicker, CallsPrecedeLoops, Goto, callVars, taskVars
  <2>2. ChannelsHaveLoops'
    BY <1>10 DEF MakeTicker, ChannelsHaveLoops, Goto, callVars, taskVars
  <2>3. LoopWaitsOnItsChannel'
    BY <1>10 DEF MakeTicker, LoopWaitsOnItsChannel, Goto, callVars, taskVars
  <2>4. RunningIsServed'
    BY <1>10 DEF MakeTicker, RunningIsServed, Live, Goto, callVars, taskVars
  <2>5. BeforeStop'
    BY <1>10 DEF MakeTicker, BeforeStop, LoopOwnsTask, Goto, callVars, taskVars
  <2>6. StoppedIsClosed'
    BY <1>10 DEF MakeTicker, StoppedIsClosed,
           Goto, callVars, taskVars
  <2>7. WaitingLoopsCanBeStopped'
    BY <1>10 DEF MakeTicker, WaitingLoopsCanBeStopped, StoppedIsClosed,
           Goto, callVars, taskVars
  <2> QED
    BY <2>1, <2>2, <2>3, <2>4, <2>5, <2>6, <2>7
<1>11. ASSUME NEW t \in Tasks, NEW s \in StartIds, DeferStop(t, s)
      PROVE  StructureInv'
  <2>1. CallsPrecedeLoops'
    BY <1>11 DEF DeferStop, CallsPrecedeLoops, Goto, callVars, taskVars
  <2>2. ChannelsHaveLoops'
    BY <1>11 DEF DeferStop, ChannelsHaveLoops, Goto, callVars, taskVars
  <2>3. LoopWaitsOnItsChannel'
    BY <1>11 DEF DeferStop, LoopWaitsOnItsChannel, Goto, callVars, taskVars
  <2>4. RunningIsServed'
    BY <1>11 DEF DeferStop, RunningIsServed, Live, Goto, callVars, taskVars
  <2>5. BeforeStop'
    BY <1>11 DEF DeferStop, BeforeStop, LoopOwnsTask, Goto, callVars, taskVars
  <2>6. StoppedIsClosed'
    BY <1>11 DEF DeferStop, StoppedIsClosed,
           Goto, callVars, taskVars
  <2>7. WaitingLoopsCanBeStopped'
    BY <1>11 DEF DeferStop, WaitingLoopsCanBeStopped, StoppedIsClosed,
           Goto, callVars, taskVars
  <2> QED
    BY <2>1, <2>2, <2>3, <2>4, <2>5, <2>6, <2>7
<1>12. ASSUME NEW t \in Tasks, NEW s \in StartIds, EnterSelect(t, s)
      PROVE  StructureInv'
  <2>1. CallsPrecedeLoops'
    BY <1>12 DEF EnterSelect, CallsPrecedeLoops, Goto, callVars, taskVars
  <2>2. ChannelsHaveLoops'
    BY <1>12 DEF EnterSelect, ChannelsHaveLoops, Goto, callVars, taskVars
  <2>3. LoopWaitsOnItsChannel'
    BY <1>12 DEF EnterSelect, LoopWaitsOnItsChannel, Goto, callVars, taskVars
  <2>4. RunningIsServed'
    BY <1>12 DEF EnterSelect, RunningIsServed, Live, Goto, callVars, taskVars
  <2>5. BeforeStop'
    BY <1>12 DEF EnterSelect, BeforeStop, LoopOwnsTask, Goto, callVars,
           taskVars
  <2>6. StoppedIsClosed'
    BY <1>12 DEF EnterSelect, StoppedIsClosed,
           Goto, callVars, taskVars
  <2>7. WaitingLoopsCanBeStopped'
    BY <1>12 DEF EnterSelect, WaitingLoopsCanBeStopped, StoppedIsClosed,
           Goto, callVars, taskVars
  <2> QED
    BY <2>1, <2>2, <2>3, <2>4, <2>5, <2>6, <2>7
<1>13. ASSUME NEW t \in Tasks, NEW s \in StartIds, EndScan(t, s)
      PROVE  StructureInv'
  <2>1. CallsPrecedeLoops'
    BY <1>13 DEF EndScan, CallsPrecedeLoops, Goto, AfterScan, callVars,
           taskVars
  <2>2. ChannelsHaveLoops'
    BY <1>13 DEF EndScan, ChannelsHaveLoops, Goto, AfterScan, callVars,
           taskVars
  <2>3. LoopWaitsOnItsChannel'
    BY <1>13 DEF EndScan, LoopWaitsOnItsChannel, Goto, AfterScan, callVars,
           taskVars
  <2>4. RunningIsServed'
    BY <1>13 DEF EndScan, RunningIsServed, Live, Goto, AfterScan, callVars,
           taskVars
  <2>5. BeforeStop'
    BY <1>13 DEF EndScan, BeforeStop, LoopOwnsTask, Goto, AfterScan, callVars,
           taskVars
  <2>6. StoppedIsClosed'
    BY <1>13 DEF EndScan, StoppedIsClosed,
           Goto, AfterScan, callVars, taskVars
  <2>7. WaitingLoopsCanBeStopped'
    BY <1>13 DEF EndScan, WaitingLoopsCanBeStopped, StoppedIsClosed,
           Goto, AfterScan, callVars, taskVars
  <2> QED
    BY <2>1, <2>2, <2>3, <2>4, <2>5, <2>6, <2>7
<1>14. ASSUME NEW t \in Tasks, NEW s \in StartIds, Tick(t, s)
      PROVE  StructureInv'
  BY <1>14 DEF Tick, CallsPrecedeLoops, ChannelsHaveLoops,
         LoopWaitsOnItsChannel, StoppedIsClosed, WaitingLoopsCanBeStopped,
         RunningIsServed, BeforeStop, LoopOwnsTask,
         Live, callVars, taskVars
<1>15. ASSUME NEW t \in Tasks, NEW s \in StartIds, LeaveLoop(t, s)
      PROVE  StructureInv'
  <2>1. CallsPrecedeLoops'
    BY <1>15 DEF LeaveLoop, CallsPrecedeLoops, Goto, callVars, taskVars
  <2>2. ChannelsHaveLoops'
    BY <1>15 DEF LeaveLoop, ChannelsHaveLoops, Goto, callVars, taskVars
  <2>3. LoopWaitsOnItsChannel'
    BY <1>15 DEF LeaveLoop, LoopWaitsOnItsChannel, Goto, callVars, taskVars
  <2>4. RunningIsServed'
    BY <1>15 DEF LeaveLoop, RunningIsServed, Live, Goto, MayLeave,
           ChannelsHaveLoops, LoopWaitsOnItsChannel, callVars, taskVars
  <2>5. BeforeStop'
    BY <1>15 DEF LeaveLoop, BeforeStop, LoopOwnsTask, Goto, StopTicker,
           callVars, taskVars
  <2>6. StoppedIsClosed'
    BY <1>15 DEF LeaveLoop, StoppedIsClosed,
           Goto, callVars, taskVars
  <2>7. WaitingLoopsCanBeStopped'
    BY <1>15 DEF LeaveLoop, WaitingLoopsCanBeStopped, StoppedIsClosed,
           Goto, callVars, taskVars
  <2> QED
    BY <2>1, <2>2, <2>3, <2>4, <2>5, <2>6, <2>7
<1>16. ASSUME NEW t \in Tasks, NEW s \in StartIds, BeginScan(t, s)
      PROVE  StructureInv'
  <2>1. CallsPrecedeLoops'
    BY <1>16 DEF BeginScan, CallsPrecedeLoops, Goto, callVars, taskVars
  <2>2. ChannelsHaveLoops'
    BY <1>16 DEF BeginScan, ChannelsHaveLoops, Goto, callVars, taskVars
  <2>3. LoopWaitsOnItsChannel'
    BY <1>16 DEF BeginScan, LoopWaitsOnItsChannel, Goto, callVars, taskVars
  <2>4. RunningIsServed'
    BY <1>16 DEF BeginScan, RunningIsServed, Live, Goto, callVars, taskVars
  <2>5. BeforeStop'
    BY <1>16 DEF BeginScan, BeforeStop, LoopOwnsTask, Goto, Periodic, callVars,
           taskVars
  <2>6. StoppedIsClosed'
    BY <1>16 DEF BeginScan, StoppedIsClosed,
           Goto, callVars, taskVars
  <2>7. WaitingLoopsCanBeStopped'
    BY <1>16 DEF BeginScan, WaitingLoopsCanBeStopped, StoppedIsClosed,
           Goto, callVars, taskVars
  <2> QED
    BY <2>1, <2>2, <2>3, <2>4, <2>5, <2>6, <2>7
<1>17. CASE UNCHANGED vars
  BY <1>17 DEF CallsPrecedeLoops, ChannelsHaveLoops, LoopWaitsOnItsChannel,
         StoppedIsClosed, WaitingLoopsCanBeStopped, RunningIsServed, BeforeStop,
         LoopOwnsTask, Live, vars, callVars,
         taskVars, loopVars
<1> QED
  BY <1>1, <1>2, <1>3, <1>4, <1>5, <1>6, <1>7, <1>8, <1>9, <1>10, <1>11, <1>12,
     <1>13, <1>14, <1>15, <1>16, <1>17
  DEF Next, CallStep, LoopStep

LEMMA Inductive == Spec => []IInv
<1>1. Init => IInv
  <2> SUFFICES ASSUME Init PROVE IInv
    OBVIOUS
  <2> USE IdFacts DEF Init
  <2>1. TypeOK
    BY DEF TypeOK, LoopPcs, TickerStates
  <2>2. CallsPrecedeLoops /\ LoopWaitsOnItsChannel /\ BeforeStop
    BY DEF CallsPrecedeLoops, LoopWaitsOnItsChannel, BeforeStop
  <2>3. ChannelsHaveLoops /\ RunningIsServed
    BY DEF ChannelsHaveLoops, RunningIsServed
  <2>4. StoppedIsClosed /\ WaitingLoopsCanBeStopped
    BY DEF StoppedIsClosed, WaitingLoopsCanBeStopped
  <2> QED
    BY <2>1, <2>2, <2>3, <2>4 DEF IInv, StructureInv
<1>2. IInv /\ [Next]_vars => IInv'
  BY TypeStep, StructureStep DEF IInv
<1> QED
  BY <1>1, <1>2, PTL DEF Spec

-----------------------------------------------------------------------------
(* The scheduler's state never leaves its types: no loop, channel or ticker *)
(* is ever referred to that the calls of Start have not made.               *)
THEOREM TypeCorrect == Spec => []TypeOK
  BY Inductive, PTL DEF IInv

(* stopTask (runtime.go:247-263) can always close the channel it finds: no  *)
(* interleaving of Start, Stop and the loops makes it close a closed one.   *)
THEOREM StopIsSafe == Spec => []RunningIsStoppable
<1>1. IInv => RunningIsStoppable
  BY DEF IInv, StructureInv, ChannelsHaveLoops, RunningIsStoppable
<1> QED
  BY <1>1, Inductive, PTL

(* A task that says it runs has a loop of the Start call that set Running,  *)
(* or that call's context was cancelled: older loops cannot take it down.   *)
THEOREM RunningServed == Spec => []RunningIsServed
  BY Inductive, PTL DEF IInv, StructureInv

(* Overlapping calls of Start give a task one loop, which alone owns its    *)
(* ticker, as long as Stop has not been called (runtime.go:232-239).        *)
THEOREM OneLoop == Spec => []OneLoopUntilStopped
<1>1. IInv => OneLoopUntilStopped
  <2> SUFFICES ASSUME IInv, ~pstopClosed, NEW t \in Tasks, NEW s \in StartIds, Live(t, s)
               PROVE  /\ \A r \in StartIds \ {s} : ~Live(t, r)
                      /\ pc[t][s] = "select" =>
                            selTick[t][s] = s /\ ticker[t][s] \in {"active", "ready"}
    BY DEF OneLoopUntilStopped
  <2>1. LoopOwnsTask(t, s)
    BY DEF IInv, StructureInv, BeforeStop, Live
  <2>2. ASSUME NEW r \in StartIds, Live(t, r) PROVE r = s
    BY <2>1, <2>2 DEF IInv, StructureInv, BeforeStop, Live, LoopOwnsTask
  <2> QED
    BY <2>1, <2>2 DEF LoopOwnsTask
<1> QED
  BY <1>1, Inductive, PTL

(* Each loop that waits in its select is told to end already, or stopTask   *)
(* will tell it (runtime.go:254, 282): a loop that read the channel of a    *)
(* later Start, or lost its own to one, is no exception.                    *)
THEOREM LoopsHearStop == Spec => []WaitingLoopsCanBeStopped
  BY Inductive, PTL DEF IInv, StructureInv

(* The step that takes Running from a task makes every loop of it that      *)
(* waits ready to leave; what keeps one going is a program, or a Start.     *)
THEOREM StopReachesLoops ==
    Spec => [][\A t \in Tasks, s \in StartIds :
                 running[t] /\ ~running'[t] /\ pc'[t][s] = "select" => MayLeave(t, s)']_vars
<1>1. WaitingLoopsCanBeStopped' =>
        \A t \in Tasks, s \in StartIds :
            running[t] /\ ~running'[t] /\ pc'[t][s] = "select" => MayLeave(t, s)'
  BY DEF WaitingLoopsCanBeStopped, MayLeave
<1> QED
  BY <1>1, LoopsHearStop, PTL
=============================================================================
