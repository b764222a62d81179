CONSTANTS
    t1 = t1
    Tasks <- OneTask
    Enabled <- OneTask
    MaxStarts = 2
SPECIFICATION FairSpec
INVARIANTS
    RunningIsStoppable
    RunningIsServed
    OneLoopUntilStopped
    WaitingLoopsCanBeStopped
PROPERTIES
    StoppedLoopsEnd
    StartedTasksScan
CHECK_DEADLOCK FALSE
