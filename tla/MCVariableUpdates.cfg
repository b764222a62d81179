CONSTANTS
    v1 = v1
    v2 = v2
    w1 = w1
    w2 = w2
    h1 = h1
    Vars <- TwoVars
    Writers <- TwoWriters
    WritersOf <- OneAndBoth
    Handlers <- OneHandler
    ChanCap = 2
    MaxWrites = 3
    Default = Default
SPECIFICATION FairSpec
INVARIANTS
    ObserverCaughtUp
    ObserverCurrent
PROPERTIES
    ShownInOrder
    AcceptedIsSeen
CHECK_DEADLOCK FALSE
