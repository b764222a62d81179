CONSTANTS
    MaxWatches = 2
    MaxConnects = 2
    MaxDisconnects = 1
    MaxChanges = 2
    MaxFaults = 1
SPECIFICATION FairSpec
INVARIANTS
    QuietMeansTold
    SubscriptionIsServed
PROPERTIES
    WatchedIsTold
CHECK_DEADLOCK FALSE
