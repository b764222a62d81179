CONSTANTS
    Kinds <- AllKinds
    MaxConnects = 3
    MaxDisconnects = 2
    MaxFailures = 4
    MaxDrops = 1
    MaxCloseErrs = 1
SPECIFICATION FairSpec
INVARIANTS
    StatusConsistent
    WorkingLinksAreKept
    CallbacksTellState
PROPERTIES
    ErrorIsLeft
    ImplementsLink
CHECK_DEADLOCK FALSE
