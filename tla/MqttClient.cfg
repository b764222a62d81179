CONSTANTS
    Sparkplug = TRUE
    UseTLS = TRUE
    MaxClients = 4
    MaxConnects = 2
    MaxDisconnects = 1
    MaxFailures = 2
    MaxDrops = 1
SPECIFICATION FairSpec
INVARIANTS
    UpIsNoticed
PROPERTIES
    ErrorIsLeft
    ImplementsLink
CHECK_DEADLOCK FALSE
