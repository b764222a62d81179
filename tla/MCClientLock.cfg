CONSTANTS
    r1 = r1
    r2 = r2
    w1 = w1
    w2 = w2
    NoWriter = NoWriter
    Readers <- TwoReaders
    Writers <- TwoWriters
    Kinds <- AllKinds
SPECIFICATION FairLockSpec
INVARIANTS
    ReadersSeeWholeSteps
    PlainClientsGoOn
PROPERTIES
    UsesConnectedClient
    PlainOperationsReturn
    ConnectsReturn
CHECK_DEADLOCK FALSE
