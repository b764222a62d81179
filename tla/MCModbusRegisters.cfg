SPECIFICATION Spec
CONSTANTS
    Base = 4
    Addresses <- AllAddresses
    Sources <- MixedSources
    Values <- MixedValues
INVARIANTS
    ReadsBack
    WriteBackChangesNothing
