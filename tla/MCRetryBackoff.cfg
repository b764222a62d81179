CONSTANTS
    Configured <- SomeDelays
    DefaultMin = 1
    DefaultMax = 30
    MaxDuration <- NineBits
    MaxRetries = 12
SPECIFICATION RetrySpec
INVARIANTS
    InRangeIfSaturating
    InRangeUntilOverflow
