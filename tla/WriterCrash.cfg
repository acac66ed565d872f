SPECIFICATION Spec
CONSTANTS
    MaxBatch = 3
    LiveOnly = {2, 3}
    Size <- MixedSize
    MaxBytes = 3
    DiskFaults = {}
    MinDelay = 1
    MaxDelay = 1
    MaxAttempts = 2
    MaxCrashes = 1
    Rejected = {1}
    Exhausting = {}
    Damaged = {}
    SlowListing = TRUE
    None = None
INVARIANTS EvictionOrder
PROPERTIES ImplementsLedger AppendFits
