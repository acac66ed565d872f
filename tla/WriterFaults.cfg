SPECIFICATION Spec
CONSTANTS
    MaxBatch = 3
    LiveOnly = {2}
    Size <- UnitSize
    MaxBytes = 2
    DiskFaults = {"write", "move", "remove"}
    MinDelay = 1
    MaxDelay = 2
    MaxAttempts = 2
    MaxCrashes = 0
    Rejected = {0, 1}
    Exhausting = {3}
    Damaged = {2}
    SlowListing = FALSE
    None = None
INVARIANTS NoSilentLoss WriteOrder OutageCoherent
