SPECIFICATION FairSpec
CONSTANTS
    MaxBatch = 2
    LiveOnly = {}
    Size <- UnitSize
    MaxBytes = 2
    DiskFaults = {"move", "remove"}
    MinDelay = 1
    MaxDelay = 2
    MaxAttempts = 2
    MaxCrashes = 0
    Rejected = {1}
    Exhausting = {2}
    Damaged = {1}
    SlowListing = FALSE
    None = None
PROPERTIES SpoolDrains OutageEnds
