\* Two collectors on the same table.
SPECIFICATION Spec
CONSTANTS
    c1 = c1
    c2 = c2
    None = None
    Collector = {c1, c2}
    Tables <- SomeTables
    Keep <- SomeKeep
    MonthLen = 2
    Ahead = 2
    MaxAge = 1
    MayStop = {c1, c2}
    CalmUnits = 2
    Oldest <- OldestMonth
    HeartbeatInterval = 1
    RetryInterval = 1
    MaintenanceInterval = 3
INVARIANTS NoDuplicateCreate SecondApplyFits CatchesUp
PROPERTIES StoppedIsRecorded
