SPECIFICATION Spec
CONSTANTS
    Writer = {w1, w2}
    Node = {a, b}
    a = a
    b = b
    Batches <- SomeBatches
    Cutoff = 1
    MonthLen = 2
    None = None
INVARIANTS NoCreatorCycle NewestStored SnapshotWhole
PROPERTIES NoReversion ReplayChangesNothing
