SPECIFICATION FairSpec
CONSTANTS
    Node = {n1, n2}
    Column = {c1, c2}
    MaxPuts = 4
    MaxEvents = 2
    FinalRounds = 1
INVARIANTS CollectorInv AllSubmitted EventsFlushed
PROPERTIES StopEnds
CHECK_DEADLOCK FALSE
