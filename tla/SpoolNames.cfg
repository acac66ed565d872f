SPECIFICATION NamesSpec
CONSTANTS
    MaxTime = 3
    MaxWrites = 4
INVARIANTS ListedInWriteOrder
PROPERTIES NothingReplaced
CHECK_DEADLOCK FALSE
