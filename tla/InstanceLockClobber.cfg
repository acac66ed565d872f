SPECIFICATION LockSpec
CONSTANTS
    Daemon = {d1, d2}
    Command = {c1, c2}
    None = None
    LockFileExists = FALSE
INVARIANTS NotClobbered
