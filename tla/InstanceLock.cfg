SPECIFICATION LockSpec
CONSTANTS
    Daemon = {d1, d2, d3}
    Command = {c1, c2}
    None = None
    LockFileExists = TRUE
INVARIANTS NotClobbered SingleDaemon StoppedIsGone
