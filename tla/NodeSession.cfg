\* Three pids; two faults.
SPECIFICATION FairSpec
CONSTANTS
    p1 = p1
    p2 = p2
    p3 = p3
    None = None
    Probe = {p1, p2, p3}
    MaxFaults = 2
INVARIANTS OnlyHolderSignalled SessionsEnd NoTightLoop
PROPERTIES StreamsAgain StopEnds
