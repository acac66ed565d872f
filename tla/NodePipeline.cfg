\* Intervals of two minutes; the clock is set back once.
SPECIFICATION Spec
CONSTANTS
    None = None
    MinuteLen = 1
    MaxPending = 2
    Raw <- MCRaw
    MinUserUid = 1000
    IntervalLen = 2
    Readings <- MCReadings
    Censuses <- MCCensuses
    MaxClock = 3
    MaxBack = 1
    MaxMessages = 4
    MaxSessions = 2
INVARIANTS RowsInOrder SamplesOnce PendingCensuses RatesOfSessions UsersAddUp
