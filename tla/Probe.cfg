\* One failure besides a timeout; two in a row suspend the queries for one census.
SPECIFICATION FairProbeSpec
CONSTANTS
    Failures = {"refused"}
    Suspend = 1
    Identical = 2
    CountersTo = 2
    CensusTo = 9
INVARIANTS WholeLines SignalNamed
PROPERTIES SuspendsQueries ProbeEnds
