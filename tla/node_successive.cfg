SPECIFICATION LiveSpec
CONSTANTS
    MaxRuns = 3
    MaxRestarts = 1
    WaitPolls = 2
    Faults <- FailuresOnly
INVARIANTS
    SentinelMeansNoEfp
    EpilogAddressesThisRun
    EarlierEfpsOver
PROPERTIES
    OneSessionPerRun
    EfpsEnd
