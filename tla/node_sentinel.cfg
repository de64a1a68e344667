SPECIFICATION Spec
CONSTANTS
    MaxRuns = 2
    MaxRestarts = 0
    WaitPolls = 2
    Faults <- NoFault
INVARIANTS
    SentinelNothingToWait
