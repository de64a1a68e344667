SPECIFICATION FairSpec
CONSTANTS
    MaxRuns = 2
    MaxRestarts = 1
    WaitPolls = 2
    Faults <- AllFaults
CHECK_DEADLOCK FALSE
INVARIANTS
    TypeOK
    KillTargetsAnEfp
    NoStraySignal
    EpilogAddressesOneRun
    JobWindow
    ReapingEndedEfp
    CleanAfterSuccess
PROPERTIES
    HooksReturn
