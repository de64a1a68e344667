SPECIFICATION FairSpec
CONSTANTS
    Users = {u1, u2, u3}
    Interval = 3
    RestartDelay = 1
    Enabled = TRUE
    Faults <- AllFaults
INVARIANTS
    TypeOK
    OneTickAfterStop
    SentWereAccepted
PROPERTIES
    NoEarlyMail
    StopEnds
    TicksKeepComing
