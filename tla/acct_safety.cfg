SPECIFICATION FairSpec
CONSTANTS
    j1 = j1
    j2 = j2
    n1 = n1
    n2 = n2
    cpu = cpu
    gpu = gpu
    Jobs = {j1}
    Nodes = {n1, n2}
    Devices = {cpu, gpu}
    UserOf <- OneUser
    DevsOf <- MixedNodes
    MaxRuns = 2
    PollLimit = 2
    Faults <- AllFaults
    NoTotal = NoTotal
INVARIANTS
    TypeOK
    NoTornExecution
    NoDoubleCount
    EmptyTotalOnlyAfterTimeout
    AnswerMatchesLog
PROPERTIES
    TablesGrowByWholeExecutions
    JobAnswered
