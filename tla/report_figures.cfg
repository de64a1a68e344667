SPECIFICATION Spec
CONSTANTS
    j1 = j1
    j2 = j2
    j3 = j3
    n1 = n1
    n2 = n2
    cpu = cpu
    gpu = gpu
    Jobs = {j1, j2, j3}
    Nodes = {n1}
    Devices = {cpu, gpu}
    Runs = {1}
    NoUser = NoUser
    UserOf <- TwoUsers
    DevsOf <- MixedNodes
    Faults <- QueryFails
INVARIANTS
    TypeOK
    OnlyOwnWholeNodes
    TotalUpToDate
    WeekIsRecent
    PageAddsUp
