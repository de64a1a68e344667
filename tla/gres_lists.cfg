SPECIFICATION Spec
CONSTANTS
    GresUsed <- Few
    Gpus <- FewGpus
    Cpus = {cpu0, cpu1}
    Faults <- AllFaults
INVARIANTS
    UuidsFit
    NoIdleGpu
    FreedOnce
    ListedGpusMeasured
