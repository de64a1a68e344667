SPECIFICATION Spec
CONSTANTS
    GresUsed <- Many
    Gpus <- SixteenGpus
    Cpus = {cpu0, cpu1}
    Faults <- NoFault
INVARIANTS
    JobsGpusMeasured
