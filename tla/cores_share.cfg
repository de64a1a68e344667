SPECIFICATION Spec
CONSTANTS
    Allocations <- SmallAndLarge
    Topologies <- AllTopologies
    NoSocket <- MinusOne
    CPU_IDS_SIZE = 128
    Garbage <- SomeTokens
INVARIANTS
    OwnCoresOnce
    ReadsInBounds
    UtilizationIsShare
