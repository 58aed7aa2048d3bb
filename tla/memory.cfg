\* Any memory map of up to three regions: holes, no memory at all, any order.
SPECIFICATION Spec
CONSTANTS
    Gig = 8
    MinBase = 1
    Need = 2
    MemoryMaps <- MCMemoryMaps
INVARIANTS AllocationCorrect ClearsTheBuffer
PROPERTIES CoveredMemoryLoads
CHECK_DEADLOCK FALSE
