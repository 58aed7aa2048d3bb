\* A machine with too little memory.
SPECIFICATION Spec
CONSTANTS
    Gig = 8
    MinBase = 1
    Need = 2
    MemoryMaps <- SmallMaps
PROPERTIES SearchDecides
CHECK_DEADLOCK FALSE
