\* A drive that takes its time to show BSY.
SPECIFICATION Spec
CONSTANTS
    Words = 4
    LbaSpace = 8
    CountSpace = 4
    Sectors = 4
    BadSectors = {}
    Prompt = FALSE
    Reads <- MCReads
    Writes = {}
    MaxCalls = 1
INVARIANTS InStep
CHECK_DEADLOCK FALSE
