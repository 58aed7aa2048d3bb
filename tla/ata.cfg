\* Reads and writes of one sector; a sector that fails, and sectors beyond
\* the end of the disk.
SPECIFICATION Spec
CONSTANTS
    Words = 4
    LbaSpace = 8
    CountSpace = 4
    Sectors = 4
    BadSectors = {2}
    Prompt = TRUE
    Reads <- MCReads
    Writes <- MCWrites
    MaxCalls = 3
INVARIANTS TypeOK DriveFinished InStep ReadDelivers WriteStores
PROPERTIES CallsReturn
CHECK_DEADLOCK FALSE
