\* Archives of up to three small files and directories, some with a prefix.
SPECIFICATION Spec
CONSTANTS
    SectorSize = 4
    U32 = 64
    CountSpace = 4
    Archives <- SmallArchives
    Paths <- MCPaths
    MaxListed = 3
INVARIANTS OnHeader SizeCorrect LoadCorrect ListComplete
PROPERTIES ScansReturn
CHECK_DEADLOCK FALSE
