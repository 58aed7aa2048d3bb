\* A link before the file.
SPECIFICATION Spec
CONSTANTS
    SectorSize = 4
    U32 = 64
    CountSpace = 4
    Archives <- LinkArchives
    Paths <- MCPaths
    MaxListed = 3
PROPERTIES ScansReturn
CHECK_DEADLOCK FALSE
