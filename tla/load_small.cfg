\* Kernels whose segments are shorter than a page.
SPECIFICATION LoadSpec
CONSTANTS
    Entries = 16
    PhysSlot = 8
    KernelSlot = 9
    FirstTable = 5
    StackPage = 12
    TestPages = 8
    PageSize = 3
    CodePage = 600
    BufferPages = 4
    Images <- SmallImages
    Watched <- MCWatched
    PageCalls <- KernelPages
    BlockCalls = {}
    Frames <- BufferFrames
    BlockFrames = {}
    Gigs = {3}
    Residue <- MCResidue
    Unmapped = Unmapped
INVARIANTS LoadedSegmentsVisible OnlySegmentPagesMapped TlbCoherent
PROPERTIES UsesPageTables KernelEntered
CHECK_DEADLOCK FALSE
