\* A kernel with one segment of a page and a bit.
SPECIFICATION LoadSpec
CONSTANTS
    Entries = 16
    PhysSlot = 8
    KernelSlot = 9
    FirstTable = 5
    StackPage = 12
    TestPages = 8
    PageSize = 3
    CodePage = 600
    BufferPages = 4
    Images <- TwoPageImages
    Watched <- MCWatched
    PageCalls <- KernelPages
    BlockCalls = {}
    Frames <- BufferFrames
    BlockFrames = {}
    Gigs = {3}
    Residue <- MCResidue
    Unmapped = Unmapped
INVARIANTS LoadedSegmentsVisible
CHECK_DEADLOCK FALSE
