\* 4KB and 2MB mappings, until the allocator meets the stack.
SPECIFICATION Spec
CONSTANTS
    Entries = 16
    PhysSlot = 8
    FirstTable = 5
    StackPage = 12
    TestPages = 8
    Watched <- MCWatched
    PageCalls <- MCPageCalls
    BlockCalls <- MCBlockCalls
    Frames = {600, 601}
    BlockFrames = {640}
    Gigs = {1, 15}
    Residue <- MCResidue
    Unmapped = Unmapped
INVARIANTS TypeOK TableTree NoLeak TablesAddressable SelfTestPasses
PROPERTIES Implements
CHECK_DEADLOCK FALSE
