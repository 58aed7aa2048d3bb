----------------------------- MODULE PageTables -----------------------------
(***************************************************************************)
(* The four level page tables of bootloader/cboot/src/paging.c: the        *)
(* watermark allocator, the map of physical memory, the 4KB and 2MB map    *)
(* functions, and the tables start.asm leaves behind.  Physical addresses  *)
(* are counted in 4KB pages.  The state of the tables is one record pt:    *)
(*   pt.mem  the content of every page that is, or may become, a table     *)
(*   pt.it   the watermark: the page the next table is taken from          *)
(* so that the map functions are operators that KernelLoad uses too.       *)
(***************************************************************************)
EXTENDS Integers, FiniteSets

CONSTANTS
    Entries,     \* NUM_PAGE_TABLE_ENTRIES (512)
    PhysSlot,    \* level 4 slot of 0xFFFF800000000000 (256)
    FirstTable,  \* page of the first table the allocator hands out (0x20)
    StackPage,   \* first page the allocator must not reach: the stack grows
                 \* down from 0x6FFF0 towards the tables
    TestPages,   \* pages compared by the self test (1MB: 256)
    Watched,     \* virtual pages whose translation is observed
    PageCalls,   \* virtual pages map_4kb_page is called with
    BlockCalls,  \* virtual pages map_2mb_page is called with
    Frames,      \* physical pages the former are mapped to
    BlockFrames, \* physical 2MB pages the latter are mapped to, by first page
    Gigs,        \* sizes setup_physical_map is called with, in GB
    Residue,     \* entries that uncleared RAM may hold
    Unmapped     \* the translation of a page that is not mapped

VARIABLES pt, status

vars == <<pt, status>>

Idx == 0 .. Entries - 1
VirtAddr == [l4 : Idx, l3 : Idx, l2 : Idx, l1 : Idx]
Entry == [present : BOOLEAN, huge : BOOLEAN, addr : Nat]
Status == {"boot", "running", "stopped", "smashed", "wild"}

\* start.asm builds the boot tables at 0x1000, 0x2000, 0x3000 and 0x4000.
Root == 1
BootTables == 1 .. 4

\* Every page that can be written as a table.  One call takes at most three
\* tables, so the first call that overruns the stack stays below StackPage+3.
TablePages == BootTables \cup (FirstTable .. StackPage + 2)

ASSUME SizesAssumption ==
    /\ Entries \in Nat \ {0, 1}
    /\ PhysSlot \in 1 .. Entries - 1
    /\ FirstTable \in Nat /\ StackPage \in Nat
    /\ 4 < FirstTable /\ FirstTable < StackPage
    /\ TestPages \in 1 .. Entries

ASSUME CallsAssumption ==
    /\ Watched \subseteq VirtAddr
    /\ PageCalls \subseteq VirtAddr
    /\ BlockCalls \subseteq VirtAddr
    /\ Frames \subseteq Nat /\ BlockFrames \subseteq Nat
    /\ Gigs \subseteq Nat
    /\ Residue \subseteq Entry /\ Residue # {}
    /\ Unmapped \notin Nat

Gig == Entries * Entries

-----------------------------------------------------------------------------
(* Entries and tables.                                                     *)

NullEntry == [present |-> FALSE, huge |-> FALSE, addr |-> 0]
NullTable == [i \in Idx |-> NullEntry]

\* SET_PTE_ADDRESS, then present: the other bits keep what they were.
Point(e, page) == [e EXCEPT !.addr = page, !.present = TRUE]

Leaf(page) == Point(NullEntry, page)
HugeLeaf(page) == [Leaf(page) EXCEPT !.huge = TRUE]

\* setup_and_enable_paging: one table per level, 512 identity mapped pages.
BootTable(p) ==
    [i \in Idx |-> IF p = 4 THEN Leaf(i)
                   ELSE IF i = 0 THEN Leaf(p + 1) ELSE NullEntry]

-----------------------------------------------------------------------------
(* The MMU: what a virtual page is translated to by the tables in m.       *)

Translate(m, v) ==
    LET e4 == m[Root][v.l4]
        e3 == m[e4.addr][v.l3]
        e2 == m[e3.addr][v.l2]
        e1 == m[e2.addr][v.l1]
    IN  IF ~e4.present THEN Unmapped
        ELSE IF ~e3.present THEN Unmapped
        ELSE IF e3.huge THEN e3.addr + v.l2 * Entries + v.l1
        ELSE IF ~e2.present THEN Unmapped
        ELSE IF e2.huge THEN e2.addr + v.l1
        ELSE IF ~e1.present THEN Unmapped
        ELSE e1.addr

Mapping == [v \in Watched |-> Translate(pt.mem, v)]

-----------------------------------------------------------------------------
(* The operations of paging.c on the record s = [mem, it].                 *)

\* Faults: the watermark does not move; the page is not cleared.
NewPageTableStuck(s) == [s EXCEPT !.mem[s.it] = NullTable]
NewPageTableDirty(s) == [s EXCEPT !.it = s.it + 1]

\* new_page_table: clear the page at the watermark, then move the watermark.
NewPageTable(s) ==
    [mem |-> [s.mem EXCEPT ![s.it] = NullTable], it |-> s.it + 1]

\* Fault: a table is allocated whether one is present or not.
DescendAlways(s, t, i) ==
    [NewPageTable(s) EXCEPT !.mem[t][i] = Point(s.mem[t][i], s.it)]

\* The branch both map functions repeat at each level: if slot i of table t
\* is not present, allocate a table and let the slot point to it.
Descend(s, t, i) ==
    IF s.mem[t][i].present THEN s
    ELSE [NewPageTable(s) EXCEPT !.mem[t][i] = Point(s.mem[t][i], s.it)]

\* GET_PTE_ADDRESS of slot i of table t.
Child(s, t, i) == s.mem[t][i].addr

WithP3(s, v) == Descend(s, Root, v.l4)
\* Fault: the p3 table of the lower half is taken for every address.
P3OfSlot0(s, v) == Child(WithP3(s, v), Root, 0)
P3(s, v) == Child(WithP3(s, v), Root, v.l4)
WithP2(s, v) == Descend(WithP3(s, v), P3(s, v), v.l3)
P2(s, v) == Child(WithP2(s, v), P3(s, v), v.l3)
WithP1(s, v) == Descend(WithP2(s, v), P2(s, v), v.l2)
P1(s, v) == Child(WithP1(s, v), P2(s, v), v.l2)

\* Fault: the level 1 index is used for a level 2 table.
Map2MBAtL1(s, v, f) == [WithP2(s, v) EXCEPT !.mem[P2(s, v)][v.l1] = HugeLeaf(f)]

\* map_4kb_page and map_2mb_page: the last level is overwritten whatever it
\* held, and no translation cached by the processor is invalidated.
Map4KB(s, v, f) == [WithP1(s, v) EXCEPT !.mem[P1(s, v)][v.l1] = Leaf(f)]
Map2MB(s, v, f) == [WithP2(s, v) EXCEPT !.mem[P2(s, v)][v.l2] = HugeLeaf(f)]

\* Neither function looks at huge_page on its way down: a present huge entry
\* is taken for a pointer to a table, in the middle of somebody's data.
Huge1GB(s, v) == LET e == WithP3(s, v).mem[P3(s, v)][v.l3]
                 IN  e.present /\ e.huge
Huge2MB(s, v) == LET e == WithP2(s, v).mem[P2(s, v)][v.l2]
                 IN  e.present /\ e.huge

\* The level 3 table of setup_physical_map after n rounds of its loop: slot i
\* was last written in the last round k < n with k % Entries = i.
PhysTable(n) ==
    [i \in Idx |->
        IF i < n
        THEN HugeLeaf(Gig * (i + Entries * ((n - 1 - i) \div Entries)))
        ELSE NullEntry]

\* Fault: a part of 512GB counts as all of it.
PhysRootRoundedUp(n) == (PhysSlot + ((n + Entries - 1) \div Entries)) % Entries

\* The level 4 slot is taken from virtaddr after the loop moved it n GB up.
PhysRoot(n) == (PhysSlot + (n \div Entries)) % Entries

PhysicalMap(s, n) ==
    [mem |-> [NewPageTable(s).mem EXCEPT ![s.it] = PhysTable(n),
                                         ![Root][PhysRoot(n)] = Leaf(s.it)],
     it  |-> s.it + 1]

\* The self test compares the first megabyte through both maps: it passes
\* when both translate to the same pages, and faults on a missing one.
SelfTest(m) ==
    \A p \in 0 .. TestPages - 1 :
        /\ Translate(m, [l4 |-> PhysSlot, l3 |-> 0, l2 |-> 0, l1 |-> p]) # Unmapped
        /\ Translate(m, [l4 |-> PhysSlot, l3 |-> 0, l2 |-> 0, l1 |-> p])
             = Translate(m, [l4 |-> 0, l3 |-> 0, l2 |-> 0, l1 |-> p])

-----------------------------------------------------------------------------
(* The state machine: boot tables, setup_physical_map, then map calls.     *)

BootState(junk) ==
    [mem |-> [p \in TablePages |-> IF p \in BootTables THEN BootTable(p)
                                   ELSE [i \in Idx |-> junk]],
     it  |-> FirstTable]

Init ==
    /\ pt \in {BootState(junk) : junk \in Residue}
    /\ status = "boot"

\* A failed self test ends in hlt, a fault in the page fault handler's hlt.
SetupPhysicalMap(n) ==
    /\ status = "boot"
    /\ pt' = PhysicalMap(pt, n)
    /\ status' = IF SelfTest(pt'.mem) THEN "running" ELSE "stopped"

\* Fault of the model: running on with a stack that was cleared.
StatusUnchanged(s) == status

\* The allocator has no limit: beyond StackPage it clears the stack.
StatusAfter(s) == IF s.it > StackPage THEN "smashed" ELSE status

MapPage(v, f) ==
    /\ status = "running"
    /\ ~Huge1GB(pt, v) /\ ~Huge2MB(pt, v)
    /\ pt' = Map4KB(pt, v, f)
    /\ status' = StatusAfter(pt')

MapBlock(v, f) ==
    /\ status = "running"
    /\ ~Huge1GB(pt, v)
    /\ pt' = Map2MB(pt, v, f)
    /\ status' = StatusAfter(pt')

\* A call below a huge page writes into data: what it reads there is not
\* known, and nothing is claimed of the tables afterwards.
MapUnderHuge ==
    /\ status = "running"
    /\ \/ \E v \in PageCalls : ~(~Huge1GB(pt, v) /\ ~Huge2MB(pt, v))
       \/ \E v \in BlockCalls : Huge1GB(pt, v)
    /\ status' = "wild"
    /\ UNCHANGED pt

Next ==
    \/ \E n \in Gigs : SetupPhysicalMap(n)
    \/ \E v \in PageCalls, f \in Frames : MapPage(v, f)
    \/ \E v \in BlockCalls, f \in BlockFrames : MapBlock(v, f)
    \/ MapUnderHuge

Spec == Init /\ [][Next]_vars

-----------------------------------------------------------------------------
(* Properties.                                                             *)

(***************************************************************************)
(* Types, and the one bound the code does not enforce: as long as the      *)
(* bootloader runs, the watermark has not passed the stack.                *)
(***************************************************************************)
TypeOK ==
    /\ pt \in [mem : [TablePages -> [Idx -> Entry]], it : FirstTable .. StackPage + 3]
    /\ status \in Status
    /\ status # "smashed" => pt.it <= StackPage

\* The tables handed out so far, the boot tables among them.
Allocated == BootTables \cup (FirstTable .. pt.it - 1)

\* The slots of the tables in T that point to a table.
PointersIn(T) ==
    {x \in T \X Idx : pt.mem[x[1]][x[2]].present /\ ~pt.mem[x[1]][x[2]].huge}
Target(x) == pt.mem[x[1]][x[2]].addr
Below(T) == {Target(x) : x \in PointersIn(T)}

Level3 == Below({Root})
Level2 == Below(Level3)
Level1 == Below(Level2)
Pointers == PointersIn({Root} \cup Level3 \cup Level2)

(***************************************************************************)
(* The tables form a tree rooted at p4: what a slot points to is a table   *)
(* the allocator handed out (never one it will hand out again), and no two *)
(* slots point to the same table.  This is what makes the walk of          *)
(* map_4kb_page for one page unable to change the translation of another.  *)
(***************************************************************************)
TableTree ==
    /\ \A x \in Pointers : Target(x) \in Allocated \ {Root}
    /\ \A x, y \in Pointers : Target(x) = Target(y) => x = y

Lost == Allocated \ ({Root} \cup Level3 \cup Level2 \cup Level1)
HugeBlocks ==
    {x \in Level2 \X Idx : pt.mem[x[1]][x[2]].present /\ pt.mem[x[1]][x[2]].huge}

(***************************************************************************)
(* The allocator cannot free, and its space ends at the stack: a table     *)
(* that no walk from p4 reaches is lost.  Each 2MB mapping loses at most   *)
(* the one table it replaces, and map_4kb_page loses none.                 *)
(***************************************************************************)
NoLeak == Cardinality(Lost) <= Cardinality(HugeBlocks)

(***************************************************************************)
(* paging.c dereferences the physical address of a table as a pointer: it  *)
(* relies on the identity map of the low memory surviving every mapping.   *)
(***************************************************************************)
TablesAddressable ==
    \A p \in Allocated :
        Translate(pt.mem, [l4 |-> 0, l3 |-> 0, l2 |-> 0, l1 |-> p]) = p

(***************************************************************************)
(* The self test that ends setup_physical_map never stops the machine: for *)
(* every size of memory from 1GB to less than 512GB the map is where       *)
(* physical_to_virtual_address expects it.                                 *)
(***************************************************************************)
SelfTestPasses == status # "stopped"

(***************************************************************************)
(* Each call of the map functions changes the address space as its name    *)
(* says and in no other place: the page asked for gets the frame asked     *)
(* for, and the translation of every other page, identity map and map of   *)
(* physical memory included, stays what it was.                            *)
(***************************************************************************)
AS == INSTANCE AddressSpace WITH space <- Mapping
Implements == AS!Spec
=============================================================================
