---------------------------- MODULE AddressSpace ----------------------------
(***************************************************************************)
(* What paging.c promises its callers: a virtual address space, that is a  *)
(* function from virtual pages to physical pages, and three operations on  *)
(* it.  Nothing here knows of tables, levels or allocation; PageTables     *)
(* implements this specification through its Mapping.                      *)
(***************************************************************************)
EXTENDS Integers

CONSTANTS
    Entries,     \* NUM_PAGE_TABLE_ENTRIES: slots of a table (512)
    PhysSlot,    \* the level 4 slot of 0xFFFF800000000000 (256)
    Watched,     \* the virtual pages whose translation is observed
    PageCalls,   \* the virtual pages map_4kb_page is called with
    BlockCalls,  \* the virtual pages map_2mb_page is called with
    Frames,      \* the physical pages the former are mapped to
    BlockFrames, \* the first pages of the 2MB pages the latter are mapped to
    Gigs,        \* the sizes setup_physical_map is called with, in GB
    Unmapped     \* the translation of a page that is not mapped

VARIABLE space

Idx == 0 .. Entries - 1

\* The fields of the union VirtAddr that select a translation.
VirtAddr == [l4 : Idx, l3 : Idx, l2 : Idx, l1 : Idx]

\* A 4KB page is the unit of physical addresses: a 1GB page is Gig of them.
Gig == Entries * Entries

\* The pages that one 2MB mapping covers.
SameBlock(u, v) == u.l4 = v.l4 /\ u.l3 = v.l3 /\ u.l2 = v.l2

\* The lower half identity maps the first 2MB, nothing else is mapped.
IdentityPage(v) == v.l4 = 0 /\ v.l3 = 0 /\ v.l2 = 0

\* The physical page that v denotes as an offset from 0xFFFF800000000000.
LinearPage(v) == v.l3 * Gig + v.l2 * Entries + v.l1

Init == space = [v \in Watched |-> IF IdentityPage(v) THEN v.l1 ELSE Unmapped]

MapPage(v, f) == space' = [space EXCEPT ![v] = f]

MapBlock(v, f) ==
    space' = [u \in Watched |-> IF SameBlock(u, v) THEN f + u.l1 ELSE space[u]]

MapPhysical(n) ==
    space' = [u \in Watched |->
                IF u.l4 = PhysSlot /\ u.l3 < n THEN LinearPage(u) ELSE space[u]]

Next ==
    \/ \E v \in PageCalls, f \in Frames : MapPage(v, f)
    \/ \E v \in BlockCalls, f \in BlockFrames : MapBlock(v, f)
    \/ \E n \in Gigs : MapPhysical(n)

Spec == Init /\ [][Next]_space
=============================================================================
