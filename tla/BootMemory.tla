----------------------------- MODULE BootMemory -----------------------------
(***************************************************************************)
(* How cboot_main finds memory for the kernel: scan_bios_memmap adds up    *)
(* the free memory, setup_physical_map maps that much of the address space *)
(* from 0, allocate_space_for_kernel takes the first region that is large  *)
(* enough and memset clears it through the map.  Memory is counted in      *)
(* units; the partition lookup between scan and map and the size lookup    *)
(* after it do not touch this state.                                       *)
(***************************************************************************)
EXTENDS Integers, Sequences, FiniteSets

CONSTANTS
    Gig,        \* units in a GB
    MinBase,    \* MINBASE, the end of the low memory (1MB)
    Need,       \* size of the kernel's memory (256MB)
    MemoryMaps  \* the maps the BIOS may have left at 0x500

VARIABLES
    memmap,     \* the entries of the map before the one of type 0
    it,         \* the entry looked at by the current loop
    total,      \* total_mem
    gigs,       \* num_gigs, how much is mapped at 0xFFFF800000000000
    kaddr,      \* what allocate_space_for_kernel returned, as a physical unit
    offset,     \* units memset has cleared
    cleared,    \* the physical units it has cleared
    pc

vars == <<memmap, it, total, gigs, kaddr, offset, cleared, pc>>

FREE == 1
RESERVED == 2  \* stands for every type from 2 on

\* The null pointer, which is not the address of any region above MinBase.
NoAddress == 0

RegionType == [base : Nat, size : Nat \ {0}, type : {FREE, RESERVED}]

Apart(r, q) == r.base + r.size <= q.base \/ q.base + q.size <= r.base

ASSUME MemoryAssumption ==
    /\ Gig \in Nat \ {0} /\ MinBase \in Nat \ {0} /\ Need \in Nat \ {0}
    /\ MemoryMaps \subseteq Seq(RegionType)
    /\ \A map \in MemoryMaps : \A k \in 1 .. Len(map) : \A j \in 1 .. k - 1 :
         Apart(map[j], map[k])

Units(base, n) == base .. base + n - 1
Entry == memmap[it]
AtEnd == it > Len(memmap)

Init ==
    /\ memmap \in MemoryMaps
    /\ it = 1 /\ total = 0 /\ gigs = 0
    /\ kaddr = NoAddress /\ offset = 0 /\ cleared = {}
    /\ pc = "scan"

ScanEntry ==
    /\ pc = "scan" /\ ~AtEnd
    /\ total' = IF Entry.type = FREE THEN total + Entry.size ELSE total
    /\ it' = it + 1
    /\ UNCHANGED <<memmap, gigs, kaddr, offset, cleared, pc>>

\* Fault: rounded down.
SetupPhysicalMapDown ==
    /\ pc = "scan" /\ AtEnd
    /\ gigs' = total \div Gig
    /\ pc' = IF gigs' = 0 THEN "fault" ELSE "allocate"
    /\ it' = 1
    /\ UNCHANGED <<memmap, total, kaddr, offset, cleared>>

\* num_gigs is rounded up.  Without a single GB the self test that ends
\* setup_physical_map faults, and the page fault handler halts.
SetupPhysicalMap ==
    /\ pc = "scan" /\ AtEnd
    /\ gigs' = (total + Gig - 1) \div Gig
    /\ pc' = IF gigs' = 0 THEN "fault" ELSE "allocate"
    /\ it' = 1
    /\ UNCHANGED <<memmap, total, kaddr, offset, cleared>>

\* Fault: low memory is not excluded.
SuitsAnywhere(e) == ~(e.size < Need) /\ e.type = FREE

\* The three tests, in the order of the code.
Suits(e) == ~(e.base < MinBase) /\ ~(e.size < Need) /\ e.type = FREE

TryEntry ==
    /\ pc = "allocate" /\ ~AtEnd
    /\ kaddr' = IF Suits(Entry) THEN Entry.base ELSE kaddr
    /\ pc' = IF Suits(Entry) THEN "memset" ELSE "allocate"
    /\ it' = IF Suits(Entry) THEN it ELSE it + 1
    /\ UNCHANGED <<memmap, total, gigs, offset, cleared>>

NothingSuits ==
    /\ pc = "allocate" /\ AtEnd
    /\ pc' = "memset"
    /\ UNCHANGED <<memmap, it, total, gigs, kaddr, offset, cleared>>

\* Fault: one more than the size.
MemsetOneMore ==
    /\ pc = "memset" /\ offset <= Need /\ kaddr # NoAddress
    /\ cleared' = cleared \cup {kaddr + offset}
    /\ offset' = offset + 1
    /\ UNCHANGED <<memmap, it, total, gigs, kaddr, pc>>

\* memset(kaddr, 0, 256MB), which comes before the test for null.  With null
\* it clears the identity mapped low memory, where the stack, the page tables
\* and the program itself are.
Memset ==
    /\ pc = "memset" /\ offset < Need
    /\ \/ /\ kaddr = NoAddress
          /\ cleared' = cleared \cup Units(0, MinBase)
          /\ pc' = "destroyed"
          /\ UNCHANGED offset
       \/ /\ kaddr # NoAddress /\ kaddr + offset < gigs * Gig
          /\ cleared' = cleared \cup {kaddr + offset}
          /\ offset' = offset + 1
          /\ UNCHANGED pc
       \/ /\ kaddr # NoAddress /\ ~(kaddr + offset < gigs * Gig)
          /\ pc' = "fault"
          /\ UNCHANGED <<cleared, offset>>
    /\ UNCHANGED <<memmap, it, total, gigs, kaddr>>

\* if(kaddr == 0), "Not Enough Memory to Load Kernel" and halt
CheckAddress ==
    /\ pc = "memset" /\ offset = Need
    /\ pc' = IF kaddr = NoAddress THEN "halted" ELSE "load"
    /\ UNCHANGED <<memmap, it, total, gigs, kaddr, offset, cleared>>

Next == \/ ScanEntry \/ SetupPhysicalMap \/ TryEntry \/ NothingSuits
        \/ Memset \/ CheckAddress

Spec == Init /\ [][Next]_vars /\ WF_vars(Next)

-----------------------------------------------------------------------------
(* Properties.                                                             *)

Regions == {memmap[k] : k \in 1 .. Len(memmap)}
FreeMemory == UNION {Units(r.base, r.size) : r \in {q \in Regions : q.type = FREE}}
FreeAboveLow == FreeMemory \ Units(0, MinBase)
Buffer == IF kaddr = NoAddress THEN {} ELSE Units(kaddr, Need)

(***************************************************************************)
(* The kernel's memory is free memory, all of it, above the first MB, in   *)
(* every map whatever the order of its entries; and when no memory was     *)
(* found there is no region that would have done.                          *)
(***************************************************************************)
AllocationCorrect ==
    /\ Buffer \subseteq FreeAboveLow
    /\ pc \in {"memset", "load"} /\ kaddr = NoAddress =>
         \A r \in Regions : r.type = FREE /\ r.size >= Need => r.base < MinBase

(***************************************************************************)
(* memset never clears memory that is not the kernel's, and the kernel is  *)
(* loaded into memory that is zero: map_kernel copies only the bytes of    *)
(* the file and leaves the rest of a segment as it finds it.               *)
(***************************************************************************)
ClearsTheBuffer ==
    /\ kaddr # NoAddress => cleared \subseteq Buffer
    /\ pc = "load" => kaddr # NoAddress /\ cleared = Buffer

(***************************************************************************)
(* "Not Enough Memory to Load Kernel": the search for memory ends with the *)
(* kernel being loaded or with that message.                               *)
(***************************************************************************)
SearchDecides == <>(pc \in {"load", "halted"})

\* The regions that could hold the kernel.
LargeRegions == {r \in Regions : r.type = FREE /\ r.base >= MinBase /\ r.size >= Need}

(***************************************************************************)
(* "the entire physical memory region is going to be mapped": what is      *)
(* mapped is the sum of the free memory.  That is enough as long as there  *)
(* is in all as much free memory as lies below the end of what the kernel  *)
(* takes, holes or not: if any region will do, one is cleared without a    *)
(* fault and loading starts.  A PC of 8GB with its holes below 1MB and 4GB *)
(* meets this; a map whose holes are larger than the free memory above     *)
(* them does not, and memset may fault.                                    *)
(***************************************************************************)
CoveredMemoryLoads ==
    LargeRegions # {}
      /\ (\A r \in LargeRegions : r.base + Need <= Cardinality(FreeMemory))
    => <>(pc = "load")
=============================================================================
