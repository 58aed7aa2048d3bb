-------------------------- MODULE BootMemoryProofs --------------------------
(***************************************************************************)
(* The memory that cboot_main gives to the kernel, for every set of memory *)
(* maps and every size of the kernel: it is free, and it alone is cleared. *)
(***************************************************************************)
EXTENDS BootMemory, TLAPS

TypeInv ==
    /\ memmap \in MemoryMaps
    /\ it \in 1 .. Len(memmap) + 1
    /\ offset \in 0 .. Need
    /\ pc \in {"scan", "allocate", "memset", "load", "fault", "destroyed"}

\* The search has passed over regions that will not do, all of them when it
\* found none; what it found is one that will.
Searched ==
    /\ pc = "scan" => kaddr = NoAddress
    /\ pc = "allocate" =>
         kaddr = NoAddress /\ \A k \in 1 .. it - 1 : ~Suits(memmap[k])
    /\ pc \in {"memset", "load"} /\ kaddr = NoAddress =>
         \A k \in 1 .. Len(memmap) : ~Suits(memmap[k])
    /\ kaddr # NoAddress =>
         \E k \in 1 .. Len(memmap) : Suits(memmap[k]) /\ kaddr = memmap[k].base

\* Of the memory found memset has cleared the first units, and it is left only
\* when all are; without memory it ends with its first store.  That is why the
\* test for null in CheckAddress is never reached with null.
Cleared ==
    /\ kaddr # NoAddress => cleared = Units(kaddr, offset)
    /\ kaddr = NoAddress => offset = 0
    /\ pc \in {"scan", "allocate"} => offset = 0 /\ cleared = {}
    /\ pc = "load" => offset = Need /\ kaddr # NoAddress

MemoryInv == TypeInv /\ Searched /\ Cleared

\* A map is a sequence of regions with numbers in them.
LEMMA MapFacts ==
    ASSUME NEW map \in MemoryMaps
    PROVE  /\ map \in Seq(RegionType) /\ Len(map) \in Nat
           /\ \A k \in 1 .. Len(map) :
                map[k] \in RegionType /\ map[k].base \in Nat /\ map[k].size \in Nat
  <1>1. map \in Seq(RegionType)
    BY MemoryAssumption
  <1>2. \A k \in 1 .. Len(map) : map[k] \in RegionType
    BY <1>1
  <1> QED
    BY <1>1, <1>2 DEF RegionType

\* A region that will do has an address that is not null.
LEMMA SuitsFacts ==
    ASSUME NEW r \in RegionType, Suits(r)
    PROVE  /\ r.base \in Nat /\ r.base >= MinBase /\ r.base # NoAddress
           /\ r.size \in Nat /\ r.size >= Need /\ r.type = FREE
BY MemoryAssumption DEF Suits, RegionType, NoAddress

LEMMA MemoryInvInit == Init => MemoryInv
BY MapFacts, MemoryAssumption
   DEF Init, MemoryInv, TypeInv, Searched, Cleared, NoAddress

LEMMA MemoryInvStep == MemoryInv /\ [Next]_vars => MemoryInv'
  <1> SUFFICES ASSUME MemoryInv, [Next]_vars PROVE MemoryInv'
    OBVIOUS
  <1> USE DEF MemoryInv
  <1>0. /\ Need \in Nat \ {0} /\ memmap \in Seq(RegionType) /\ Len(memmap) \in Nat
        /\ Gig \in Nat \ {0} /\ offset \in 0 .. Need
    BY MemoryAssumption, MapFacts DEF TypeInv
  <1>1. CASE ScanEntry
    BY <1>0, <1>1 DEF ScanEntry, AtEnd, TypeInv, Searched, Cleared
  <1>2. CASE SetupPhysicalMap
    BY <1>0, <1>2 DEF SetupPhysicalMap, AtEnd, TypeInv, Searched, Cleared
  <1>3. CASE TryEntry
    <2>1. it \in 1 .. Len(memmap) /\ Entry \in RegionType /\ Entry = memmap[it]
      BY <1>0, <1>3, MapFacts DEF TryEntry, AtEnd, TypeInv, Entry
    <2>2. CASE Suits(Entry)
      <3>1. kaddr' = memmap[it].base /\ kaddr' # NoAddress
        BY <1>3, <2>1, <2>2, SuitsFacts DEF TryEntry
      <3>2. Suits(memmap[it])' /\ memmap' = memmap
        BY <1>3, <2>1, <2>2 DEF TryEntry, Suits
      <3>3. /\ pc' = "memset" /\ it' = it /\ cleared' = {} /\ offset' = 0
        BY <1>3, <2>2 DEF TryEntry, Cleared
      <3>4. Units(kaddr', 0) = {}
        BY <3>1, <2>1, <2>2, SuitsFacts DEF Units
      <3>5. TypeInv'
        BY <3>2, <3>3, <1>0 DEF TypeInv
      <3>6. Searched'
        BY <2>1, <3>1, <3>2, <3>3 DEF Searched, Suits
      <3> QED
        BY <3>1, <3>3, <3>4, <3>5, <3>6 DEF Cleared, Units
    <2>3. CASE ~Suits(Entry)
      BY <1>0, <1>3, <2>1, <2>3 DEF TryEntry, TypeInv, Searched, Cleared, Suits
    <2> QED
      BY <2>2, <2>3
  <1>4. CASE NothingSuits
    <2>1. it = Len(memmap) + 1
      BY <1>0, <1>4 DEF NothingSuits, AtEnd, TypeInv
    <2> QED
      BY <1>0, <1>4, <2>1 DEF NothingSuits, TypeInv, Searched, Cleared, Suits
  <1>5. CASE Memset
    <2>1. Searched'
      BY <1>5 DEF Memset, Searched, Suits
    <2>2. TypeInv'
      BY <1>0, <1>5 DEF Memset, TypeInv
    <2>3. kaddr \in Nat
      BY <1>5, MapFacts DEF Memset, Searched, TypeInv, NoAddress
    <2>4. ASSUME kaddr # NoAddress
          PROVE  Units(kaddr, offset + 1) = Units(kaddr, offset) \cup {kaddr + offset}
      BY <1>0, <2>3 DEF Units
    <2>5. Cleared'
      BY <1>0, <1>5, <2>4 DEF Memset, Cleared, Units
    <2> QED
      BY <2>1, <2>2, <2>5
  <1>6. CASE CheckAddress
    <2>1. kaddr # NoAddress
      BY <1>0, <1>6 DEF CheckAddress, Cleared
    <2> QED
      BY <1>0, <1>6, <2>1 DEF CheckAddress, TypeInv, Searched, Cleared, Suits, Units
  <1>7. CASE UNCHANGED vars
    BY <1>7 DEF vars, TypeInv, Searched, Cleared
  <1> QED
    BY <1>1, <1>2, <1>3, <1>4, <1>5, <1>6, <1>7 DEF Next

LEMMA Invariance == Spec => []MemoryInv
BY MemoryInvInit, MemoryInvStep, PTL DEF Spec

(***************************************************************************)
(* allocate_space_for_kernel: whatever the map, the kernel's memory is     *)
(* free memory above the first MB, all of it, and none is found only when  *)
(* no region would do.                                                     *)
(***************************************************************************)
THEOREM KernelMemoryFree == Spec => []AllocationCorrect
  <1>1. MemoryInv => AllocationCorrect
    <2> SUFFICES ASSUME MemoryInv PROVE AllocationCorrect
      OBVIOUS
    <2> USE DEF MemoryInv
    <2>1. Need \in Nat /\ MinBase \in Nat /\ memmap \in MemoryMaps
      BY MemoryAssumption DEF TypeInv
    <2>2. ASSUME kaddr # NoAddress
          PROVE  Units(kaddr, Need) \subseteq FreeAboveLow
      <3>1. PICK k \in 1 .. Len(memmap) : Suits(memmap[k]) /\ kaddr = memmap[k].base
        BY <2>2 DEF Searched
      <3> DEFINE r == memmap[k]
      <3>2. /\ r \in Regions /\ r.base \in Nat /\ r.base >= MinBase
            /\ r.size \in Nat /\ r.size >= Need /\ r.type = FREE
        BY <2>1, <3>1, MapFacts, SuitsFacts DEF Regions
      <3>3. \A u \in Units(kaddr, Need) :
              u \in Units(r.base, r.size) /\ u \notin Units(0, MinBase)
        BY <2>1, <3>1, <3>2 DEF Units
      <3> HIDE DEF r
      <3> QED
        BY <3>2, <3>3 DEF FreeAboveLow, FreeMemory
    <2>3. ASSUME pc \in {"memset", "load"}, kaddr = NoAddress, NEW q \in Regions,
                 q.type = FREE, q.size >= Need
          PROVE  q.base < MinBase
      <3>1. PICK k \in 1 .. Len(memmap) : q = memmap[k]
        BY DEF Regions
      <3>2. q.base \in Nat /\ q.size \in Nat /\ ~Suits(q)
        BY <2>1, <2>3, <3>1, MapFacts DEF Searched
      <3> QED
        BY <2>1, <2>3, <3>2 DEF Suits
    <2> QED
      BY <2>2, <2>3 DEF AllocationCorrect, Buffer
  <1> QED
    BY <1>1, Invariance, PTL

(***************************************************************************)
(* memset in cboot_main: of the memory above null it clears the kernel's   *)
(* and no other, and all of it before the kernel is loaded.                *)
(***************************************************************************)
THEOREM KernelMemoryCleared == Spec => []ClearsTheBuffer
  <1>1. MemoryInv => ClearsTheBuffer
    <2> SUFFICES ASSUME MemoryInv PROVE ClearsTheBuffer
      OBVIOUS
    <2>1. /\ Need \in Nat /\ offset \in 0 .. Need
          /\ kaddr # NoAddress => kaddr \in Nat
      BY MemoryAssumption, MapFacts DEF MemoryInv, TypeInv, Searched
    <2>2. kaddr # NoAddress => Units(kaddr, offset) \subseteq Units(kaddr, Need)
      BY <2>1 DEF Units
    <2> QED
      BY <2>1, <2>2 DEF MemoryInv, Cleared, ClearsTheBuffer, Buffer
  <1> QED
    BY <1>1, Invariance, PTL
=============================================================================
