----------------------------- MODULE BootProofs -----------------------------
(***************************************************************************)
(* The boot of every machine, for every size of the memory map's room and  *)
(* of the partition buffer.  The invariant follows what each stage leaves  *)
(* to the next: the map in low memory, the copy of it that was scanned,    *)
(* the partition, the memory and the file.                                 *)
(***************************************************************************)
EXTENDS Boot, SequenceTheorems, TLAPS

\* The places after the map is stored, after low memory is cleared above it,
\* and from each later stage on.
AfterMap == {"a20", "check_cpuid", "check_long_mode", "enable_paging"}
AfterPaging == {"scan_memmap"} \cup AfterScan
AfterAllocate == {"memset", "load_file", "check_elf", "map_kernel", "kernel"}
AfterLookUp == {"allocate"} \cup AfterAllocate
AfterMemset == AfterAllocate \ {"memset"}
AfterLoad == {"check_elf", "map_kernel", "kernel"}

TypeInv ==
    /\ machine \in Machines
    /\ low \in [1 .. MaxSlots -> Kind]
    /\ di \in 1 .. Len(machine.bios)
    /\ it \in Nat \ {0}
    /\ seen \in Seq(Kind)
    /\ found \in BOOLEAN /\ isfound \in BOOLEAN
    /\ kaddr \in Nat
    /\ pc \in {"load_cboot", "e820"} \cup AfterMap \cup AfterPaging \cup Final

\* Memory before any entry is stored, before entry di, and after the last.
MapStored ==
    /\ pc = "load_cboot" => di = 1 /\ low = [s \in 1 .. MaxSlots |-> machine.rest]
    /\ pc = "e820" =>
         /\ \A k \in 1 .. di - 1 : low[k] = machine.bios[k]
         /\ \A k \in di + 1 .. MaxSlots : low[k] = machine.rest
    /\ pc \in AfterMap \cup AfterPaging =>
         \A k \in 1 .. Len(machine.bios) :
             k <= Slots \/ pc \in AfterMap => low[k] = machine.bios[k]
    /\ pc \in AfterMap \cup AfterPaging =>
         \A k \in Len(machine.bios) + 1 .. Slots : low[k] = machine.rest
    /\ pc \in AfterPaging => \A k \in Slots + 1 .. MaxSlots : low[k] = "none"

\* What was seen is the map up to the entry that ends it, all of it once the
\* scan is over.
SeenIsMap ==
    /\ pc \in AfterPaging =>
         /\ Len(seen) <= Slots
         /\ \A k \in 1 .. Len(seen) : seen[k] = low[k] /\ low[k] # "none"
    /\ pc \in AfterScan => low[Len(seen) + 1] = "none"
    /\ pc = "scan_memmap" => it = Len(seen) + 1
    /\ pc \notin AfterPaging \cup Final => it = 1 /\ seen = <<>>

\* The entries of the partition table looked at so far, and the loop that
\* never looks at another than the first.
TriedEntries == {k \in 1 .. Len(TableRead) : pc \in AfterFind \/ k < it}
Stuck == machine.step = 0 /\ Len(TableRead) # 0

Hit(k) == TableRead[k].name = RootName

FirstHit(k) ==
    /\ k \in TriedEntries /\ Hit(k) /\ gpte = TableRead[k].lba
    /\ \A l \in 1 .. k - 1 : ~Hit(l)

Partition ==
    /\ pc \in AfterScan /\ ~Stuck =>
         \/ found /\ \E k \in TriedEntries : FirstHit(k)
         \/ ~found /\ gpte = 0 /\ \A k \in TriedEntries : ~Hit(k)
    /\ Stuck => pc \notin AfterFind /\ (pc = "find_partition" => it = 1)
    /\ pc \notin AfterScan \cup Final => ~found /\ gpte = 0

\* The search for memory; SearchSeesScannedMap says what it found.
Allocated ==
    /\ pc \in {"setup_physical_map", "look_up"} => it = 1
    /\ pc \notin AfterAllocate \cup Final => kaddr = 0
    /\ pc = "allocate" =>
         it <= Len(seen) + 1 /\ \A k \in 1 .. it - 1 : seen[k] # "large"
    /\ SearchSeesScannedMap
    /\ pc \in AfterMemset => kaddr # 0

\* What the size lookup says and what was loaded.
Loaded ==
    /\ pc \in AfterLookUp => isfound = HasFile
    /\ pc \in AfterLoad => HasFile /\ file \in Delivered
    /\ pc \in AfterLoad \ {"check_elf"} => HasSignature

BootInv == TypeInv /\ MapStored /\ SeenIsMap /\ Partition /\ Allocated /\ Loaded

-----------------------------------------------------------------------------
\* What the assumptions say of a machine.
LEMMA MachineFacts ==
    ASSUME NEW m \in Machines
    PROVE  /\ Slots \in Nat \ {0} /\ MaxSlots \in Nat /\ Slots + 1 < MaxSlots
           /\ Len(m.bios) \in Nat /\ Len(m.bios) \in 1 .. MaxSlots - 1
           /\ \A k \in 1 .. Len(m.bios) : m.bios[k] \in Kind \ {"none"}
           /\ m.rest \in Kind /\ m.step \in {0, 1}
           /\ m.disk[0] = "no_archive"
  <1>1. MachineType(m) /\ Slots \in Nat \ {0} /\ MaxSlots \in Nat /\ Slots + 1 < MaxSlots
    BY MbrAssumption
  <1>2. m.bios \in Seq(Kind \ {"none"})
    BY <1>1 DEF MachineType
  <1>3. \A k \in 1 .. Len(m.bios) : m.bios[k] \in Kind \ {"none"}
    BY <1>2
  <1>4. m.step \in {0, 1} /\ m.disk[0] = "no_archive"
    BY BootAssumption
  <1> QED
    BY <1>1, <1>2, <1>3, <1>4 DEF MachineType

\* The stages of cboot leave the map alone and go forward.
Stages ==
    \/ ScanRegion \/ ScanEnd \/ TryPartition \/ EndOfPartitions
    \/ SetupPhysicalMap \/ LookUp \/ AllocateRegion \/ AllocateEnd \/ Memset
    \/ LoadFile \/ CheckElf \/ MapKernel

LEMMA StagesFrame ==
    ASSUME Stages
    PROVE  /\ UNCHANGED <<machine, low, di>>
           /\ pc \in AfterPaging \ Final /\ pc' \in AfterPaging \cup Final
           /\ pc \in AfterScan => pc' \in AfterScan \cup Final
  <1>1. CASE ScanRegion \/ ScanEnd \/ TryPartition \/ EndOfPartitions
    BY <1>1 DEF ScanRegion, ScanEnd, TryPartition, EndOfPartitions,
                AfterPaging, AfterScan, Final
  <1>2. CASE SetupPhysicalMap \/ LookUp \/ AllocateRegion \/ AllocateEnd
    BY <1>2 DEF SetupPhysicalMap, LookUp, AllocateRegion, AllocateEnd,
                AfterPaging, AfterScan, Final
  <1>3. CASE Memset \/ LoadFile \/ CheckElf \/ MapKernel
    BY <1>3 DEF Memset, LoadFile, CheckElf, MapKernel, AfterPaging, AfterScan, Final
  <1> QED
    BY <1>1, <1>2, <1>3 DEF Stages

\* The two checks go from one place after the map to the next, or stop.
LEMMA ChecksFrame ==
    ASSUME CheckCpuid \/ CheckLongMode
    PROVE  /\ UNCHANGED <<machine, low, di, it, seen, gpte, found, isfound, kaddr, file>>
           /\ pc \in AfterMap /\ pc' \in AfterMap \cup {"halted"}
BY DEF CheckCpuid, CheckLongMode, Check, AfterMap

-----------------------------------------------------------------------------
(* The map in low memory.                                                  *)

LEMMA MapStoredStep ==
    ASSUME TypeInv, MapStored, Next
    PROVE  MapStored'
  <1>0. /\ machine \in Machines /\ di \in 1 .. Len(machine.bios)
        /\ low \in [1 .. MaxSlots -> Kind]
    BY DEF TypeInv
  <1>1. CASE LoadCboot
    BY <1>0, <1>1, MachineFacts
       DEF LoadCboot, BiosCall, MapStored, AfterMap, AfterPaging, AfterScan
  <1>2. CASE E820Entry
    <2>1. CASE machine.defect = "e820"
      BY <1>2, <2>1 DEF E820Entry, BiosCall, MapStored, AfterMap, AfterPaging, AfterScan
    <2> DEFINE last == di = Len(machine.bios)
    <2>2. CASE machine.defect # "e820"
      <3>1. /\ machine' = machine /\ pc = "e820"
            /\ pc' = IF last THEN "a20" ELSE "e820"
            /\ di' = IF last THEN di ELSE di + 1
            /\ low' = IF last THEN [low EXCEPT ![di] = machine.bios[di]]
                      ELSE [low EXCEPT ![di] = machine.bios[di], ![di + 1] = "free"]
        BY <1>0, <1>2, <2>2, MachineFacts DEF E820Entry, BiosCall
      <3>2. /\ di \in 1 .. MaxSlots - 1 /\ di + 1 \in 1 .. MaxSlots
            /\ MaxSlots \in Nat /\ Slots \in Nat /\ Slots < MaxSlots
            /\ Len(machine.bios) \in Nat
        BY <1>0, MachineFacts
      <3>3. /\ low'[di] = machine.bios[di]
            /\ \A k \in 1 .. MaxSlots :
                 k # di /\ (last \/ k # di + 1) => low'[k] = low[k]
        BY <1>0, <3>1, <3>2
      <3>4. /\ \A k \in 1 .. di - 1 : low[k] = machine.bios[k]
            /\ \A k \in di + 1 .. MaxSlots : low[k] = machine.rest
        BY <3>1 DEF MapStored
      <3>5. /\ \A k \in 1 .. di : low'[k] = machine.bios[k]
            /\ \A k \in (IF last THEN di + 1 ELSE di + 2) .. MaxSlots : low'[k] = machine.rest
        BY <3>2, <3>3, <3>4
      <3> HIDE DEF last
      <3>6. CASE last
        BY <3>1, <3>2, <3>5, <3>6 DEF MapStored, AfterMap, AfterPaging, AfterScan, last
      <3>7. CASE ~last
        <4>1. /\ pc' = "e820" /\ machine' = machine /\ di' \in Nat
              /\ di' - 1 = di /\ di' + 1 = di + 2
          BY <3>1, <3>2, <3>7
        <4>2. /\ \A k \in 1 .. di' - 1 : low'[k] = machine'.bios[k]
              /\ \A k \in di' + 1 .. MaxSlots : low'[k] = machine'.rest
          BY <3>5, <3>7, <4>1
        <4> QED
          BY <4>1, <4>2 DEF MapStored, AfterMap, AfterPaging, AfterScan
      <3> QED
        BY <3>6, <3>7
    <2> QED
      BY <2>1, <2>2
  <1>3. CASE EnableA20
    BY <1>0, <1>3, MachineFacts
       DEF EnableA20, BiosCall, MapStored, AfterMap, AfterPaging, AfterScan
  <1>4. CASE CheckCpuid \/ CheckLongMode
    BY <1>4, ChecksFrame DEF MapStored, AfterMap, AfterPaging, AfterScan
  <1>5. CASE EnablePaging
    BY <1>0, <1>5, MachineFacts
       DEF EnablePaging, MapStored, AfterMap, AfterPaging, AfterScan
  <1>6. CASE Stages
    BY <1>6, StagesFrame DEF MapStored, AfterMap, AfterPaging, AfterScan, Final
  <1> QED
    BY <1>1, <1>2, <1>3, <1>4, <1>5, <1>6 DEF Next, FirstStage, MbrNext, Stages

-----------------------------------------------------------------------------
(* The copy of the map that was scanned.                                   *)

LEMMA FirstStageFrame ==
    ASSUME FirstStage
    PROVE  /\ UNCHANGED <<machine, it, seen, gpte, found, isfound, kaddr, file>>
           /\ pc \in {"load_cboot", "e820", "a20"}
           /\ pc' \in {"e820", "halted"} \cup AfterMap
BY DEF FirstStage, MbrNext, LoadCboot, E820Entry, EnableA20, BiosCall, AfterMap

\* A round of the scan is at an entry below the page tables.
LEMMA ScanInRoom ==
    ASSUME TypeInv, MapStored, SeenIsMap, ScanRegion
    PROVE  /\ pc = "scan_memmap" /\ it = Len(seen) + 1 /\ it \in 1 .. Slots
           /\ low[it] \in Kind \ {"none"}
  <1>1. /\ Len(seen) \in Nat /\ it \in Nat \ {0}
        /\ Slots \in Nat \ {0} /\ MaxSlots \in Nat /\ Slots + 1 < MaxSlots
    BY MachineFacts DEF TypeInv
  <1>2. pc = "scan_memmap" /\ it = Len(seen) + 1 /\ low[it] # "none" /\ Len(seen) <= Slots
    BY DEF ScanRegion, SeenIsMap, AfterPaging
  <1>3. low[Slots + 1] = "none"
    BY <1>1, <1>2 DEF MapStored, AfterPaging
  <1>4. it \in 1 .. Slots
    BY <1>1, <1>2, <1>3
  <1> QED
    BY <1>1, <1>2, <1>4 DEF TypeInv

LEMMA TypeInvStep ==
    ASSUME TypeInv, MapStored, SeenIsMap, [Next]_vars
    PROVE  TypeInv'
  <1>0. /\ machine \in Machines /\ di \in 1 .. Len(machine.bios)
        /\ low \in [1 .. MaxSlots -> Kind] /\ it \in Nat \ {0}
        /\ seen \in Seq(Kind) /\ Len(machine.bios) \in Nat
    BY MachineFacts DEF TypeInv
  <1>1. CASE FirstStage
    <2>1. low' \in [1 .. MaxSlots -> Kind]
      BY <1>0, <1>1, MachineFacts
         DEF FirstStage, MbrNext, LoadCboot, E820Entry, EnableA20, Kind
    <2>2. di' \in 1 .. Len(machine.bios)
      BY <1>0, <1>1 DEF FirstStage, MbrNext, LoadCboot, E820Entry, EnableA20
    <2> QED
      BY <1>1, <2>1, <2>2, FirstStageFrame DEF TypeInv, Final
  <1>2. CASE CheckCpuid \/ CheckLongMode
    BY <1>2, ChecksFrame DEF TypeInv, Final
  <1>3. CASE EnablePaging
    <2>1. low' \in [1 .. MaxSlots -> Kind]
      BY <1>0, <1>3 DEF EnablePaging, Kind
    <2> QED
      BY <1>3, <2>1 DEF EnablePaging, TypeInv, AfterPaging
  <1>4. CASE Stages
    <2>1. seen' \in Seq(Kind) /\ it' \in Nat \ {0}
      <3>1. CASE ScanRegion
        <4>1. low[it] \in Kind
          BY <3>1, ScanInRoom
        <4> QED
          BY <1>0, <3>1, <4>1 DEF ScanRegion
      <3>2. CASE TryPartition
        <4>1. machine.step \in {0, 1}
          BY <1>0, MachineFacts
        <4> QED
          BY <1>0, <3>2, <4>1 DEF TryPartition
      <3>3. CASE AllocateRegion \/ ScanEnd
        BY <1>0, <3>3 DEF AllocateRegion, ScanEnd
      <3>4. CASE EndOfPartitions \/ SetupPhysicalMap \/ LookUp \/ AllocateEnd
        BY <1>0, <3>4 DEF EndOfPartitions, SetupPhysicalMap, LookUp, AllocateEnd
      <3>5. CASE Memset \/ LoadFile \/ CheckElf \/ MapKernel
        BY <1>0, <3>5 DEF Memset, LoadFile, CheckElf, MapKernel
      <3> QED
        BY <1>4, <3>1, <3>2, <3>3, <3>4, <3>5 DEF Stages
    <2>2. found' \in BOOLEAN /\ isfound' \in BOOLEAN
      BY <1>4
         DEF Stages, ScanRegion, ScanEnd, TryPartition, EndOfPartitions, SetupPhysicalMap,
             LookUp, AllocateRegion, AllocateEnd, Memset, LoadFile, CheckElf, MapKernel,
             HasFile, TypeInv
    <2>3. kaddr' \in Nat
      BY <1>0, <1>4
         DEF Stages, ScanRegion, ScanEnd, TryPartition, EndOfPartitions, SetupPhysicalMap,
             LookUp, AllocateRegion, AllocateEnd, Memset, LoadFile, CheckElf, MapKernel,
             TypeInv
    <2> QED
      BY <1>4, <2>1, <2>2, <2>3, StagesFrame DEF TypeInv
  <1>5. CASE UNCHANGED vars
    BY <1>5 DEF vars, TypeInv
  <1> QED
    BY <1>1, <1>2, <1>3, <1>4, <1>5 DEF Next, Stages

LEMMA SeenIsMapStep ==
    ASSUME TypeInv, MapStored, SeenIsMap, Next
    PROVE  SeenIsMap'
  <1>0. /\ seen \in Seq(Kind) /\ Len(seen) \in Nat /\ it \in Nat \ {0}
        /\ Slots \in Nat \ {0} /\ MaxSlots \in Nat /\ Slots + 1 < MaxSlots
    BY MachineFacts DEF TypeInv
  <1>1. CASE FirstStage
    BY <1>1, FirstStageFrame DEF SeenIsMap, AfterMap, AfterPaging, AfterScan, Final
  <1>2. CASE CheckCpuid \/ CheckLongMode
    BY <1>2, ChecksFrame DEF SeenIsMap, AfterMap, AfterPaging, AfterScan, Final
  <1>3. CASE EnablePaging
    BY <1>0, <1>3 DEF EnablePaging, SeenIsMap, AfterPaging, AfterScan, Final
  <1>4. CASE ScanRegion
    <2>1. /\ pc = "scan_memmap" /\ it = Len(seen) + 1 /\ it \in 1 .. Slots
          /\ low[it] \in Kind \ {"none"}
      BY <1>4, ScanInRoom
    <2>5. /\ Len(seen') = Len(seen) + 1
          /\ \A k \in 1 .. Len(seen) : seen'[k] = seen[k]
          /\ seen'[Len(seen) + 1] = low[it]
      BY <1>0, <1>4, <2>1 DEF ScanRegion
    <2>6. \A k \in 1 .. Len(seen) : seen[k] = low[k] /\ low[k] # "none"
      BY <2>1 DEF SeenIsMap, AfterPaging
    <2>7. low' = low /\ pc' = "scan_memmap" /\ it' = it + 1
      BY <1>4, <2>1 DEF ScanRegion
    <2>8. \A k \in 1 .. Len(seen') : seen'[k] = low'[k] /\ low'[k] # "none"
      BY <1>0, <2>1, <2>5, <2>6, <2>7
    <2> QED
      BY <1>0, <2>1, <2>5, <2>7, <2>8 DEF SeenIsMap, AfterPaging, AfterScan
  <1>5. CASE ScanEnd
    BY <1>0, <1>5 DEF ScanEnd, SeenIsMap, AfterPaging, AfterScan, Final
  <1>6. CASE Stages /\ pc # "scan_memmap"
    <2>1. seen' = seen
      BY <1>6 DEF Stages, ScanRegion, ScanEnd, TryPartition, EndOfPartitions,
                  SetupPhysicalMap, LookUp, AllocateRegion, AllocateEnd, Memset,
                  LoadFile, CheckElf, MapKernel
    <2> QED
      BY <1>6, <2>1, StagesFrame DEF SeenIsMap, AfterPaging, AfterScan, Final
  <1> QED
    BY <1>1, <1>2, <1>3, <1>4, <1>5, <1>6
       DEF Next, Stages, TryPartition, EndOfPartitions, SetupPhysicalMap, LookUp,
           AllocateRegion, AllocateEnd, Memset, LoadFile, CheckElf, MapKernel

-----------------------------------------------------------------------------
(* The partition.                                                          *)

\* The table as read is the one on disk, or no entry of it has the name.
LEMMA TableFacts ==
    ASSUME machine \in Machines
    PROVE  /\ Len(TableRead) \in Nat
           /\ machine.failing \cap {"table", "table_empty"} = {} =>
                TableRead = machine.table
           /\ machine.failing \cap {"table", "table_empty"} # {} =>
                \A k \in 1 .. Len(TableRead) : ~Hit(k)
  <1>1. machine.table \in Seq([name : STRING, lba : DOMAIN machine.disk \ {0}])
        /\ InBuffer \in Nat /\ RootName # "junk"
    BY BootAssumption
  <1>2. CASE "table" \in machine.failing
    <2> DEFINE junk == [name |-> "junk", lba |-> 1]
    <2>1. TableRead = [k \in 1 .. InBuffer |-> junk]
      BY <1>2 DEF TableRead
    <2>2. TableRead \in Seq({junk})
      BY <1>1, <2>1, IsASeq
    <2>3. \A k \in 1 .. Len(TableRead) : TableRead[k] = junk
      BY <2>2, ElementOfSeq
    <2>4. Len(TableRead) \in Nat
      BY <2>2, LenProperties
    <2> QED
      BY <1>1, <1>2, <2>3, <2>4 DEF Hit
  <1>3. CASE "table" \notin machine.failing
    BY <1>1, <1>3 DEF TableRead, Hit
  <1> QED
    BY <1>2, <1>3

LEMMA PartitionStep ==
    ASSUME TypeInv, SeenIsMap, Partition, Next
    PROVE  Partition'
  <1>0. /\ machine \in Machines /\ machine.step \in {0, 1} /\ Len(TableRead) \in Nat
        /\ it \in Nat \ {0}
    BY TableFacts, MachineFacts DEF TypeInv
  <1>1. TableRead' = TableRead /\ Stuck' = Stuck /\ \A k : Hit(k)' = Hit(k)
    <2>1. machine' = machine
      BY FirstStageFrame, ChecksFrame, StagesFrame DEF Next, EnablePaging, Stages
    <2> QED
      BY <2>1 DEF TableRead, Stuck, Hit
  <1>2. CASE FirstStage \/ CheckCpuid \/ CheckLongMode \/ EnablePaging \/ ScanRegion
    BY <1>1, <1>2, FirstStageFrame, ChecksFrame
       DEF EnablePaging, ScanRegion, Partition, AfterMap, AfterScan, AfterFind, Final
  <1>3. CASE ScanEnd
    <2>1. /\ pc = "scan_memmap" /\ pc' = "find_partition" /\ it' = 1
          /\ found' = found /\ gpte' = gpte
      BY <1>3 DEF ScanEnd
    <2>2. ~found /\ gpte = 0
      BY <2>1 DEF Partition, AfterScan, Final
    <2>3. TriedEntries' = {}
      BY <1>0, <1>1, <2>1 DEF TriedEntries, AfterFind, AfterScan
    <2> QED
      BY <2>1, <2>2, <2>3 DEF Partition, AfterFind, AfterScan, Final
  <1>4. CASE TryPartition
    <2>1. /\ pc = "find_partition" /\ pc' = "find_partition" /\ it \in 1 .. Len(TableRead)
          /\ it' = it + machine.step
          /\ gpte' = IF Hit(it) /\ ~found THEN TableRead[it].lba ELSE gpte
          /\ found' = (found \/ (Hit(it) /\ ~found))
      BY <1>0, <1>4 DEF TryPartition, Hit
    <2>2. CASE Stuck
      BY <1>1, <2>1, <2>2 DEF Stuck, Partition, AfterFind, AfterScan, Final
    <2>3. CASE ~Stuck
      <3>1. machine.step = 1 /\ it' = it + 1
        BY <1>0, <2>1, <2>3 DEF Stuck
      <3>2. TriedEntries = 1 .. it - 1 /\ TriedEntries' = 1 .. it
        BY <1>0, <1>1, <2>1, <3>1 DEF TriedEntries, AfterFind
      <3>3. CASE found
        <4>1. PICK k \in TriedEntries : FirstHit(k)
          BY <2>1, <2>3, <3>3 DEF Partition, AfterScan
        <4>2. k \in TriedEntries' /\ FirstHit(k)'
          BY <1>0, <1>1, <2>1, <3>2, <3>3, <4>1 DEF FirstHit
        <4> QED
          BY <1>1, <2>1, <2>3, <3>3, <4>2 DEF Partition, AfterScan, AfterFind, Final
      <3>4. CASE ~found /\ Hit(it)
        <4>1. \A l \in 1 .. it - 1 : ~Hit(l)
          BY <2>1, <2>3, <3>2, <3>4 DEF Partition, AfterScan
        <4>2. PICK k : k = it
          OBVIOUS
        <4>3. k \in TriedEntries' /\ FirstHit(k)'
          BY <1>0, <1>1, <2>1, <3>2, <3>4, <4>1, <4>2 DEF FirstHit
        <4> QED
          BY <1>1, <2>1, <2>3, <3>4, <4>3 DEF Partition, AfterScan, AfterFind, Final
      <3>5. CASE ~found /\ ~Hit(it)
        <4>1. \A l \in 1 .. it : ~Hit(l)
          BY <1>0, <2>1, <2>3, <3>2, <3>5 DEF Partition, AfterScan
        <4> QED
          BY <1>1, <2>1, <2>3, <3>2, <3>5, <4>1 DEF Partition, AfterScan, AfterFind, Final
      <3> QED
        BY <3>3, <3>4, <3>5
    <2> QED
      BY <2>2, <2>3
  <1>5. CASE EndOfPartitions
    <2>1. /\ pc = "find_partition" /\ it > Len(TableRead)
          /\ pc' \in {"setup_physical_map", "halted"}
          /\ found' = found /\ gpte' = gpte
      BY <1>5 DEF EndOfPartitions
    <2>2. ~Stuck
      BY <1>0, <2>1 DEF Stuck, Partition
    <2>3. TriedEntries = 1 .. Len(TableRead)
      BY <1>0, <2>1 DEF TriedEntries
    <2>4. pc' # "halted" => TriedEntries' = TriedEntries
      BY <1>0, <1>1, <2>1, <2>3 DEF TriedEntries, AfterFind, AfterScan
    <2>5. pc' # "halted" => \A k : FirstHit(k)' = FirstHit(k)
      BY <1>1, <2>1, <2>4 DEF FirstHit
    <2> QED
      BY <1>1, <2>1, <2>2, <2>4, <2>5 DEF Partition, AfterScan, AfterFind, Final
  <1>6. CASE Stages /\ pc \in AfterFind
    <2>1. /\ pc' \in AfterFind \cup Final /\ found' = found /\ gpte' = gpte
      BY <1>6 DEF Stages, ScanRegion, ScanEnd, TryPartition, EndOfPartitions,
                  SetupPhysicalMap, LookUp, AllocateRegion, AllocateEnd, Memset,
                  LoadFile, CheckElf, MapKernel, AfterFind, AfterScan, Final
    <2>2. pc' \in AfterFind => TriedEntries' = TriedEntries
      BY <1>1, <1>6 DEF TriedEntries
    <2>3. pc' \in AfterFind => \A k : FirstHit(k)' = FirstHit(k)
      BY <1>1, <2>1, <2>2 DEF FirstHit
    <2> QED
      BY <1>1, <1>6, <2>1, <2>2, <2>3 DEF Partition, AfterFind, AfterScan, Final
  <1> QED
    BY <1>2, <1>3, <1>4, <1>5, <1>6
       DEF Next, Stages, SetupPhysicalMap, LookUp, AllocateRegion, AllocateEnd,
           Memset, LoadFile, CheckElf, MapKernel, AfterFind, AfterScan

-----------------------------------------------------------------------------
(* The memory and the file.                                                *)

LEMMA AllocatedStep ==
    ASSUME TypeInv, SeenIsMap, Allocated, Next
    PROVE  Allocated'
  <1>0. /\ Len(seen) \in Nat /\ it \in Nat \ {0} /\ kaddr \in Nat
    BY DEF TypeInv
  <1> USE DEF SearchSeesScannedMap
  <1>1. CASE FirstStage \/ CheckCpuid \/ CheckLongMode \/ EnablePaging
    BY <1>0, <1>1, FirstStageFrame, ChecksFrame
       DEF EnablePaging, Allocated, AfterMap, AfterMemset, AfterAllocate, Final
  <1>2. CASE ScanRegion \/ ScanEnd \/ TryPartition
    BY <1>0, <1>2
       DEF ScanRegion, ScanEnd, TryPartition, Allocated, AfterMemset, AfterAllocate, Final
  <1>3. CASE EndOfPartitions \/ SetupPhysicalMap \/ LookUp
    BY <1>0, <1>3
       DEF EndOfPartitions, SetupPhysicalMap, LookUp, Allocated,
           AfterMemset, AfterAllocate, Final
  <1>4. CASE AllocateRegion
    <2>1. /\ pc = "allocate" /\ it <= Len(seen) + 1 /\ low[Len(seen) + 1] = "none"
          /\ \A k \in 1 .. it - 1 : seen[k] # "large"
          /\ low[it] # "none" /\ seen' = seen /\ kaddr = 0
      BY <1>4 DEF AllocateRegion, Allocated, SeenIsMap, AfterScan, AfterAllocate, Final
    <2>2. it \in 1 .. Len(seen) /\ seen[it] = low[it]
      BY <1>0, <2>1 DEF SeenIsMap, AfterPaging, AfterScan
    <2>3. CASE low[it] = "large" /\ kaddr' = it /\ pc' = "memset"
      BY <1>0, <2>1, <2>2, <2>3 DEF Allocated, AfterMemset, AfterAllocate, Final
    <2>4. CASE low[it] # "large" /\ it' = it + 1 /\ UNCHANGED <<kaddr, pc>>
      BY <1>0, <2>1, <2>2, <2>4 DEF Allocated, AfterMemset, AfterAllocate, Final
    <2> QED
      BY <1>4, <2>3, <2>4 DEF AllocateRegion
  <1>5. CASE AllocateEnd
    <2>1. /\ pc = "allocate" /\ it <= Len(seen) + 1 /\ low[it] = "none"
          /\ \A k \in 1 .. it - 1 : seen[k] # "large"
          /\ seen' = seen /\ kaddr' = 0 /\ pc' = "memset"
      BY <1>5 DEF AllocateEnd, Allocated, AfterAllocate, Final
    <2>2. it = Len(seen) + 1
      BY <1>0, <2>1 DEF SeenIsMap, AfterPaging, AfterScan
    <2> QED
      BY <1>0, <2>1, <2>2 DEF Allocated, AfterMemset, AfterAllocate, Final
  <1>6. CASE Memset \/ LoadFile \/ CheckElf \/ MapKernel
    BY <1>0, <1>6
       DEF Memset, LoadFile, CheckElf, MapKernel, Allocated,
           AfterMemset, AfterAllocate, Final
  <1> QED
    BY <1>1, <1>2, <1>3, <1>4, <1>5, <1>6 DEF Next

LEMMA LoadedStep ==
    ASSUME TypeInv, Loaded, Next
    PROVE  Loaded'
  <1>1. CASE FirstStage \/ CheckCpuid \/ CheckLongMode \/ EnablePaging
    BY <1>1, FirstStageFrame, ChecksFrame
       DEF EnablePaging, Loaded, AfterMap, AfterLookUp, AfterLoad, AfterAllocate, Final
  <1>2. CASE ScanRegion \/ ScanEnd \/ TryPartition \/ EndOfPartitions \/ SetupPhysicalMap
    BY <1>2
       DEF ScanRegion, ScanEnd, TryPartition, EndOfPartitions, SetupPhysicalMap,
           Loaded, AfterLookUp, AfterLoad, AfterAllocate
  <1>3. CASE LookUp
    BY <1>3 DEF LookUp, HasFile, Loaded, AfterLookUp, AfterLoad, AfterAllocate, Final
  <1>4. CASE AllocateRegion \/ AllocateEnd \/ Memset
    BY <1>4
       DEF AllocateRegion, AllocateEnd, Memset, HasFile, Delivered, Loaded,
           AfterLookUp, AfterLoad, AfterAllocate
  <1>5. CASE LoadFile
    BY <1>5 DEF LoadFile, HasFile, Delivered, Loaded,
                AfterLookUp, AfterLoad, AfterAllocate
  <1>6. CASE CheckElf \/ MapKernel
    BY <1>6
       DEF CheckElf, MapKernel, HasFile, Delivered, HasSignature, Loaded,
           AfterLookUp, AfterLoad, AfterAllocate
  <1> QED
    BY <1>1, <1>2, <1>3, <1>4, <1>5, <1>6 DEF Next

-----------------------------------------------------------------------------
(* The invariant.                                                          *)

LEMMA BootInvInit == Init => BootInv
  <1> SUFFICES ASSUME Init PROVE BootInv
    OBVIOUS
  <1>0. /\ machine \in Machines /\ Len(machine.bios) \in 1 .. MaxSlots - 1
        /\ Len(machine.bios) \in Nat /\ machine.rest \in Kind
    BY MachineFacts DEF Init, MbrInit
  <1>1. TypeInv
    <2>1. low \in [1 .. MaxSlots -> Kind]
      BY <1>0 DEF Init, MbrInit
    <2>2. di \in 1 .. Len(machine.bios) /\ it \in Nat \ {0} /\ kaddr \in Nat
      BY <1>0 DEF Init, MbrInit
    <2>3. seen \in Seq(Kind)
      BY EmptySeq DEF Init
    <2> QED
      BY <1>0, <2>1, <2>2, <2>3 DEF Init, MbrInit, TypeInv
  <1>2. MapStored /\ SeenIsMap
    BY DEF Init, MbrInit, MapStored, SeenIsMap, AfterMap, AfterPaging, AfterScan, Final
  <1>3. Partition
    BY DEF Init, MbrInit, Partition, AfterFind, AfterScan, Final
  <1>4. Allocated /\ Loaded
    BY DEF Init, MbrInit, Allocated, SearchSeesScannedMap, Loaded,
           AfterLookUp, AfterLoad, AfterMemset, AfterAllocate, Final
  <1> QED
    BY <1>1, <1>2, <1>3, <1>4 DEF BootInv

LEMMA BootInvStep == BootInv /\ [Next]_vars => BootInv'
  <1> SUFFICES ASSUME BootInv, [Next]_vars PROVE BootInv'
    OBVIOUS
  <1>1. CASE Next
    BY <1>1, TypeInvStep, MapStoredStep, SeenIsMapStep, PartitionStep, AllocatedStep,
       LoadedStep DEF BootInv
  <1>2. CASE UNCHANGED vars
    <2>1. TypeInv' /\ MapStored' /\ SeenIsMap'
      BY <1>2 DEF vars, BootInv, TypeInv, MapStored, SeenIsMap
    <2>2. Partition'
      BY <1>2 DEF vars, BootInv, Partition, Stuck, FirstHit, Hit, TriedEntries, TableRead
    <2>3. Allocated' /\ Loaded'
      BY <1>2 DEF vars, BootInv, Allocated, SearchSeesScannedMap, Loaded, HasFile,
                  Delivered, HasSignature
    <2> QED
      BY <2>1, <2>2, <2>3 DEF BootInv
  <1> QED
    BY <1>1, <1>2

LEMMA Invariance == Spec => []BootInv
BY BootInvInit, BootInvStep, PTL DEF Spec

(***************************************************************************)
(* The loops over the memory map, which nothing bounds and nothing         *)
(* terminates, stay below the page tables on every machine.                *)
(***************************************************************************)
THEOREM MapLoopsEnd == Spec => []MapEndsAtTables
  <1>1. BootInv => MapEndsAtTables
    <2> SUFFICES ASSUME BootInv, pc \in {"scan_memmap", "allocate"}
                 PROVE  it <= Slots + 1
      BY DEF MapEndsAtTables
    <2>1. Len(seen) \in Nat /\ it \in Nat /\ Slots \in Nat
      BY MachineFacts DEF BootInv, TypeInv
    <2>2. Len(seen) <= Slots /\ it <= Len(seen) + 1
      BY <2>1 DEF BootInv, SeenIsMap, Allocated, AfterPaging, AfterScan
    <2> QED
      BY <2>1, <2>2
  <1> QED
    BY <1>1, Invariance, PTL

(***************************************************************************)
(* scan_bios_memmap goes through the BIOS's map as mbr.asm stored it.      *)
(***************************************************************************)
THEOREM ScanSeesBiosMap == Spec => []SeenIsBiosMap
  <1>1. BootInv => SeenIsBiosMap
    <2> SUFFICES ASSUME BootInv, pc \in AfterScan PROVE SeenIsBiosMap
      BY DEF SeenIsBiosMap
    <2> DEFINE b == Len(machine.bios)
               n == IF b < Slots THEN b ELSE Slots
    <2>1. /\ machine \in Machines /\ b \in Nat /\ Slots \in Nat /\ MaxSlots \in Nat
          /\ b < MaxSlots /\ Slots < MaxSlots /\ Len(seen) \in Nat
      BY MachineFacts DEF BootInv, TypeInv
    <2>2. /\ Len(seen) <= Slots /\ low[Len(seen) + 1] = "none"
          /\ \A k \in 1 .. Len(seen) : seen[k] = low[k] /\ low[k] # "none"
      BY DEF BootInv, SeenIsMap, AfterPaging
    <2>3. /\ \A k \in 1 .. n : low[k] = machine.bios[k]
          /\ \A k \in b + 1 .. Slots : low[k] = machine.rest
      BY <2>1 DEF BootInv, MapStored, AfterPaging
    <2>4. \A k \in 1 .. n : low[k] # "none"
      BY <2>1, <2>3, MachineFacts
    <2>5. Len(seen) >= n
      BY <2>1, <2>2, <2>4
    <2>6. \A k \in 1 .. n : seen[k] = machine.bios[k]
      BY <2>1, <2>2, <2>3, <2>5
    <2>7. machine.rest = "none" => Len(seen) = n
      BY <2>1, <2>2, <2>3, <2>5
    <2> QED
      BY <2>5, <2>6, <2>7 DEF SeenIsBiosMap
  <1> QED
    BY <1>1, Invariance, PTL

(***************************************************************************)
(* allocate_space_for_kernel searches the map that was scanned.            *)
(***************************************************************************)
THEOREM SearchSeesSameMap == Spec => []SearchSeesScannedMap
  <1>1. BootInv => SearchSeesScannedMap
    BY DEF BootInv, Allocated
  <1> QED
    BY <1>1, Invariance, PTL

\* The entry that was taken is the first of the name in the table on disk.
LEMMA FirstPartition == BootInv => PartitionIsFirst
  <1> SUFFICES ASSUME BootInv, pc \in AfterFind PROVE PartitionIsFirst
    BY DEF PartitionIsFirst
  <1> DEFINE readable == machine.failing \cap {"table", "table_empty"} = {}
  <1>1. machine \in Machines /\ pc \in AfterScan /\ ~Stuck
    BY DEF BootInv, TypeInv, Partition, AfterFind
  <1>2. TriedEntries = 1 .. Len(TableRead)
    BY <1>1, TableFacts DEF TriedEntries
  <1>3. CASE readable
    <2>1. TableRead = machine.table /\ Len(machine.table) \in Nat
      BY <1>1, <1>3, TableFacts
    <2>2. Roots = {k \in TriedEntries : Hit(k)}
      BY <1>2, <2>1 DEF Roots, Hit
    <2>3. ASSUME found, NEW k \in TriedEntries, FirstHit(k)
          PROVE  k = FirstRoot /\ gpte = machine.table[FirstRoot].lba
      <3>1. k \in Roots /\ k \in Nat /\ Roots \subseteq Nat
        BY <1>2, <2>1, <2>2, <2>3 DEF FirstHit
      <3>2. \A l \in Roots : k <= l
        BY <1>2, <2>1, <2>2, <2>3, <3>1 DEF FirstHit
      <3>3. \A l \in Roots : (\A m \in Roots : l <= m) => l = k
        BY <3>1, <3>2
      <3>4. k = FirstRoot
        BY <3>1, <3>2, <3>3 DEF FirstRoot
      <3> QED
        BY <2>1, <2>3, <3>4 DEF FirstHit
    <2>4. CASE found
      <3>1. PICK k \in TriedEntries : FirstHit(k)
        BY <1>1, <2>4 DEF BootInv, Partition
      <3>2. Roots # {} /\ gpte = machine.table[FirstRoot].lba
        BY <2>2, <2>3, <2>4, <3>1 DEF FirstHit
      <3> QED
        BY <1>3, <2>4, <3>2 DEF PartitionIsFirst
    <2>5. CASE ~found
      <3>1. gpte = 0 /\ Roots = {}
        BY <1>1, <2>2, <2>5 DEF BootInv, Partition
      <3> QED
        BY <2>5, <3>1 DEF PartitionIsFirst
    <2> QED
      BY <2>4, <2>5
  <1>4. CASE ~readable
    <2>1. \A k \in TriedEntries : ~Hit(k)
      BY <1>1, <1>2, <1>4, TableFacts
    <2>2. ~found /\ gpte = 0
      BY <1>1, <2>1 DEF BootInv, Partition, FirstHit
    <2>3. ~(Roots # {} /\ readable)
      BY <1>4
    <2> HIDE DEF readable
    <2> QED
      BY <2>2, <2>3 DEF PartitionIsFirst, readable
  <1> QED
    BY <1>3, <1>4

(***************************************************************************)
(* find_partition_by_name: the first partition of the name, or LBA 0.      *)
(***************************************************************************)
THEOREM PartitionFound == Spec => []PartitionIsFirst
BY FirstPartition, Invariance, PTL

(***************************************************************************)
(* What the boot enters is a kernel: of the tests cboot_main leaves out,   *)
(* of the partition found and of the size found, neither is missed.        *)
(***************************************************************************)
THEOREM KernelIsGenuine == Spec => []KernelGenuine
  <1>1. BootInv => KernelGenuine
    <2> SUFFICES ASSUME BootInv, pc = "kernel" PROVE KernelGenuine
      BY DEF KernelGenuine
    <2>1. HasFile /\ isfound /\ HasSignature
          /\ file \in Delivered /\ kaddr # 0
      BY DEF BootInv, Loaded, Allocated, AfterLookUp, AfterLoad, AfterMemset,
             AfterAllocate
    <2>2. machine.disk[gpte] \in Kernels /\ file \in {"kernel", "truncated"}
      BY <2>1 DEF HasSignature, Delivered, Kernels
    <2>3. gpte # 0
      BY <2>2, MachineFacts DEF BootInv, TypeInv, Kernels
    <2>4. found /\ gpte = machine.table[FirstRoot].lba
      BY <2>3, FirstPartition DEF PartitionIsFirst, AfterFind, AfterScan
    <2>5. seen[kaddr] = "large"
      BY <2>1 DEF BootInv, Allocated, SearchSeesScannedMap
    <2> QED
      BY <2>1, <2>2, <2>4, <2>5 DEF KernelGenuine
  <1> QED
    BY <1>1, Invariance, PTL
=============================================================================
