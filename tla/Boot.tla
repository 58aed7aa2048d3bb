-------------------------------- MODULE Boot --------------------------------
(***************************************************************************)
(* The whole boot: Mbr, the checks of start.asm and cboot_main of          *)
(* bootloader/cboot/src/main.c with find_partition_by_name, down to the    *)
(* kernel or to a halt.  The other components appear by their results:     *)
(* what they do is in PageTables, BootMemory, Ustar, AtaPio and KernelLoad.*)
(*                                                                         *)
(* A disk has a partition table and, at each LBA, an archive or none.      *)
(* Sectors may fail: the driver returns junk and no error (AtaPio).        *)
(***************************************************************************)
EXTENDS Mbr

CONSTANTS
    InBuffer,  \* partition entries in the 4096 bytes read (32)
    RootName   \* "OSDEV Root Partition", as its characters' low bytes

VARIABLES
    it,        \* the entry looked at by the loop in progress
    seen,      \* the map that scan_bios_memmap went through
    gpte,      \* gpte_found: the LBA of the partition, 0 at first
    found,     \* whether a partition was found
    isfound,   \* result of ustar_get_num_sectors
    kaddr,     \* slot of the region found for the kernel, 0 for null
    file       \* what lies at the load address

vars == <<machine, low, di, pc, it, seen, gpte, found, isfound, kaddr, file>>

\* What an LBA may hold.  An archive with a kernel: of less than 256 sectors,
\* of a multiple of 256, and of any other number above.  One with another
\* file in its place, or an empty one; without that file; with a link, device
\* or pipe before it.  No archive: LBA 0 holds the boot sector.
Kernels == {"kernel", "kernel_256", "kernel_long"}
Archive == Kernels \cup {"not_elf", "empty", "no_file", "link", "no_archive"}

\* The reads that may fail: the partition table, which then looks full or
\* empty, the headers of the archive, the content of the file.
Read == {"table", "table_empty", "headers", "content"}

ASSUME BootAssumption ==
    /\ InBuffer \in Nat \ {0}
    /\ RootName # "junk"  \* the name that stands for that of an entry not read
    /\ \A m \in Machines :
         /\ 0 \in DOMAIN m.disk /\ m.disk[0] = "no_archive"
         /\ \A n \in DOMAIN m.disk : n \in Nat /\ m.disk[n] \in Archive
         /\ m.table \in Seq([name : STRING, lba : DOMAIN m.disk \ {0}])
         /\ Len(m.table) <= InBuffer
         /\ m.failing \subseteq Read
         /\ m.step \in {0, 1}  \* the size of an entry that the header states

Final == {"kernel", "halted", "destroyed"}

Init ==
    /\ MbrInit
    /\ it = 1 /\ seen = <<>>
    /\ gpte = 0 /\ found = FALSE /\ isfound = FALSE
    /\ kaddr = 0 /\ file = "zero"

\* The first stage leaves the state of cboot alone.
FirstStage ==
    /\ MbrNext
    /\ UNCHANGED <<it, seen, gpte, found, isfound, kaddr, file>>

-----------------------------------------------------------------------------
(* start.asm: "ERR: 1" without cpuid, "ERR: 2" without long mode.          *)

Check(place, defect, next) ==
    /\ pc = place
    /\ pc' = IF machine.defect = defect THEN "halted" ELSE next
    /\ UNCHANGED <<machine, low, di, it, seen, gpte, found, isfound, kaddr, file>>

CheckCpuid == Check("check_cpuid", "cpuid", "check_long_mode")
CheckLongMode == Check("check_long_mode", "longmode", "enable_paging")

\* Fault: the memory of the page tables is not cleared.
EnablePagingDirty ==
    /\ pc = "enable_paging"
    /\ pc' = "scan_memmap"
    /\ UNCHANGED <<machine, low, di, it, seen, gpte, found, isfound, kaddr, file>>

\* setup_and_enable_paging clears 16KB at 0x1000 before it builds its tables.
\* Of p4 only entry 0 is used, and 256 later: the slot that reaches into p4
\* has type 0 from now on.
EnablePaging ==
    /\ pc = "enable_paging"
    /\ low' = [s \in 1 .. MaxSlots |-> IF s <= Slots THEN low[s] ELSE "none"]
    /\ pc' = "scan_memmap"
    /\ UNCHANGED <<machine, di, it, seen, gpte, found, isfound, kaddr, file>>

-----------------------------------------------------------------------------
(* cboot_main.                                                             *)

\* scan_bios_memmap, one round, and its end.
ScanRegion ==
    /\ pc = "scan_memmap" /\ low[it] # "none"
    /\ seen' = Append(seen, low[it])
    /\ it' = it + 1
    /\ UNCHANGED <<machine, low, di, pc, gpte, found, isfound, kaddr, file>>

ScanEnd ==
    /\ pc = "scan_memmap" /\ low[it] = "none"
    /\ it' = 1
    /\ pc' = "find_partition"
    /\ UNCHANGED <<machine, low, di, seen, gpte, found, isfound, kaddr, file>>

\* The entries as they were read.  Entries of a failed read are not null and
\* have no name that anybody looks for.
TableRead ==
    IF "table" \in machine.failing
    THEN [k \in 1 .. InBuffer |-> [name |-> "junk", lba |-> 1]]
    ELSE IF "table_empty" \in machine.failing THEN <<>> ELSE machine.table

\* Fault: a later partition of that name replaces the first one.
TryPartitionLast ==
    /\ pc = "find_partition" /\ it <= Len(TableRead)
    /\ LET hit == TableRead[it].name = RootName
       IN  /\ gpte' = IF hit THEN TableRead[it].lba ELSE gpte
           /\ found' = (found \/ hit)
    /\ it' = it + machine.step
    /\ UNCHANGED <<machine, low, di, pc, seen, isfound, kaddr, file>>

\* Fault: the name is not compared.
TryPartitionAny ==
    /\ pc = "find_partition" /\ it <= Len(TableRead)
    /\ gpte' = IF found THEN gpte ELSE TableRead[it].lba
    /\ found' = TRUE
    /\ it' = it + machine.step
    /\ UNCHANGED <<machine, low, di, pc, seen, isfound, kaddr, file>>

\* Fault: the pointer is not moved when the partition is the one looked for.
TryPartitionStuck ==
    /\ pc = "find_partition" /\ it <= Len(TableRead)
    /\ LET hit == TableRead[it].name = RootName
       IN  /\ gpte' = IF hit THEN TableRead[it].lba ELSE gpte
           /\ found' = (found \/ hit)
           /\ it' = IF hit THEN it ELSE it + machine.step
    /\ UNCHANGED <<machine, low, di, pc, seen, isfound, kaddr, file>>

\* find_partition_by_name, one round: the first entry of that name is kept,
\* and the loop goes on by the size that the header states, 0 included.
TryPartition ==
    /\ pc = "find_partition" /\ it <= Len(TableRead)
    /\ LET hit == TableRead[it].name = RootName /\ ~found
       IN  /\ gpte' = IF hit THEN TableRead[it].lba ELSE gpte
           /\ found' = (found \/ hit)
    /\ it' = it + machine.step
    /\ UNCHANGED <<machine, low, di, pc, seen, isfound, kaddr, file>>

\* The loop has no other end than an entry of type zero.  A table that fills
\* the buffer is read beyond it, through the stack and upwards, until 16 zero
\* bytes are met or, at 2MB, a page that is not mapped.
EndOfPartitions ==
    /\ pc = "find_partition" /\ it > Len(TableRead)
    /\ \/ pc' = "setup_physical_map"
       \/ it > InBuffer /\ pc' = "halted"
    /\ it' = 1
    /\ UNCHANGED <<machine, low, di, seen, gpte, found, isfound, kaddr, file>>

\* setup_physical_map: the self test at its end reads slot 256 of p4.  With no
\* free memory there is nothing behind it, with 512GB the table was linked
\* into a later slot: the page fault handler halts.
SetupPhysicalMap ==
    /\ pc = "setup_physical_map"
    /\ pc' = IF (\E k \in 1 .. Len(seen) : seen[k] \in {"free", "large"}) /\ ~machine.huge
             THEN "look_up" ELSE "halted"
    /\ UNCHANGED <<machine, low, di, it, seen, gpte, found, isfound, kaddr, file>>

\* A scan of the archive at the partition's LBA, found or not: there is no
\* test of found.
HasFile ==
    /\ "headers" \notin machine.failing
    /\ machine.disk[gpte] \in Kernels \cup {"not_elf", "empty"}

\* The scan of the archive at lba comes to a header that it does not step over.
MeetsLink(lba) == "headers" \notin machine.failing /\ machine.disk[lba] = "link"

\* ustar_get_num_sectors: the message differs, the boot goes on either way; or
\* the loop goes round on one header and changes nothing any more.
LookUp ==
    /\ pc = "look_up"
    /\ \/ ~MeetsLink(gpte) /\ isfound' = HasFile /\ pc' = "allocate"
       \/ MeetsLink(gpte) /\ UNCHANGED <<isfound, pc>>
    /\ UNCHANGED <<machine, low, di, it, seen, gpte, found, kaddr, file>>

\* Fault: the size of a region is not tested.
AllocateRegionAnyFree ==
    /\ pc = "allocate" /\ low[it] # "none"
    /\ \/ /\ low[it] \in {"free", "large"} /\ kaddr' = it
          /\ pc' = "memset" /\ UNCHANGED it
       \/ /\ low[it] \notin {"free", "large"} /\ it' = it + 1
          /\ UNCHANGED <<kaddr, pc>>
    /\ UNCHANGED <<machine, low, di, seen, gpte, found, isfound, file>>

\* allocate_space_for_kernel, one round, and its end.
AllocateRegion ==
    /\ pc = "allocate" /\ low[it] # "none"
    /\ \/ /\ low[it] = "large" /\ kaddr' = it
          /\ pc' = "memset" /\ UNCHANGED it
       \/ /\ low[it] # "large" /\ it' = it + 1
          /\ UNCHANGED <<kaddr, pc>>
    /\ UNCHANGED <<machine, low, di, seen, gpte, found, isfound, file>>

AllocateEnd ==
    /\ pc = "allocate" /\ low[it] = "none"
    /\ pc' = "memset"
    /\ UNCHANGED <<machine, low, di, it, seen, gpte, found, isfound, kaddr, file>>

\* memset and the test for null after it (BootMemory): null destroys the
\* program, and memory beyond the physical map faults.
Memset ==
    /\ pc = "memset"
    /\ \/ kaddr = 0 /\ pc' = "destroyed"
       \/ kaddr # 0 /\ machine.covered /\ pc' = "load_file"
       \/ kaddr # 0 /\ ~machine.covered /\ pc' = "halted"
    /\ UNCHANGED <<machine, low, di, it, seen, gpte, found, isfound, kaddr, file>>

\* Fault: the test of bytes_loaded is missing, and so is the ELF signature's.
LoadFileUnchecked ==
    /\ pc = "load_file"
    /\ file' = IF HasFile /\ "content" \notin machine.failing
               THEN machine.disk[gpte] ELSE "junk"
    /\ pc' = "map_kernel"
    /\ UNCHANGED <<machine, low, di, it, seen, gpte, found, isfound, kaddr>>

\* What comes of the file, of whose sectors the driver is asked for as many as
\* a u8 counts: none of 256, so that the zeros of memset stay, and the first
\* ones of more.  Sectors that fail are junk, from the first on or only later.
\* A file that is no kernel may be cut like one; it has no signature anyway.
Delivered ==
    IF machine.disk[gpte] = "kernel_256" THEN {"zero"}
    ELSE IF "content" \in machine.failing THEN {"junk", "truncated"}
    ELSE IF machine.disk[gpte] = "kernel_long" THEN {"truncated"}
    ELSE {machine.disk[gpte]}

\* ustar_load_file: 0 bytes, for a file not found or empty, stop the boot.
LoadFile ==
    /\ pc = "load_file"
    /\ \/ /\ ~HasFile \/ machine.disk[gpte] = "empty"
          /\ pc' = "halted" /\ UNCHANGED file
       \/ /\ HasFile /\ machine.disk[gpte] # "empty"
          /\ pc' = "check_elf" /\ file' \in Delivered
    /\ UNCHANGED <<machine, low, di, it, seen, gpte, found, isfound, kaddr>>

\* The four bytes of the ELF signature.
HasSignature ==
    file = "kernel" \/ (file = "truncated" /\ machine.disk[gpte] \in Kernels)

CheckElf ==
    /\ pc = "check_elf"
    /\ pc' = IF HasSignature THEN "map_kernel" ELSE "halted"
    /\ UNCHANGED <<machine, low, di, it, seen, gpte, found, isfound, kaddr, file>>

\* map_kernel (KernelLoad) and the jump.  What it does with the headers of a
\* file that is not all there is anything: a fault, or a jump into junk.
MapKernel ==
    /\ pc = "map_kernel"
    /\ \/ pc' = "kernel"
       \/ file = "truncated" /\ pc' \in {"halted", "destroyed"}
    /\ UNCHANGED <<machine, low, di, it, seen, gpte, found, isfound, kaddr, file>>

Next ==
    \/ FirstStage
    \/ CheckCpuid \/ CheckLongMode \/ EnablePaging
    \/ ScanRegion \/ ScanEnd
    \/ TryPartition \/ EndOfPartitions
    \/ SetupPhysicalMap
    \/ LookUp
    \/ AllocateRegion \/ AllocateEnd \/ Memset
    \/ LoadFile \/ CheckElf \/ MapKernel

Spec == Init /\ [][Next]_vars /\ WF_vars(Next)

-----------------------------------------------------------------------------
(* Properties.                                                             *)

AfterScan == {"find_partition", "setup_physical_map", "look_up", "allocate",
              "memset", "load_file", "check_elf", "map_kernel", "kernel"}
AfterFind == AfterScan \ {"find_partition"}

(***************************************************************************)
(* Nothing terminates the map that mbr.asm stores, and nothing bounds the  *)
(* two loops over it; they end because the page tables begin above it,     *)
(* with memory that start.asm has cleared.  Whatever the memory held, and  *)
(* however long the BIOS's map is, neither loop passes the first slot of   *)
(* the tables.                                                             *)
(***************************************************************************)
MapEndsAtTables == pc \in {"scan_memmap", "allocate"} => it <= Slots + 1

(***************************************************************************)
(* "get the bios memory map and save it somewhere": cboot goes through the *)
(* entries of the BIOS, in order, as many as lie below the tables; and in  *)
(* memory that was zero through no others.                                 *)
(***************************************************************************)
SeenIsBiosMap ==
    pc \in AfterScan =>
        LET n == IF Len(machine.bios) < Slots THEN Len(machine.bios) ELSE Slots
        IN  /\ Len(seen) >= n
            /\ \A k \in 1 .. n : seen[k] = machine.bios[k]
            /\ machine.rest = "none" => Len(seen) = n

(***************************************************************************)
(* The search for memory goes through the same map as the sum did before   *)
(* it, and finds the first region that will do.                            *)
(***************************************************************************)
SearchSeesScannedMap ==
    /\ kaddr # 0 =>
         /\ kaddr <= Len(seen) /\ seen[kaddr] = "large"
         /\ \A k \in 1 .. kaddr - 1 : seen[k] # "large"
    /\ pc = "memset" /\ kaddr = 0 => \A k \in 1 .. Len(seen) : seen[k] # "large"

Roots == {k \in 1 .. Len(machine.table) : machine.table[k].name = RootName}
FirstRoot == CHOOSE k \in Roots : \A l \in Roots : k <= l

(***************************************************************************)
(* The partition used is the first of that name.  Without one, or without  *)
(* a table, it is LBA 0, which nobody tests.                               *)
(***************************************************************************)
PartitionIsFirst ==
    pc \in AfterFind =>
        IF Roots # {} /\ machine.failing \cap {"table", "table_empty"} = {}
        THEN found /\ gpte = machine.table[FirstRoot].lba
        ELSE ~found /\ gpte = 0

(***************************************************************************)
(* A kernel is entered only when it was found in the root partition and    *)
(* loaded into memory found for it, although neither the partition nor the *)
(* size lookup is tested: of its content, which failing sectors and the u8 *)
(* of the driver may cut short, the signature at least is there.           *)
(***************************************************************************)
KernelGenuine ==
    pc = "kernel" =>
        /\ found /\ isfound
        /\ gpte = machine.table[FirstRoot].lba /\ machine.disk[gpte] \in Kernels
        /\ file \in {"kernel", "truncated"}
        /\ kaddr # 0 /\ seen[kaddr] = "large"

\* The LBA that cboot goes on with.
RootLba ==
    IF Roots # {} /\ machine.failing \cap {"table", "table_empty"} = {}
    THEN machine.table[FirstRoot].lba ELSE 0

\* The header of the partition table states a size, or no entry is looked at.
EntriesHaveSize == machine.step # 0 \/ TableRead = <<>>

(***************************************************************************)
(* A boot ends in the kernel, in a halt or fault handler, or with the      *)
(* program overwritten, whatever the memory map, the tables and the disk   *)
(* hold and whichever sectors fail, with two exceptions that nothing in    *)
(* the code tests for: a partition table that says that its entries have   *)
(* no size keeps it on the first entry, and a link, device or pipe before  *)
(* the kernel in the archive keeps it on that header.  That the driver and *)
(* the prints return is CallsReturn and PrintsReturn.                      *)
(***************************************************************************)
BootEnds == EntriesHaveSize /\ ~MeetsLink(RootLba) => <>(pc \in Final)

(***************************************************************************)
(* What the boot needs: firmware and processor do what is asked, every     *)
(* sector can be read; one of the regions below the page tables is large   *)
(* enough, less than 512GB are free and the region lies below their sum;   *)
(* the partition table is not full, and the first partition of the name    *)
(* has a kernel of less than 256 sectors with no link before it.  The PC   *)
(* that "make run" emulates meets this: its memory has holes, but of 8GB   *)
(* in all the region at 1MB is taken.                                      *)
(***************************************************************************)
GoodMachine ==
    /\ machine.defect = "nothing" /\ machine.failing = {} /\ machine.step = 1
    /\ \E k \in 1 .. Len(machine.bios) : k <= Slots /\ machine.bios[k] = "large"
    /\ ~machine.huge /\ machine.covered
    /\ Len(machine.table) < InBuffer
    /\ Roots # {} /\ machine.disk[RootLba] = "kernel"

(***************************************************************************)
(* On such a machine the kernel is entered, through every stage of the     *)
(* boot and whatever the memory held before.                               *)
(***************************************************************************)
GoodMachineBoots == GoodMachine => <>(pc = "kernel")
=============================================================================
