# Specifications of the cboot bootloader

The repository is a small x86-64 operating system: a master boot record, a
second stage bootloader in C (`cboot`) and a kernel that prints a line. All of
the interesting control is in the bootloader: it sets up four level page
tables, polls a disk, reads a ustar archive, finds memory in the BIOS's map and
loads an ELF kernel. This directory holds TLA+ models of that code, the TLC
configurations that check them, and proofs for TLAPS.

Paths below are relative to `src/`; `cboot/` stands for `bootloader/cboot/`.

## 1. Inventory

| Component | State | Operations | Talks to | What is hard | Correct when |
|---|---|---|---|---|---|
| Page tables `cboot/src/paging.c`, `cboot/asm/start.asm` | table pages, watermark `page_table_it`, `cr3` | `new_page_table`, `setup_physical_map`, `map_4kb_page`, `map_2mb_page` | MMU and TLB; every later component uses the map | tables shared by walks at four levels, memory that was not cleared, an allocator without limit, tables addressed through the very map they describe | the tables are a tree, and each call changes exactly the translation it names |
| Kernel loading `cboot/src/main.c:157-204, 294-317` | code buffer, program header counter, `kernel_size` | `map_kernel`, jump to the kernel | page tables, TLB, the loaded file | a buffer and an address space filled step by step while translations may be cached | every byte of a LOAD segment is visible where its header says |
| ATA driver `cboot/src/ata.c` | loop counters, the caller's buffer | `ATA_PIO_read_sectors`, `ATA_PIO_write_sectors`, two polling loops | the drive, through ports 0x1F0-0x1F7 | driver and drive run concurrently; failures show only in status bits nobody tests | the words taken are the words given |
| ustar `cboot/src/ustar.c` | sector `seeker` of each scan | `ustar_list_files`, `ustar_get_filesize`, `ustar_get_num_sectors`, `ustar_load_file` | the ATA driver | three copies of one loop with different integer widths; a loop that ends only on what the disk holds | the scans follow the members of the archive, agree, and end |
| Memory for the kernel `cboot/src/main.c:84-155, 218, 229, 244-252` | the map at 0x500, total, pointer | `scan_bios_memmap`, `allocate_space_for_kernel`, `memset`, test for null | BIOS map, physical map | order of regions, holes, a pointer used before it is tested | the kernel's memory is free, mapped, and cleared |
| Partition table `cboot/src/main.c:18-82` | none kept | `find_partition_by_name` | ATA driver | a scan ended only by an entry of zeros; not found looks like LBA 0 | the first partition with the name is returned |
| Boot sequence `cboot/src/main.c:208-324`, `start.asm` | `BootInfo`, outcome | `cboot_main`, `halt` | all of the above | checks that come late or do not stop the machine | a kernel is entered only if it was found and loaded, and on a good machine it is |
| Master boot record `bootloader/mbr/mbr.asm` | the E820 map at 0x500 | BIOS calls, load of cboot | BIOS | the map has no terminator; it may grow into the page tables at 0x1000 | cboot sees the BIOS's entries, and its loops over them end |
| Memory and strings `cboot/src/mem.c` | none | `memset`, `memcpy`, `memcmp`, `strncmp`, `strncpy` | all C code | word loops with byte heads and tails, blocks that overlap, strings without ends | they change what their names say and nothing else |
| Console `cboot/src/{print,vga,serial}.c` | cursor, screen | `init_serial`, `putc`, `puts`, number output | UART, screen memory | polling without limit inside every print, a self test that races the chip, rows moved in place, handlers that interrupt all of it | every character is sent once, in order, and the screen shows the end of the text |
| Interrupts `cboot/src/{interrupts,exceptions}.c` | IDT | `setup_interrupts`, handlers that print and halt | processor, console | an NMI between any two steps, also of another handler | a fault stops the machine, and its message can be read |
| MD5 `cboot/src/md5.c` | context | not called | - | - | third-party code |
| Kernel `kernel/src/main.rs` | none | prints and loops | UART, screen | takes the port over from the bootloader | its greeting is on screen and line |
| Build (`Makefile`s, `template.sfdisk`, `link.ld`) | - | disk image, archive, kernel layout | - | - | read for what the inputs of the bootloader look like |

The bootloader is one thread with interrupts off (`cli` in `start.asm:9`, no `sti`).
What runs beside it is hardware: the drive, the serial chip and the processor's
translation cache; what comes between its steps is an exception or an NMI. Nothing is persisted and no call is retried.
The sources of difficulty are therefore shared data structures, the drive, and
long sequences of calls; they are listed line by line under `hazards` in
`PROJECT.json`.

## 2. Modules

| Module | Models | Composes |
|---|---|---|
| `AddressSpace` | what `paging.c` promises: a function from virtual to physical pages and three operations | |
| `PageTables` | `paging.c` and the boot tables of `start.asm` | implements `AddressSpace` |
| `PageTablesProofs` | proofs of its type and tree invariants, that it implements `AddressSpace`, of what `paging.c` itself relies on, and that it loses no tables | `PageTables` |
| `KernelLoad` | `map_kernel` and the jump to the kernel, with a TLB | extends `PageTables` and calls its operators |
| `KernelLoadProofs` | proofs of what the kernel finds mapped, and that no cached translation goes stale | `KernelLoad`, `PageTablesProofs` |
| `AtaPio` | `ata.c` and the drive | two actors in one module |
| `AtaPioProofs` | proofs that driver and drive keep step, and of what they move | `AtaPio` |
| `Ustar` | the scans of `ustar.c` | reads sectors as functions of the archive; that the driver returns them is `AtaPio`'s `ReadDelivers` |
| `UstarProofs` | proofs of what the scans visit, list, find and load | `Ustar` |
| `BootMemory` | the search for the kernel's memory | |
| `BootMemoryProofs` | proofs that the memory found is free, and that it alone is cleared | `BootMemory` |
| `Mbr` | `mbr.asm`: load of cboot, the E820 loop, A20 | |
| `Boot` | the checks of `start.asm`, `cboot_main` and `find_partition_by_name`, down to the kernel or a halt | extends `Mbr`; the other components by their results |
| `BootProofs` | proofs of its safety properties | `Boot` |
| `Mem` | `mem.c` | |
| `MemProofs` | proofs that its functions are exact | `Mem` |
| `Console` | `print.c`, `vga.c`, `serial.c`, the handlers, the kernel's greeting, and the serial chip | thread, chip and interrupts in one module |
| `ConsoleProofs` | proofs of what screen and line show, and of a handler's message | `Console` |
| `MC*` | values of the constants for TLC | the module of that name |

Operators under a comment that begins with *Fault* are deliberately wrong
variants of the definition after them. They are not used by any specification;
each one breaks a property (see `mutants` in `PROJECT.json`), which shows that
the property depends on that line of the code.

### PageTables

`pt.mem[p]` is the content of physical page `p` as a table and `pt.it` is
`page_table_it`; addresses are counted in 4KB pages. An entry keeps `present`,
`huge` and `addr`; the writable bit and the rest are always set the same way and
are left out. `NewPageTable`, `Descend`, `Map4KB`, `Map2MB` and `PhysicalMap` are
the functions of the C file as operators on that record, so that `KernelLoad`
can call them. `Descend` is the branch "not present: allocate and link" that the
C code repeats at each level. `Translate` is the processor's page walk.
`SetupPhysicalMap` includes the final self test; when it fails the code executes
`hlt` (state `stopped`). The allocator has no limit: a call that moves the
watermark past the stack's page makes the state `smashed`, after which nothing is
claimed. A call that meets a huge page on its way down (which the code does not
test) would write into mapped data: `MapUnderHuge` leads to `wild`, likewise the
end of the model. `Mapping`, the translation of the watched pages, is the
refinement mapping to `AddressSpace`.

### KernelLoad

The actions are the steps of `map_kernel`: `CopySegment` (type test and
`memcpy`), `MapSegmentPage` (a round of the page loop), `EndSegment`, `SkipHeader`,
both with the end of the do-while loop (`NextHeader`), and `JumpToKernel`.
`CacheTranslation` is the processor: it may cache a present translation of any
watched page at any time. A unit of the buffer is zero or the name of a unit of
the file, so that "visible" means the right unit, not merely some unit.
`WellFormed` is what the loader relies on and does not test: segments that start on a
page in memory and in the file, ascending, no headers within. It is an assumption:
`kernel/link.ld` aligns inside the braces of each output section, which moves the
contents of a section and not by itself its start.

### AtaPio

A step of the driver is one look at the status port that lets it go on, the
command with the register writes before it (the drive looks at the registers
only then), or one access of the data port. The drive goes from `idle` through
`busy` to `drq` for each sector, or to `failed`: it then shows ready, neither BSY
nor DRQ, and gives no data until the next command. With `Prompt = FALSE` it has
a state `settling` in which BSY is not yet shown (a real drive may take 400ns).
The polling loops are guards: a look that finds the bit wrong changes nothing.
The drive is not in the repository; it is modelled as the driver uses it.

### Ustar

The archive is a sequence of members; `Sector(n)` is what a read of sector `n` of
the partition returns: a header, a sector of content or a blank. Each scan is a
loop with rounds as actions, and `op` says which scan runs; `NumSectors` is where
their widths differ (`u64` against `u32`). Each scan runs once in a behaviour, so
that results can be compared. Names are sequences of model-level characters only
as far as joining prefix and name needs them.

### BootMemory

One action per entry of the map for the scan and for the search, one for
`setup_physical_map` (only the number of GB matters here), one per unit for
`memset`, which faults outside the map. With a null pointer `memset` clears the low
memory, in which the program itself, its stack and its tables lie: `destroyed`.

### Mbr and Boot

A variable `machine` that never changes holds the environment: the BIOS's memory
map, what the memory below 0x1000 held before, whether the free memory sums up to
512GB and whether the kernel's lies below that sum, one defect of firmware or
processor or none, the partition table, what lies at each LBA, and which reads
fail. `Next` is deterministic but for the outcomes of running over a full
partition table and of a file cut short.

The memory from 0x500 on is a sequence of slots of 24 bytes, of which only the
type field is kept: free and too small, free and large, or another type, and 0,
which ends the map. 117 slots fit below the page tables (`Slots`; 3 in the run).
The type field of the next one is the lower half of entry 1 of the p4 table,
which `EnablePaging` clears and nobody uses: that is what ends the two loops
over the map, and `MapEndsAtTables` says so. `E820Entry` presets the type of the
next slot, as the code does, and stores nothing after the last.

The steps of cboot are one round of each loop (`ScanRegion`, `TryPartition`,
`AllocateRegion`) and one step for each call that is modelled elsewhere, with these
outcomes:

| Step | Detailed in | Outcomes |
|---|---|---|
| `SetupPhysicalMap` | `PageTables`, `BootMemory` | goes on; a fault in the self test, without free memory and with 512GB or more (`machine.huge`, `paging.c:80`) |
| `LookUp` | `Ustar` | a file found or not, which changes a message only; no end, when a link, device or pipe comes before the file (`MeetsLink`: each round leaves everything as it is) |
| `Memset` | `BootMemory` | null: the program is overwritten; a fault, when the region is not below the sum of the free memory (`machine.covered`); goes on |
| `LoadFile` | `Ustar`, `AtaPio` | 0 bytes, for no file or an empty one: a halt; otherwise `Delivered`: the file; zeros, for a multiple of 256 sectors; the first part of it, for more than 256 or when sectors fail; junk |
| `CheckElf`, `MapKernel` | `KernelLoad` | a halt without the signature; the kernel; anything, with a file that is cut short |

Left out of these outcomes: files of 4GB and more, program headers that are not
`WellFormed` in a file that is whole, and calls of the driver or of a print that do
not return (`CallsReturn` and `PrintsReturn` say when they do).

`gpte` is 0 until a partition is found and is used whether it was or not. A failed read of the table looks full
of unknown partitions or empty; a failed read of the archive's headers looks
like no archive; one of the content gives junk, from the first sector on or
later. The final places are `kernel`, `halted` (a halt, a message with a halt, or
the fault handlers of `exceptions.c`) and `destroyed` (the program is
overwritten).

The size of a partition entry is 1 or 0 (`machine.step`), as the header states it
and nobody tests.

### Mem

A behaviour is one call, chosen from `Cases` with the memory it finds; a step is one
store or one comparison. `Chunk` is what the three loops of `memset` and of
`memcpy` have in common: a byte until `dst` is word aligned, then a word as long
as another one follows (`<`, not `<=`, in the code), then bytes. `SetChunk` stores
a word as the code does: the value in its first byte and zeros in the others.
`call.found` is the memory before the call, which the properties compare with.

### Console

One thread prints: `todo` is what is left of the string, `pc` the place in
`draw_char` and `serial_write_char`, `out` the history of characters printed.
`Newline` and `ShiftRow` are the loop over the rows (a row a step), `StoreCell` and
`NextColumn` are two steps because an NMI may come between them. The chip keeps the
divisor latch bit, the loopback bit, a byte to send and a byte received; it sends at
its own time (`Transmit`), to the line or in loopback to itself. A prompt chip, as
the emulated one, receives its own byte at once; a real one after a while.

`Exception` starts a handler between two prints, `Nmi` between any two steps of
anything but its own handler: the gates mask interrupts, and the processor holds
back a second NMI until the first returns, which it never does. So at most two
handlers nest. `EnterKernel` is the driver of the kernel, a crate, which programs
the port again and clears its buffers; `ShowGreeting` writes the top row of the
screen, beside the functions of `vga.c`.

## 3. Runs

All parameters that are sizes in the code are scaled down, keeping the relations
between them: 512 entries of a table become 16 (slot 256 becomes 8, the kernel's
slot 288 becomes 9), 256 words of a sector 4, a `u8` 4 values, a `u32` 64 values,
1GB 8 units of which the kernel needs 2. Deadlock is not checked where the
system stops: after the kernel is entered, after a halt, or when the bound on
calls is reached.

| Run | Question | Bounds, and why they are enough |
|---|---|---|
| `pages` | Do any map calls after `setup_physical_map` keep the tables a tree, lose no table but those a 2MB mapping replaces, stay addressable, pass the self test, and implement `AddressSpace`? | Pages that share tables at each level or none, 2MB mappings beside, over and under other mappings; 7 pages for tables, so that the allocator reaches the stack in the run; RAM that looks like mappings; 1GB and 15 of 16 slots |
| `load_small` | Is every kernel loaded as its headers say, whatever is cached? | Every well formed table of up to three headers from 27 LOAD headers and another type: pages that are neighbours, or in another level 1 table, with full, partial and empty file content |
| `load_two_pages` | *Violated*, see 5 | A segment of a page and a unit |
| `ata` | Do driver and drive keep step, do buffer and disk hold the right sectors, and does every call return? | Three calls in a row from reads of 1 to 3 sectors (3 is the largest count) and writes of one sector, with a sector that fails and sectors beyond the end |
| `ata_slow` | *Violated*, see 5 | One call |
| `ustar_small` | Do the scans stay on headers, find the first member of a path, its size and its content, and end? | Every archive of up to three members from files of 0, 1, 2 and 3 sectors (3 is the most that one call reads), directories and a file with a split path, with duplicate names; a path of a file, of a directory, of nothing |
| `ustar_links` | *Violated*, see 5 | A link before a file |
| `memory` | Is the memory found free, large enough and above 1MB, none overlooked, only it cleared, and does loading start whenever there is as much free memory in all as lies below the end of the kernel's? | Every map of up to three disjoint regions from 30, with holes, in any order; every stack of three regions without holes with sizes below, at and above what is needed and a whole GB |
| `memory_small` | *Violated*, see 5 | One map |
| `boot` | Does every boot end but for a partition table without sizes and a link before the kernel, do both loops over the map stay below the page tables and see the BIOS's map, is the partition the first of its name, is only a genuine kernel entered, and is it entered when nothing is wrong? | 6782 machines: maps of 1 to 4 entries for 3 slots, so that they end before, at and beyond the tables, over memory of zeros or of junk; each defect, with memory above 512GB and outside of the map or not; tables of 0 to 3 entries for a buffer of 3, with the partition never, once and more than once, and entries of some size or of none; each of the eight contents of one partition, and two of the other; each failing read. One of memory, firmware and disk varies at a time, because they meet only in `Memset` and `LoadFile` |
| `console` | Do screen and line carry what is printed, can a handler's message be read, and does printing end? | Three rows and columns, so that texts fill a line, end it, run over it and scroll everything away; 8 characters of the bootloader, then a handler, or the kernel, or both; messages as long as a line and shorter (those of the code have at most 38 characters of 80, but for the reports of two faults, see 4); a prompt and a slow chip, however the BIOS left it |
| `mem` | Do the functions of `mem.c` do what their names say? | Words of 4 bytes in a memory of 16: blocks with no, one and two whole words, every alignment of both sides, every overlap; strings that differ, end, or do neither at each of three places |

### Fairness

- `AtaPio`: weak fairness of the driver (the processor runs; a polling loop whose
  bit is right leaves it) and of the drive (a busy drive is busy for a while).
  `CallsReturn` needs both. No fairness of the start of calls.
- `Ustar`, `KernelLoad`, `BootMemory`, `Boot`: weak fairness of the loop's own steps,
  as the only thread of the processor. `CacheTranslation` is not fair: a translation
  need never be cached.
- `Console`: weak fairness of the thread, and of the chip, which gets rid of a byte in
  the time that the baud rate gives. `PrintsReturn` needs both. No fairness of
  prints, exceptions, the NMI and the kernel. `Mem` has none that matters: its
  properties are safety.
- `PageTables` has no fairness; its properties are safety and refinement.

## 4. Proofs

`PageTablesProofs` proves, for every number of entries, place of the tables, set
of calls and content of uncleared RAM that satisfy `SizesAssumption` and
`CallsAssumption`:

- `TypeCorrect`: `Spec => []TypeOK`. `TypeInv` adds that while the bootloader
  runs the watermark is not past the stack, which with "at most three
  tables for each call" bounds every write to the pages of the model.
- `TreeCorrect`: `Spec => []TableTree`. `TableTree` speaks of what the walk
  reaches and is not inductive: a step changes the sets it is made of. `TreeInv`
  says that there is an assignment of levels to the allocated tables under
  which each pointer leads to an allocated table one level down, no two pointers
  lead to the same table, and tables of level 1 hold no pointers that a walk
  follows. It is shown to be preserved by `Descend` (a new table is one no slot
  points to, for it is at the watermark), by the two last-level writes and by
  `PhysicalMap`, and it implies `TableTree`. The levels of the old tables are kept
  and the new table gets the level below, so the proof does not depend on the
  depth of the address space.

The refinement builds on the tree. Its lemmas are about one page `w` and
the slots that its walk looks at (`Passes`), one of each level:

- `SameWalk`: a change of a slot that the walk does not look at leaves the
  translation of `w` alone.
- `FreshTable`: linking an empty table into a slot that was not present leaves
  every translation alone (a walk through the slot ends one level later, still
  without a page). With it `ReadyAtP2` and `ReadyAtP1` say that all a map
  function does before its last store changes no translation.
- `SameSlots`: two walks that meet in a table have the same slots above it, since
  a table has one parent. So the last store is looked at by the page asked for
  only (`LeafWrite`), or by the pages of its 2MB (`HugeWrite`).

From these, for every instance as above:

- `RefinementCorrect`: `Spec => Implements` under `SmallMemory` (less than 512GB, as
  the loop of `setup_physical_map` leaves the slot of its table otherwise, see 5).
  `RefInv` adds to `TreeInv` that `setup_physical_map` starts from the boot tables.
- `TablesStayAddressable`: `Spec => []TablesAddressable`, when in addition no call
  is made for a page of the first 2MB and all tables lie there (`LowMemoryLeft`).
  The invariant is the whole identity map, not only the pages allocated so far.
- `SelfTestAlwaysPasses`: `Spec => []SelfTestPasses` for 1GB up to less than 512GB.
- `NothingLeaks`: `Spec => []NoLeak` under `SmallMemory`. `LeakInv` says that only
  tables of level 1 are without a parent (`Orphans`), and that there is an injective
  map `g` from them to the 2MB mappings (`Replaced`); the counts follow from the
  pigeonhole theorem of the library. `Descend` and `map_4kb_page` keep `g` as it
  is, `map_2mb_page` extends it by the slot that it stores to.

`KernelLoadProofs` proves for every set of images that are well formed
(`LoadAssumption`), every size of pages and tables and every code buffer:

- `LoaderUsesPageTables`: `LoadSpec => UsesPageTables`. All that is proved of the page
  tables thereby holds while a kernel is loaded.
- `OnlySegmentsMapped`: `LoadSpec => []OnlySegmentPagesMapped` and `TlbStaysCoherent`:
  `LoadSpec => []TlbCoherent`, for memory below 512GB (`SmallMemory`) and segments that
  lie in the kernel's 512GB and do not end with a page (`PartialPages`; otherwise
  `ALIGN_UP_4KB` asks for a page too many, see 5, which may be the next segment's).
- `SegmentsVisible`: `LoadSpec => []LoadedSegmentsVisible`, when in addition each
  segment is shorter than a page (`ShortSegments`). `load_two_pages` shows that this
  is needed.

`RegionInv` relates the walk of the tables to the loop of the loader: the
pages mapped in the kernel's region are those of the rounds made so far
(`OnlyMapped`), each leads to the frame it was given (`MappedToFrame`), and what is
cached agrees (`Cached`). A step keeps it because of `Map4KBTranslate` of
`PageTablesProofs` (one translation changes), and because the pages of two
rounds differ (`DistinctPages`, from the order of the segments, and
`VirtOfInjective`, that addresses of one slot differ when their pages do). `CodeInv`
says what the buffer holds, copied or still zero; that a copy leaves the
segments before it alone is `DisjointPlaces`.

`AtaPioProofs` proves under `PromptDrive` (the drive shows BSY at once, calls ask
for at least one sector that 28 bits can address, writes are of one sector), for
every sector size, every disk and every set of failing sectors:

- `ReadsInStep`: `Spec => []InStep` and `CommandsFindDriveIdle`:
  `Spec => []DriveFinished`. `StepInv` says for each place of the driver
  where the drive is: between polls the drive works on the sector that `j` counts,
  in the inner loop its word is `i` (twice `i` for writes, which may also find the
  drive finished), or it has failed. `InStep` alone is not inductive: it says
  nothing of the drive while the driver polls.

Under the same assumptions it proves `TypeCorrect`
(`Spec => []TypeOK`), `ReadsDeliver` (`Spec => []ReadDelivers`) and `WritesStore`
(`Spec => []WriteStores`). `DataInv` adds to `StepInv` what the words are: the buffer
holds the words of the sectors so far, up to the first that cannot be read, and
junk from there on; a written sector holds the words counted so far. What makes it
inductive is `DriveKnows`: whether the drive has given up says which sectors of the
call can be read, although the driver never looks.

Each of the assumptions is needed: `ata_slow` shows it for promptness, and a
count of 0 asks the drive for 256 sectors that the driver does not fetch.

`BootMemoryProofs` proves for every set of memory maps whose regions are apart and
every size of kernel (`MemoryAssumption`): `KernelMemoryFree`
(`Spec => []AllocationCorrect`) and `KernelMemoryCleared`
(`Spec => []ClearsTheBuffer`). `MemoryInv` says which regions the search has passed
over, and that what is cleared is the first part of what was found. Its types show
that the test for null is never reached with null.

`BootProofs` proves five properties of `Boot` for every set of machines that satisfies
`MbrAssumption` and `BootAssumption` (any number of slots, any map, any partition
table): `MapLoopsEnd`, `ScanSeesBiosMap`, `SearchSeesSameMap`, `PartitionFound` and
`KernelIsGenuine`. `BootInv` has a conjunct for what each stage leaves to the next: the
map as stored (`MapStored`), the part of it that was scanned (`SeenIsMap`), the
entries of the partition table tried so far (`Partition`), the memory
(`Allocated`) and the file (`Loaded`). That the loops over the map end needs that
`EnablePaging` clears the memory above the last slot; that only a kernel is entered
needs that LBA 0 holds no archive, for `gpte` is not tested.

`MemProofs` proves the four properties of `Mem` for every size of a word and of the
memory and every set of calls that stay within it (`MemAssumption`):
`MemsetExact`, `MemcpyExact`, `ComparisonsExact`, `StrncpyExact`. The invariant
`MemInv` is the properties themselves, which say what holds after each store,
with what the comparisons have gone through (`Compared`). The only fact about the
three loops is `ChunkFits`: a store never reaches beyond the end. That a copy
downwards may overlap needs `CopySafe`: a byte is read before it is written over.

`UstarProofs` proves about the scans of every archive of `UstarAssumption`, with any
number of members, any sizes and names:

- `ScansStayOnHeaders`: `Spec => []OnHeader` under `SizesFit` (a size rounded up to
  sectors fits a `u32`; otherwise the three loops count differently, see 5).
- `SizesCorrect`: `Spec => []SizeCorrect`, when in addition no path that is looked up
  belongs to a member whose name tar has split (`NoneSplit`).
- `LoadsCorrect`: `Spec => []LoadCorrect`, when in addition what is looked up is read
  by one call of the driver (`OneCallEach`: fewer sectors than a `u8` has values).
- `ListsComplete`: `Spec => []ListComplete` under `SizesFit`, with the bound of the
  model on the names remembered not met (`AllRemembered`).
- `ScansComeToTheEnd`: `Spec => RoundsAdvance` under `SizesFit` without links
  (`NoLinks`): each round but the last brings the seeker nearer to the end of the
  archive. That is the safety part of `ScansReturn`: what TLC adds is that a scan in its
  loop always has a round, and fairness that it is taken. `ustar_links` shows that
  links must be excluded.

`OnHeader` is not inductive, for it does not say which header. `ScanInv` does: a scan
in its loop is at the header of some member `k` or at the end (`Looking`), has
compared the members before `k` with the path, and has listed their names, or is
stuck at a link and will list it forever. What the calls have returned (`SizeFound`,
`LoadFound`, `Listed`) then follows from where they were when they returned. The
facts about the disk are `SectorOfMember` and `SectorAfterMembers`: at `Start[k]` lies
the header of `k`, then its content up to `Start[k + 1]`. Links may be in these
archives, for a scan that stays at one forever returns nothing wrong.

`Start` is a recursive function, and so is the fold that defines `Paper` of `Console`.
The prover has no induction, and the library's induction theorems are out of its
reach; but that a set of numbers has a least element (`Least`) is an instance of the
library's theorem on well-founded relations, which is about sets. `Induction` follows
from it for sets of numbers, and with it the existence of the functions that the
recursive definitions choose.

`ConsoleProofs` proves for every size of the screen (two rows or more), all texts and
every behaviour of the chip that `ConsoleAssumption` allows:

- `ScreenIsPaper`: `Spec => []ScreenShowsText`. `Drawn` says for each place of `putc`
  which rows are already those of the paper with the next character on it: while
  `newline` runs the first `step - 1` rows have moved and the others have not. How a
  character changes the last rows of the paper is `LineEnds` and `LineGoesOn`.
- `SerialIsComplete`: `Spec => []SerialCarriesText`. `Port` says that a character is
  written to an empty buffer only, and that a port is in loopback just when the
  test failed; `SetUp` what the chip holds at each write of `init_serial`. `Carried`
  is the property with the text before the latest named.
- `MessageCanBeRead`: `Spec => []FaultMessageReadable` under `MessagesFit`: messages
  have no line ends and at most one character more than a line. `Message` follows
  the message at each place of `putc`, in the last row, or with its first part in the row
  above (`Placed`). All it needs to know of the time before the handler is the type of
  the state: the NMI may find the screen in the middle of anything. The reports of
  general protection and page faults have many lines, more than the screen may have;
  they are outside this theorem, and outside the run.

`MCUstar` and `MCConsole` assert that their instances meet these hypotheses.

Only model-checked: liveness (`CallsReturn`, `PrintsReturn`, `ScansReturn`,
`KernelEntered`, `CoveredMemoryLoads`, `BootEnds`, `GoodMachineBoots`), which is beyond
the prover. Every invariant and every refinement that a passing run checks is a theorem.

## 5. Disagreements between code and comments

Four runs end in a counterexample, each against a statement in the source:

- `load_two_pages`: `main.c:196` gives `map_4kb_page` an address that does not
  depend on `i`, so that every page of a segment is mapped to its first frame;
  the comment at `main.c:192` says that the data is mapped to its address.
- `ata_slow`: `ATA_PIO_wait_DRQ` tests the ready bit (`ata.c:17`). A drive that has
  not yet shown BSY passes both polls, and the driver reads too early. The
  emulated drive of `make run` shows BSY at once (`Prompt`).
- `ustar_links`: for links, devices and pipes the seeker does not move
  (`ustar.c:144-165`) and the scan reads one sector forever, where
  `ustar.c:168` says that a missing file is reported.
- `memory_small`: `memset` comes before the test for null (`main.c:247-249`), so
  that the message of `main.c:250` is never shown.

Other places where the models leave the passing runs' inputs on purpose, met
while writing them:

- The size of the physical map is a sum of free memory (`paging.c:50`), and memory
  above a hole may be outside of it, where `paging.c:129` relies on all physical
  memory being mapped: 768MB of free memory, two thirds of it above a hole that
  ends at 2GB, is such a map. `memset` then faults (the third outcome of `Memset`).
  `CoveredMemoryLoads` says when the sum is enough; a PC of 8GB, as `make run` has it,
  is such a case although its memory has holes.
- `init_serial` reads the byte of its self test back at once (`serial.c:18`). A chip
  that takes a character's time to send it fails the test and is left in loopback,
  and `cboot_main` ignores the result (`main.c:211`): the screen alone shows what the
  bootloader prints, until the kernel sets the port up. The emulated chip is prompt.
- The character that finds the line full is lost on the screen (`vga.c:57-58`).
- `mem.h:14` says of `strncmp` that it returns 0 or 1; it returns the difference of two
  characters (`mem.c:77`). Its callers compare with 0.
- A segment whose size is a multiple of 4KB gets one page too many
  (`ALIGN_UP_4KB`, `paging.h:70`).
- The page tables of a kernel that fills the 160MB buffer take 83 pages; 79 lie
  between 0x20000 and the stack (`paging.c:30`, `start.asm:10`).
- With 512GB of memory the level 4 slot is one too high (`paging.c:80`), and the self
  test faults: `GoodMachine` excludes it (`machine.huge`).
- `ATA_PIO_write_sectors` moves 1024 bytes for each sector (`ata.c:62`); with one
  sector the drive drops the rest, with more it stores the wrong words. Nothing
  calls it.
- A count of 0 is 256 to the drive (`ata.c:26`), and `ustar_load_file` hands over a
  `u8` of the number of sectors (`ustar.c:258`): a file is loaded modulo 256
  sectors, and its whole size is reported. In `Boot` a kernel of a multiple of 256
  sectors halts at the signature and a larger one is cut; `GoodMachine` has a
  smaller one.
- `ustar_load_file` steps over a file of 4GB by its size modulo 2^32
  (`ustar.c:203`), unlike `ustar_get_filesize`.
- Prefix and name of a member are joined without a slash (`ustar.c:130-131`), so
  that members whose path tar splits are not found.
- The size of a partition entry is taken from the header unchecked (`main.c:34`):
  if it reads as 0 the loop stays on the first entry. `BootEnds` excludes it
  (`EntriesHaveSize`), as it excludes a link before the kernel (`MeetsLink`), the
  finding of `ustar_links`.
- A BIOS map of more than 117 entries is cut off by the page tables, and one that
  is stored over memory that was not zero may be followed by entries that the
  BIOS never gave (`mbr.asm:96`); `SeenIsBiosMap` is stated accordingly.

## 6. Not modelled

How numbers are printed (`putx8` to `putd`, `hexdump`, `print_pagetable`), the colours
and `clear_screen`, `MD5` (vendored and not called), the bits of the interrupt
descriptors, an NMI before `setup_interrupts`, the panic handler of the kernel, mode
switches in assembly. In `Console` a row is moved in one step. In `Boot`, names of
partitions are values (the code compares the low bytes of 32 characters).

## 7. Plan

Done: `AddressSpace`, `PageTables`, `KernelLoad`, `AtaPio`, `Ustar`, `BootMemory`,
`Mbr`, `Boot`, in that order (the page tables first: every later step of the
bootloader relies on them), then `Mem` and `Console`; the proofs of types, of the
tree and the refinement, of the driver's step and its data, of the memory functions,
of the kernel's memory, of the boot, and of the kernel that is loaded; of the scans
of the archive, and of screen, line and messages.

Next: `Boot` takes what `Ustar`, `BootMemory` and `KernelLoad` do as outcomes of one
step each, listed in section 2. That those are the outcomes of the detailed modules
is argued there only; stated as refinements, the theorems would join into one about the whole boot.
