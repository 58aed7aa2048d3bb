----------------------------- MODULE KernelLoad -----------------------------
(***************************************************************************)
(* map_kernel of bootloader/cboot/src/main.c and the handoff to the kernel *)
(* that follows it.  The loader copies each LOAD segment of kernel.elf to  *)
(* the code buffer and maps its pages with map_4kb_page; the processor may *)
(* meanwhile cache any translation that is present in the tables.          *)
(*                                                                         *)
(* Addresses within the ELF file, the code buffer and the kernel's virtual *)
(* region (0xFFFF900000000000 onwards) are counted in units, PageSize of   *)
(* them to a page; physical pages are those of PageTables.                 *)
(***************************************************************************)
EXTENDS PageTables, Sequences

CONSTANTS
    PageSize,    \* units in a page (4096 bytes)
    KernelSlot,  \* the level 4 slot of 0xFFFF900000000000 (288)
    CodePage,    \* first physical page of the code buffer, exe
    BufferPages, \* its size: the bottom 160MB of the 256MB allocated
    Images       \* the program header tables kernel.elf may have

VARIABLES
    image,        \* the program headers, read from the loaded file
    phdr_counter, \* the header being processed, from 0
    page,         \* i, the page of the segment to map next
    code,         \* content of the code buffer
    kernel_size,  \* bootinfo.kernel_size
    tlb,          \* translations the processor has cached
    pc

loaderVars == <<image, phdr_counter, page, code, kernel_size, pc>>
loadVars == <<vars, loaderVars, tlb>>

PT_LOAD == 1
PT_GNU_STACK == 2  \* stands for every type but LOAD

\* A unit of the buffer is zero or a unit of the file, named by its offset.
Zero == -1
Buffer == 0 .. BufferPages * PageSize - 1

\* The fields of ELF64ProgramHeader that the loader reads.
ELF64ProgramHeader ==
    [type : Nat, offset : Nat, vaddr : Nat, filesz : Nat, memsz : Nat, align : Nat]

\* The virtual page of the kernel's unit a.
VirtOf(a) ==
    LET p == a \div PageSize
    IN  [l4 |-> KernelSlot,
         l3 |-> (p \div Gig) % Entries,
         l2 |-> (p \div Entries) % Entries,
         l1 |-> p % Entries]

\* The ELF files that the loader is written for, which it does not test:
\* segments that start on a page, in memory and in the file, in ascending
\* order and with no headers inside.  kernel/link.ld aligns within the braces
\* of each section, which does not by itself put the section on a page.
WellFormed(phdrs) ==
    /\ Len(phdrs) > 0
    /\ \A k \in 1 .. Len(phdrs) : phdrs[k].type = PT_LOAD =>
         /\ phdrs[k].align = PageSize /\ phdrs[k].offset >= PageSize
         /\ phdrs[k].offset % PageSize = 0 /\ phdrs[k].vaddr % PageSize = 0
         /\ phdrs[k].filesz <= phdrs[k].memsz
         /\ phdrs[k].offset + phdrs[k].memsz <= BufferPages * PageSize
    /\ \A j, k \in 1 .. Len(phdrs) :
         j < k /\ phdrs[j].type = PT_LOAD /\ phdrs[k].type = PT_LOAD =>
            /\ phdrs[j].vaddr + phdrs[j].memsz <= phdrs[k].vaddr
            /\ phdrs[j].offset + phdrs[j].memsz <= phdrs[k].offset

-----------------------------------------------------------------------------

Phdr == image[phdr_counter + 1]

\* ALIGN_UP_4KB as the header defines it, and the page count made from it.
ALIGN_UP_4KB(n) == n + PageSize - (n % PageSize)
\* Fault: one more than that.
NumPagesPlusOne(phdr) == (ALIGN_UP_4KB(phdr.memsz) \div PageSize) + 1
NumPages(phdr) == ALIGN_UP_4KB(phdr.memsz) \div PageSize

\* Where the segment's first unit goes in the buffer.
Place(phdr) == phdr.offset - phdr.align

\* Fault: the code buffer is taken for an image of the file.
FrameOfOffset(phdr) == CodePage + (phdr.offset \div PageSize)

\* The frame given to map_4kb_page for every page of the segment.
FrameOf(phdr) == CodePage + (Place(phdr) \div PageSize)

ASSUME LoadAssumption ==
    /\ PageSize \in Nat \ {0} /\ CodePage \in Nat /\ BufferPages \in Nat
    /\ KernelSlot \in Idx \ {0, PhysSlot}
    /\ Images \subseteq Seq(ELF64ProgramHeader)
    /\ \A phdrs \in Images : WellFormed(phdrs)

\* The calls of PageTables are those the loader may make.
ASSUME LoaderCalls ==
    \A phdrs \in Images : \A k \in 1 .. Len(phdrs) : phdrs[k].type = PT_LOAD =>
        /\ FrameOf(phdrs[k]) \in Frames
        /\ \A i \in 0 .. NumPages(phdrs[k]) - 1 :
              VirtOf(phdrs[k].vaddr + PageSize * i) \in PageCalls

LoadInit ==
    /\ Init
    /\ image \in Images
    /\ phdr_counter = 0
    /\ page = 0
    /\ code = [u \in Buffer |-> Zero]
    /\ kernel_size = 0
    /\ tlb = [v \in Watched |-> Unmapped]
    /\ pc = "setup"

\* cboot_main has set up the map of physical memory; loading cr3 empties
\* the TLB.
Setup ==
    /\ pc = "setup"
    /\ \E n \in Gigs : SetupPhysicalMap(n)
    /\ pc' = "phdr"
    /\ tlb' = [v \in Watched |-> Unmapped]
    /\ UNCHANGED <<image, phdr_counter, page, code, kernel_size>>

\* memcpy of the segment's filesz units; memsz - filesz units stay zero.
CopySegment ==
    /\ pc = "phdr" /\ status = "running"
    /\ Phdr.type = PT_LOAD
    /\ code' = [u \in Buffer |->
                  IF u \in Place(Phdr) .. Place(Phdr) + Phdr.filesz - 1
                  THEN Phdr.offset + (u - Place(Phdr)) ELSE code[u]]
    /\ page' = 0
    /\ pc' = "page"
    /\ UNCHANGED <<vars, image, phdr_counter, kernel_size, tlb>>

\* Fault: map_2mb_page is called.
MapSegmentBlock ==
    /\ pc = "page"
    /\ page < NumPages(Phdr)
    /\ pt' = Map2MB(pt, VirtOf(Phdr.vaddr + PageSize * page), FrameOf(Phdr))
    /\ page' = page + 1
    /\ UNCHANGED <<status, image, phdr_counter, code, kernel_size, tlb, pc>>

MapSegmentPage ==
    /\ pc = "page"
    /\ page < NumPages(Phdr)
    /\ MapPage(VirtOf(Phdr.vaddr + PageSize * page), FrameOf(Phdr))
    /\ page' = page + 1
    /\ UNCHANGED <<image, phdr_counter, code, kernel_size, tlb, pc>>

\* The end of the do-while loop's body.
NextHeader ==
    /\ phdr_counter' = phdr_counter + 1
    /\ pc' = IF phdr_counter + 1 < Len(image) THEN "phdr" ELSE "handoff"
    /\ UNCHANGED <<vars, image, page, code, tlb>>

EndSegment ==
    /\ pc = "page" /\ status = "running"
    /\ page = NumPages(Phdr)
    /\ kernel_size' = kernel_size + Phdr.memsz
    /\ NextHeader

\* Fault: a continue that leaves the loop's counter alone.
SkipHeaderContinue ==
    /\ pc = "phdr" /\ status = "running"
    /\ Phdr.type # PT_LOAD
    /\ UNCHANGED loadVars

SkipHeader ==
    /\ pc = "phdr" /\ status = "running"
    /\ Phdr.type # PT_LOAD
    /\ UNCHANGED kernel_size
    /\ NextHeader

\* kmain(&bootinfo)
JumpToKernel ==
    /\ pc = "handoff"
    /\ pc' = "kernel"
    /\ UNCHANGED <<vars, image, phdr_counter, page, code, kernel_size, tlb>>

\* The processor caches a present translation whenever it likes, on a
\* speculative access for instance, and does not look at the tables again.
CacheTranslation(v) ==
    /\ pc # "setup" /\ status = "running"
    /\ tlb[v] = Unmapped /\ Mapping[v] # Unmapped
    /\ tlb' = [tlb EXCEPT ![v] = Mapping[v]]
    /\ UNCHANGED <<vars, loaderVars>>

Load == Setup \/ CopySegment \/ MapSegmentPage \/ EndSegment \/ SkipHeader
          \/ JumpToKernel

LoadNext == Load \/ \E v \in Watched : CacheTranslation(v)

LoadSpec == LoadInit /\ [][LoadNext]_loadVars /\ WF_loadVars(Load)

-----------------------------------------------------------------------------
(* Properties.                                                             *)

\* What the kernel finds at its unit a, which must be mapped to the buffer.
Finds(a, content) ==
    LET f == Translate(pt.mem, VirtOf(a))
        u == (f - CodePage) * PageSize + (a % PageSize)
    IN  f # Unmapped /\ u \in Buffer /\ code[u] = content

Visible(phdr) ==
    \A k \in 0 .. phdr.memsz - 1 :
        Finds(phdr.vaddr + k, IF k < phdr.filesz THEN phdr.offset + k ELSE Zero)

(***************************************************************************)
(* "map the data in the code buffer to the specified vaddr": when a LOAD   *)
(* segment has been processed, every unit of it, the zero filled tail      *)
(* included, is found at its virtual address, and the segments loaded      *)
(* after it neither move nor overwrite it.                                 *)
(***************************************************************************)
LoadedSegmentsVisible ==
    \A k \in 1 .. phdr_counter : image[k].type = PT_LOAD => Visible(image[k])

(***************************************************************************)
(* "calculate the number of pages we are going to need to map this data":  *)
(* no page of the kernel's region is mapped that holds no unit of a LOAD   *)
(* segment.                                                                *)
(***************************************************************************)
OnlySegmentPagesMapped ==
    \A v \in Watched :
        v.l4 = KernelSlot /\ Mapping[v] # Unmapped =>
            \E k \in 1 .. Len(image) :
                /\ image[k].type = PT_LOAD
                /\ \E u \in 0 .. image[k].memsz - 1 : VirtOf(image[k].vaddr + u) = v

(***************************************************************************)
(* map_4kb_page never invalidates a cached translation, so the loader must *)
(* never change one that is present: what the processor has cached is what *)
(* the tables say.                                                         *)
(***************************************************************************)
TlbCoherent == \A v \in Watched : tlb[v] \in {Unmapped, Mapping[v]}

(***************************************************************************)
(* The loader uses the page tables only through setup_physical_map and     *)
(* map_4kb_page, so that all that holds of PageTables holds of it.         *)
(***************************************************************************)
UsesPageTables == Spec

(***************************************************************************)
(* The loader ends by entering the kernel: every header is processed once, *)
(* no page asked for lies under a huge page, and the page tables of the    *)
(* kernel fit between the program and the stack.                           *)
(***************************************************************************)
KernelEntered == <>(pc = "kernel")
=============================================================================
