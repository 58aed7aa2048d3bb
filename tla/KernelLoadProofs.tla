-------------------------- MODULE KernelLoadProofs --------------------------
(***************************************************************************)
(* The loading of every kernel, for every size of pages, tables and code   *)
(* buffer: the loader uses the page tables as PageTables allows, and so    *)
(* inherits what is proved of them; of the kernel's region it maps the     *)
(* pages that the headers ask for, each once.                              *)
(***************************************************************************)
EXTENDS KernelLoad, PageTablesProofs

\* A page of header k that is asked for, and whether it has been mapped.
IsLoad(k) == k \in 1 .. Len(image) /\ image[k].type = PT_LOAD
VirtPage(k, i) == VirtOf(image[k].vaddr + PageSize * i)

LoadTypes ==
    /\ image \in Images
    /\ phdr_counter \in 0 .. Len(image)
    /\ pc \in {"setup", "phdr", "page", "handoff", "kernel"}
    /\ pc \in {"setup", "phdr", "page"} => phdr_counter < Len(image)
    /\ pc = "page" => Phdr.type = PT_LOAD /\ page \in 0 .. NumPages(Phdr)
    /\ pc = "setup" => phdr_counter = 0 /\ status = "boot"
    /\ status = "boot" => pc = "setup"

LEMMA ImageFacts ==
    ASSUME NEW img \in Images
    PROVE  /\ WellFormed(img) /\ Len(img) \in Nat \ {0}
           /\ \A k \in 1 .. Len(img) : img[k] \in ELF64ProgramHeader
  <1>1. img \in Seq(ELF64ProgramHeader) /\ WellFormed(img)
    BY LoadAssumption
  <1> QED
    BY <1>1 DEF WellFormed

LEMMA HeaderFacts ==
    ASSUME LoadTypes, phdr_counter < Len(image)
    PROVE  /\ phdr_counter \in Nat /\ phdr_counter + 1 \in 1 .. Len(image)
           /\ Phdr = image[phdr_counter + 1] /\ Phdr \in ELF64ProgramHeader
  BY ImageFacts DEF LoadTypes, Phdr

-----------------------------------------------------------------------------
(* Arithmetic of pages.                                                    *)

LEMMA Division ==
    ASSUME NEW d \in Nat \ {0}, NEW q \in Nat, NEW r \in 0 .. d - 1
    PROVE  (d * q + r) \div d = q /\ (d * q + r) % d = r
  OBVIOUS

LEMMA Remainder ==
    ASSUME NEW d \in Nat \ {0}, NEW r \in 0 .. d - 1
    PROVE  r % d = r
  OBVIOUS

LEMMA Quotient ==
    ASSUME NEW d \in Nat \ {0}, NEW n \in Nat
    PROVE  /\ n \div d \in Nat /\ n % d \in 0 .. d - 1
           /\ n = d * (n \div d) + (n % d)
  OBVIOUS

LEMMA Monotone ==
    ASSUME NEW d \in Nat, NEW a \in Nat, NEW b \in Nat, a + 1 <= b
    PROVE  d * a + d <= d * b
  <1>1. PICK k \in Nat : b = a + 1 + k
    <2>1. b - (a + 1) \in Nat
      OBVIOUS
    <2> QED
      BY <2>1
  <1>2. d * b = d * a + d + d * k /\ d * k \in Nat /\ d * a \in Nat
    BY <1>1
  <1> QED
    BY <1>2

LEMMA PageCount ==
    ASSUME NEW phdr \in ELF64ProgramHeader
    PROVE  /\ NumPages(phdr) \in Nat \ {0}
           /\ NumPages(phdr) = (phdr.memsz \div PageSize) + 1
  <1> DEFINE q == phdr.memsz \div PageSize
             r == phdr.memsz % PageSize
  <1>1. PageSize \in Nat \ {0} /\ phdr.memsz \in Nat
    BY LoadAssumption DEF ELF64ProgramHeader
  <1>2. q \in Nat /\ r \in 0 .. PageSize - 1 /\ phdr.memsz = PageSize * q + r
    BY <1>1, Quotient
  <1> HIDE DEF q
  <1>3. ALIGN_UP_4KB(phdr.memsz) = PageSize * q + PageSize
    BY <1>1, <1>2 DEF ALIGN_UP_4KB
  <1>4. PageSize * q + PageSize = PageSize * (q + 1) + 0
    BY <1>1, <1>2
  <1>5. (PageSize * (q + 1) + 0) \div PageSize = q + 1
    BY <1>1, <1>2, Division
  <1> QED
    BY <1>2, <1>3, <1>4, <1>5 DEF NumPages, q

-----------------------------------------------------------------------------
(* The loader's use of the page tables.                                    *)

LEMMA LoadTypesInit == LoadInit => LoadTypes
  <1> SUFFICES ASSUME LoadInit PROVE LoadTypes
    OBVIOUS
  <1>1. Len(image) \in Nat \ {0}
    BY ImageFacts DEF LoadInit
  <1> QED
    BY <1>1 DEF LoadInit, LoadTypes, Init

\* A step of the loop is in the range of its header.
LEMMA LoadTypesStep == LoadTypes /\ [LoadNext]_loadVars => LoadTypes'
  <1> SUFFICES ASSUME LoadTypes, [LoadNext]_loadVars PROVE LoadTypes'
    OBVIOUS
  <1>1. Len(image) \in Nat \ {0} /\ phdr_counter \in Nat
    BY ImageFacts DEF LoadTypes
  <1>2. CASE Setup
    BY <1>1, <1>2 DEF Setup, SetupPhysicalMap, LoadTypes
  <1>3. CASE CopySegment
    <2>1. Phdr' = Phdr /\ Phdr \in ELF64ProgramHeader
      BY <1>3, HeaderFacts DEF CopySegment, LoadTypes, Phdr
    <2>2. NumPages(Phdr) \in Nat
      BY <2>1, PageCount
    <2> QED
      BY <1>3, <2>1, <2>2 DEF CopySegment, LoadTypes, vars
  <1>4. CASE MapSegmentPage
    <2>1. Phdr' = Phdr
      BY <1>4 DEF MapSegmentPage, Phdr
    <2>2. page \in 0 .. NumPages(Phdr) /\ page' = page + 1 /\ page < NumPages(Phdr)
      BY <1>4 DEF MapSegmentPage, LoadTypes
    <2>3. page' \in 0 .. NumPages(Phdr)
      BY <1>4, <2>2, HeaderFacts, PageCount DEF MapSegmentPage, LoadTypes
    <2>4. status # "boot" /\ status' # "boot"
      BY <1>4 DEF MapSegmentPage, MapPage, StatusAfter
    <2> QED
      BY <1>4, <2>1, <2>3, <2>4 DEF MapSegmentPage, LoadTypes
  <1>5. CASE EndSegment \/ SkipHeader
    <2>1. phdr_counter < Len(image) /\ status # "boot"
      BY <1>5 DEF EndSegment, SkipHeader, LoadTypes
    <2> QED
      BY <1>1, <1>5, <2>1 DEF EndSegment, SkipHeader, NextHeader, LoadTypes, vars
  <1>6. CASE JumpToKernel
    BY <1>6 DEF JumpToKernel, LoadTypes, vars
  <1>7. CASE (\E v \in Watched : CacheTranslation(v)) \/ UNCHANGED loadVars
    BY <1>7 DEF CacheTranslation, loadVars, loaderVars, vars, LoadTypes, Phdr
  <1> QED
    BY <1>2, <1>3, <1>4, <1>5, <1>6, <1>7 DEF LoadNext, Load

\* The page that MapSegmentPage maps is one that its header asks for.
LEMMA LoaderMaps ==
    ASSUME LoadTypes, MapSegmentPage
    PROVE  /\ IsLoad(phdr_counter + 1) /\ page \in 0 .. NumPages(Phdr) - 1
           /\ VirtPage(phdr_counter + 1, page) \in PageCalls
           /\ FrameOf(Phdr) \in Frames
           /\ MapPage(VirtPage(phdr_counter + 1, page), FrameOf(Phdr))
  <1>1. /\ phdr_counter + 1 \in 1 .. Len(image) /\ Phdr = image[phdr_counter + 1]
        /\ Phdr.type = PT_LOAD /\ image \in Images
    BY HeaderFacts DEF MapSegmentPage, LoadTypes
  <1>2. page \in 0 .. NumPages(Phdr) - 1
    <2>1. page \in 0 .. NumPages(Phdr) /\ page < NumPages(Phdr)
      BY DEF MapSegmentPage, LoadTypes
    <2>2. NumPages(Phdr) \in Nat
      BY HeaderFacts, PageCount DEF MapSegmentPage, LoadTypes
    <2> QED
      BY <2>1, <2>2
  <1> QED
    BY <1>1, <1>2, LoaderCalls DEF MapSegmentPage, IsLoad, VirtPage

LEMMA LoaderStep ==
    ASSUME LoadTypes, [LoadNext]_loadVars
    PROVE  [Next]_vars
  <1>1. CASE Setup
    BY <1>1 DEF Setup, Next
  <1>2. CASE MapSegmentPage
    BY <1>2, LoaderMaps DEF Next
  <1> QED
    BY <1>1, <1>2
    DEF LoadNext, Load, CopySegment, EndSegment, SkipHeader, NextHeader,
        JumpToKernel, CacheTranslation, loadVars

(***************************************************************************)
(* map_kernel uses the page tables only through setup_physical_map and     *)
(* map_4kb_page: what is proved of PageTables holds of the loader, for     *)
(* every kernel.                                                           *)
(***************************************************************************)
THEOREM LoaderUsesPageTables == LoadSpec => UsesPageTables
  <1>1. LoadInit => Init
    BY DEF LoadInit
  <1>2. LoadTypes /\ [LoadNext]_loadVars => [Next]_vars
    BY LoaderStep
  <1> QED
    BY <1>1, <1>2, LoadTypesInit, LoadTypesStep, PTL
    DEF LoadSpec, UsesPageTables, Spec

-----------------------------------------------------------------------------
(* The pages of the kernel's region.                                       *)

LEMMA VirtOfType ==
    ASSUME NEW a \in Nat
    PROVE  VirtOf(a) \in VirtAddr /\ VirtOf(a).l4 = KernelSlot
  <1> DEFINE p == a \div PageSize
  <1>1. /\ PageSize \in Nat \ {0} /\ Entries \in Nat \ {0} /\ Gig \in Nat \ {0}
        /\ KernelSlot \in Idx
    BY LoadAssumption, SizesAssumption DEF Gig
  <1>2. p \in Nat
    BY <1>1, Quotient
  <1>3. p \div Gig \in Nat /\ p \div Entries \in Nat
    BY <1>1, <1>2, Quotient
  <1> HIDE DEF p
  <1>4. \A n \in Nat : n % Entries \in Idx
    BY <1>1, Quotient DEF Idx
  <1>5. VirtOf(a) = [l4 |-> KernelSlot,
                     l3 |-> (p \div Gig) % Entries,
                     l2 |-> (p \div Entries) % Entries,
                     l1 |-> p % Entries]
    BY DEF VirtOf, p
  <1> QED
    BY <1>1, <1>2, <1>3, <1>4, <1>5 DEF VirtAddr

\* The units of a page have its virtual page.
LEMMA VirtOfUnit ==
    ASSUME NEW p \in Nat, NEW r \in 0 .. PageSize - 1
    PROVE  VirtOf(PageSize * p + r) = VirtOf(PageSize * p)
  <1>1. PageSize \in Nat \ {0} /\ 0 \in 0 .. PageSize - 1
    BY LoadAssumption
  <1>2. (PageSize * p + r) \div PageSize = p
    BY <1>1, Division
  <1>3. PageSize * p = PageSize * p + 0
    BY <1>1
  <1>4. (PageSize * p) \div PageSize = p
    BY <1>1, <1>3, Division
  <1> QED
    BY <1>2, <1>4 DEF VirtOf

LEMMA ThreeDigits ==
    ASSUME NEW p \in Nat
    PROVE  p = Gig * (p \div Gig) + Entries * ((p \div Entries) % Entries)
                 + (p % Entries)
  <1> DEFINE a == p \div Entries
             b == p % Entries
             h == a \div Entries
             l == a % Entries
  <1>1. Entries \in Nat \ {0}
    BY SizesAssumption
  <1>2. a \in Nat /\ b \in 0 .. Entries - 1 /\ p = Entries * a + b
    BY <1>1, Quotient
  <1> HIDE DEF a, b
  <1>3. h \in Nat /\ l \in 0 .. Entries - 1 /\ a = Entries * h + l
    BY <1>1, <1>2, Quotient
  <1> HIDE DEF h, l
  <1>4. Entries * l + b \in 0 .. Gig - 1 /\ Gig \in Nat \ {0}
    <2>1. Entries * l + b \in Nat /\ Entries * l + b <= Entries * l + Entries - 1
      BY <1>1, <1>2, <1>3
    <2>2. Entries * l + Entries <= Entries * Entries
      BY <1>1, <1>3, Monotone
    <2>3. Gig \in Nat \ {0}
      BY <1>1 DEF Gig
    <2>4. Entries * l + Entries <= Gig /\ Entries * l \in Nat
      BY <1>1, <1>3, <2>2 DEF Gig
    <2> QED
      BY <1>1, <2>1, <2>3, <2>4
  <1>5. p = Gig * h + (Entries * l + b)
    <2>1. Entries * (Entries * h + l) = Entries * Entries * h + Entries * l
      BY <1>1, <1>3
    <2> QED
      BY <1>1, <1>2, <1>3, <2>1 DEF Gig
  <1>6. p \div Gig = h
    BY <1>3, <1>4, <1>5, Division
  <1>7. p = Gig * (p \div Gig) + Entries * l + b
    <2>1. Gig * h \in Nat /\ Entries * l \in Nat
      BY <1>1, <1>3, <1>4
    <2> QED
      BY <1>2, <1>5, <1>6, <2>1
  <1> QED
    BY <1>7 DEF a, b, l

\* Within the 512GB of one level 4 slot, pages have addresses of their own.
LEMMA VirtOfInjective ==
    ASSUME NEW p \in 0 .. Entries * Gig - 1, NEW q \in 0 .. Entries * Gig - 1,
           VirtOf(PageSize * p) = VirtOf(PageSize * q)
    PROVE  p = q
  <1>1. /\ PageSize \in Nat \ {0} /\ Entries \in Nat \ {0} /\ Gig \in Nat \ {0}
        /\ p \in Nat /\ q \in Nat
    BY LoadAssumption, SizesAssumption DEF Gig
  <1>2. \A n \in {p, q} : VirtOf(PageSize * n) =
          [l4 |-> KernelSlot, l3 |-> (n \div Gig) % Entries,
           l2 |-> (n \div Entries) % Entries, l1 |-> n % Entries]
    <2> TAKE n \in {p, q}
    <2>1. PageSize * n = PageSize * n + 0 /\ n \in Nat
      BY <1>1
    <2>2. (PageSize * n) \div PageSize = n
      BY <1>1, <2>1, Division
    <2> QED
      BY <2>2 DEF VirtOf
  <1>3. \A n \in {p, q} : (n \div Gig) % Entries = n \div Gig
    <2> TAKE n \in {p, q}
    <2>1. n \in Nat /\ n < Gig * Entries
      <3>1. Entries * Gig = Gig * Entries /\ Gig * Entries \in Nat
        BY <1>1
      <3> QED
        BY <3>1
    <2>2. n \div Gig \in Nat /\ Gig * (n \div Gig) <= n
      <3>1. /\ n \div Gig \in Nat /\ n % Gig \in 0 .. Gig - 1
            /\ n = Gig * (n \div Gig) + (n % Gig)
        BY <1>1, <2>1, Quotient
      <3>2. Gig * (n \div Gig) \in Nat
        BY <1>1, <3>1
      <3> QED
        BY <1>1, <3>1, <3>2
    <2>3. ~(Entries + 1 <= (n \div Gig) + 1)
      <3>1. CASE n \div Gig = Entries
        BY <1>1, <2>1, <2>2, <3>1
      <3>2. CASE Entries + 1 <= n \div Gig
        <4>1. Gig * Entries + Gig <= Gig * (n \div Gig)
          BY <1>1, <2>2, <3>2, Monotone
        <4> QED
          BY <1>1, <2>1, <2>2, <4>1
      <3> QED
        BY <1>1, <2>2, <3>1, <3>2
    <2>4. n \div Gig \in 0 .. Entries - 1
      BY <1>1, <2>2, <2>3
    <2> QED
      BY <1>1, <2>4, Remainder
  <1>4. /\ p \div Gig = q \div Gig
        /\ (p \div Entries) % Entries = (q \div Entries) % Entries
        /\ p % Entries = q % Entries
    BY <1>2, <1>3
  <1> QED
    BY <1>1, <1>4, ThreeDigits

-----------------------------------------------------------------------------
(* What is mapped of the kernel's region.                                  *)

\* No segment ends with a page, where ALIGN_UP_4KB asks for one page too many,
\* or outside of the level 4 slot.
PartialPages ==
    \A phdrs \in Images : \A k \in 1 .. Len(phdrs) : phdrs[k].type = PT_LOAD =>
        /\ phdrs[k].memsz % PageSize # 0
        /\ phdrs[k].vaddr + phdrs[k].memsz <= PageSize * (Entries * Gig)

FirstPage(phdr) == phdr.vaddr \div PageSize

\* The pages of a segment are those that hold units of it.
LEMMA SegmentPages ==
    ASSUME PartialPages, image \in Images, NEW k, IsLoad(k)
    PROVE  LET h == image[k]
           IN  /\ h \in ELF64ProgramHeader /\ FirstPage(h) \in Nat
               /\ NumPages(h) \in Nat \ {0}
               /\ h.vaddr = PageSize * FirstPage(h)
               /\ PageSize * (NumPages(h) - 1) < h.memsz
               /\ h.memsz <= PageSize * NumPages(h)
               /\ FirstPage(h) + NumPages(h) <= Entries * Gig
  <1> DEFINE h == image[k]
             p == FirstPage(h)
             q == h.memsz \div PageSize
             r == h.memsz % PageSize
  <1>1. /\ h \in ELF64ProgramHeader /\ h.vaddr \in Nat /\ h.memsz \in Nat
        /\ h.vaddr % PageSize = 0 /\ r # 0
        /\ h.vaddr + h.memsz <= PageSize * (Entries * Gig)
        /\ PageSize \in Nat \ {0} /\ Entries * Gig \in Nat
    <2>1. k \in 1 .. Len(image) /\ h.type = PT_LOAD
      BY DEF IsLoad
    <2>2. h \in ELF64ProgramHeader /\ h.vaddr % PageSize = 0
      BY <2>1, ImageFacts DEF WellFormed
    <2>3. r # 0 /\ h.vaddr + h.memsz <= PageSize * (Entries * Gig)
      BY <2>1 DEF PartialPages
    <2>4. PageSize \in Nat \ {0} /\ Entries * Gig \in Nat
      BY LoadAssumption, SizesAssumption DEF Gig
    <2> QED
      BY <2>2, <2>3, <2>4 DEF ELF64ProgramHeader
  <1>2. p \in Nat /\ h.vaddr = PageSize * p
    <2>1. p \in Nat /\ h.vaddr = PageSize * p + (h.vaddr % PageSize)
      BY <1>1, Quotient DEF FirstPage
    <2> HIDE DEF p, h
    <2> QED
      BY <1>1, <2>1
  <1>3. q \in Nat /\ r \in 1 .. PageSize - 1 /\ h.memsz = PageSize * q + r
    <2>1. q \in Nat /\ r \in 0 .. PageSize - 1 /\ h.memsz = PageSize * q + r
      BY <1>1, Quotient
    <2> HIDE DEF q, r
    <2> QED
      BY <1>1, <2>1
  <1>4. NumPages(h) = q + 1
    BY <1>1, PageCount
  <1> HIDE DEF h, p, q, r
  <1>5. PageSize * q < h.memsz /\ h.memsz <= PageSize * (q + 1)
    <2>1. PageSize * (q + 1) = PageSize * q + PageSize /\ PageSize * q \in Nat
      BY <1>1, <1>3
    <2> QED
      BY <1>1, <1>3, <2>1
  <1>6. p + (q + 1) <= Entries * Gig
    <2>1. PageSize * (p + q) = PageSize * p + PageSize * q /\ PageSize * p \in Nat
      BY <1>1, <1>2, <1>3
    <2>2. PageSize * (p + q) < PageSize * (Entries * Gig)
      BY <1>1, <1>2, <1>5, <2>1, <1>3
    <2>3. SUFFICES ASSUME Entries * Gig <= p + q PROVE FALSE
      BY <1>1, <1>2, <1>3
    <2>4. CASE Entries * Gig = p + q
      BY <1>1, <2>2, <2>4
    <2>5. CASE Entries * Gig + 1 <= p + q
      <3>1. PageSize * (Entries * Gig) + PageSize <= PageSize * (p + q)
        BY <1>1, <1>2, <1>3, <2>5, Monotone
      <3>2. PageSize * (Entries * Gig) \in Nat /\ PageSize * (p + q) \in Nat
        BY <1>1, <1>2, <1>3
      <3> QED
        BY <1>1, <2>2, <3>1, <3>2
    <2> QED
      BY <1>1, <1>2, <1>3, <2>3, <2>4, <2>5
  <1>7. NumPages(h) \in Nat \ {0} /\ NumPages(h) - 1 = q
    BY <1>3, <1>4
  <1> QED
    BY <1>1, <1>2, <1>4, <1>5, <1>6, <1>7 DEF h, p

LEMMA VirtPageOf ==
    ASSUME PartialPages, image \in Images, NEW k, IsLoad(k),
           NEW i \in 0 .. NumPages(image[k]) - 1
    PROVE  /\ VirtPage(k, i) = VirtOf(PageSize * (FirstPage(image[k]) + i))
           /\ FirstPage(image[k]) + i \in 0 .. Entries * Gig - 1
           /\ VirtPage(k, i) \in VirtAddr /\ VirtPage(k, i).l4 = KernelSlot
  <1> DEFINE p == FirstPage(image[k])
             n == NumPages(image[k])
  <1>1. /\ p \in Nat /\ n \in Nat \ {0} /\ image[k].vaddr = PageSize * p
        /\ p + n <= Entries * Gig
        /\ PageSize \in Nat /\ Entries * Gig \in Nat
    BY SegmentPages, LoadAssumption, SizesAssumption DEF Gig
  <1>2. i \in 0 .. n - 1
    OBVIOUS
  <1> HIDE DEF p, n
  <1>3. i \in Nat /\ p + i \in 0 .. Entries * Gig - 1
    BY <1>1, <1>2
  <1>4. image[k].vaddr + PageSize * i = PageSize * (p + i)
    BY <1>1, <1>3
  <1>5. PageSize * (p + i) \in Nat
    BY <1>1, <1>3
  <1> QED
    BY <1>3, <1>4, <1>5, VirtOfType DEF VirtPage, p

\* Segments share no page.
LEMMA DistinctPages ==
    ASSUME PartialPages, image \in Images, NEW k, NEW l, IsLoad(k), IsLoad(l),
           NEW i \in 0 .. NumPages(image[k]) - 1,
           NEW j \in 0 .. NumPages(image[l]) - 1,
           VirtPage(k, i) = VirtPage(l, j)
    PROVE  k = l /\ i = j
  <1>1. FirstPage(image[k]) + i = FirstPage(image[l]) + j
    BY VirtPageOf, VirtOfInjective
  <1>2. ASSUME NEW a, NEW b, IsLoad(a), IsLoad(b), a < b
        PROVE  FirstPage(image[a]) + NumPages(image[a]) <= FirstPage(image[b])
    <2> DEFINE p == FirstPage(image[a])
               q == FirstPage(image[b])
               n == NumPages(image[a])
    <2>1. image[a].vaddr + image[a].memsz <= image[b].vaddr
      BY <1>2, ImageFacts DEF IsLoad, WellFormed
    <2>2. /\ p \in Nat /\ q \in Nat /\ n \in Nat \ {0}
          /\ image[a].vaddr = PageSize * p /\ image[b].vaddr = PageSize * q
          /\ PageSize * (n - 1) < image[a].memsz
          /\ image[a].memsz \in Nat
      BY <1>2, SegmentPages DEF ELF64ProgramHeader
    <2> HIDE DEF p, q, n
    <2>3. PageSize \in Nat \ {0}
      BY LoadAssumption
    <2>4. PageSize * (p + (n - 1)) < PageSize * q
      <3>1. PageSize * (p + (n - 1)) = PageSize * p + PageSize * (n - 1)
        BY <2>2, <2>3
      <3>2. /\ PageSize * p \in Nat /\ PageSize * q \in Nat
            /\ PageSize * (n - 1) \in Nat
        BY <2>2, <2>3
      <3> QED
        BY <2>1, <2>2, <3>1, <3>2
    <2>5. SUFFICES ASSUME q <= p + (n - 1) PROVE FALSE
      BY <2>2 DEF p, q, n
    <2>6. CASE q = p + (n - 1)
      BY <2>2, <2>3, <2>4, <2>6
    <2>7. CASE q + 1 <= p + (n - 1)
      <3>1. PageSize * q + PageSize <= PageSize * (p + (n - 1))
        BY <2>2, <2>3, <2>7, Monotone
      <3>2. PageSize * q \in Nat /\ PageSize * (p + (n - 1)) \in Nat
        BY <2>2, <2>3
      <3> QED
        BY <2>3, <2>4, <3>1, <3>2
    <2> QED
      BY <2>2, <2>5, <2>6, <2>7
  <1>3. /\ FirstPage(image[k]) \in Nat /\ FirstPage(image[l]) \in Nat
        /\ NumPages(image[k]) \in Nat /\ NumPages(image[l]) \in Nat
        /\ k \in Nat /\ l \in Nat
    BY SegmentPages DEF IsLoad
  <1>4. ~(k < l)
    <2> SUFFICES ASSUME k < l PROVE FALSE
      OBVIOUS
    <2>1. FirstPage(image[k]) + NumPages(image[k]) <= FirstPage(image[l])
      BY <1>2
    <2> QED
      BY <1>1, <1>3, <2>1
  <1>5. ~(l < k)
    <2> SUFFICES ASSUME l < k PROVE FALSE
      OBVIOUS
    <2>1. FirstPage(image[l]) + NumPages(image[l]) <= FirstPage(image[k])
      BY <1>2
    <2> QED
      BY <1>1, <1>3, <2>1
  <1> QED
    BY <1>1, <1>3, <1>4, <1>5

\* The pages that the loader has mapped so far.
Mapped(k, i) ==
    /\ IsLoad(k) /\ i \in 0 .. NumPages(image[k]) - 1
    /\ \/ k <= phdr_counter
       \/ k = phdr_counter + 1 /\ pc = "page" /\ i < page

OnlyMapped ==
    \A w \in VirtAddr :
        w.l4 = KernelSlot /\ Translate(pt.mem, w) # Unmapped =>
            \E k, i : Mapped(k, i) /\ w = VirtPage(k, i)

MappedToFrame ==
    \A k, i : Mapped(k, i) => Translate(pt.mem, VirtPage(k, i)) = FrameOf(image[k])

Cached == tlb = [v \in Watched |-> tlb[v]] /\ TlbCoherent

RegionInv == RefInv /\ LoadTypes /\ OnlyMapped /\ MappedToFrame /\ Cached

\* The kernel's slot is neither that of the identity map nor that of the map
\* of physical memory.
LEMMA RegionEmpty ==
    ASSUME NEW junk \in Residue, NEW w \in VirtAddr, w.l4 = KernelSlot
    PROVE  /\ Translate(BootState(junk).mem, w) = Unmapped
           /\ \A n \in Nat : n < Entries =>
                Translate(PhysicalMap(BootState(junk), n).mem, w) = Unmapped
  <1>1. w.l4 # 0 /\ w.l4 # PhysSlot
    BY LoadAssumption
  <1>2. Translate(BootState(junk).mem, w) = Unmapped
    BY <1>1, BootTranslate DEF AS!IdentityPage
  <1> QED
    BY <1>1, <1>2, PhysicalMapTranslate

LEMMA RegionInvInit == LoadInit => RegionInv
  <1> SUFFICES ASSUME LoadInit PROVE RegionInv
    OBVIOUS
  <1>1. RefInv /\ LoadTypes
    BY RefInvInit, LoadTypesInit DEF LoadInit
  <1>2. OnlyMapped
    <2> PICK junk \in Residue : pt = BootState(junk)
      BY DEF LoadInit, Init
    <2> QED
      BY RegionEmpty DEF OnlyMapped
  <1>3. MappedToFrame
    BY DEF LoadInit, MappedToFrame, Mapped, IsLoad
  <1>4. Cached
    BY DEF LoadInit, Cached, TlbCoherent
  <1> QED
    BY <1>1, <1>2, <1>3, <1>4 DEF RegionInv

\* Only MapSegmentPage adds to the pages mapped, and only by the page it maps.
LEMMA MappedStep ==
    ASSUME LoadTypes, [LoadNext]_loadVars, NEW k, NEW i
    PROVE  /\ image' = image
           /\ Mapped(k, i)' <=>
                \/ Mapped(k, i)
                \/ MapSegmentPage /\ k = phdr_counter + 1 /\ i = page
  <1>1. /\ phdr_counter \in Nat /\ image' = image /\ (IsLoad(k) => k \in Nat)
        /\ IsLoad(k)' = IsLoad(k) /\ NumPages(image[k])' = NumPages(image[k])
    BY ImageFacts
    DEF LoadTypes, LoadNext, Load, Setup, CopySegment, MapSegmentPage, EndSegment,
        SkipHeader, NextHeader, JumpToKernel, CacheTranslation, loadVars,
        loaderVars, IsLoad, NumPages, ALIGN_UP_4KB
  <1>2. CASE Setup
    BY <1>1, <1>2 DEF Setup, Mapped, MapSegmentPage
  <1>3. CASE CopySegment
    BY <1>1, <1>3 DEF CopySegment, MapSegmentPage, Mapped
  <1>4. CASE MapSegmentPage
    <2>1. IsLoad(phdr_counter + 1) /\ page \in 0 .. NumPages(Phdr) - 1
      BY <1>4, LoaderMaps
    <2>2. Phdr = image[phdr_counter + 1] /\ page \in Nat
      BY <1>4, <2>1 DEF Phdr
    <2>3. /\ phdr_counter' = phdr_counter /\ pc = "page" /\ pc' = "page"
          /\ page' = page + 1
      BY <1>4 DEF MapSegmentPage
    <2>4. i \in 0 .. NumPages(image[k]) - 1 => (i < page + 1 <=> i < page \/ i = page)
      BY <2>2
    <2> QED
      BY <1>1, <1>4, <2>1, <2>2, <2>3, <2>4 DEF Mapped
  <1>5. CASE EndSegment
    <2>1. /\ page = NumPages(image[phdr_counter + 1]) /\ pc = "page" /\ pc' # "page"
          /\ phdr_counter' = phdr_counter + 1
      BY <1>5 DEF EndSegment, NextHeader, Phdr
    <2>2. ~MapSegmentPage
      BY <2>1 DEF MapSegmentPage
    <2>3. page \in Nat
      BY <2>1, HeaderFacts, PageCount DEF LoadTypes
    <2>4. k = phdr_counter + 1 /\ i \in 0 .. NumPages(image[k]) - 1 => i < page
      BY <2>1, <2>3
    <2>5. IsLoad(k) => (k <= phdr_counter + 1 <=> k <= phdr_counter \/ k = phdr_counter + 1)
      BY <1>1
    <2> QED
      BY <1>1, <2>1, <2>2, <2>4, <2>5 DEF Mapped
  <1>6. CASE SkipHeader
    <2>1. /\ ~IsLoad(phdr_counter + 1) /\ pc = "phdr" /\ pc' # "page"
          /\ phdr_counter' = phdr_counter + 1
      BY <1>6 DEF SkipHeader, NextHeader, Phdr, IsLoad
    <2>2. IsLoad(k) => (k <= phdr_counter + 1 <=> k <= phdr_counter \/ k = phdr_counter + 1)
      BY <1>1
    <2> QED
      BY <1>1, <2>1, <2>2 DEF Mapped, MapSegmentPage
  <1>7. CASE JumpToKernel \/ (\E v \in Watched : CacheTranslation(v)) \/ UNCHANGED loadVars
    <2>1. /\ phdr_counter' = phdr_counter /\ page' = page
          /\ pc' = "page" <=> pc = "page"
      BY <1>7 DEF JumpToKernel, CacheTranslation, loadVars, loaderVars
    <2>2. ~MapSegmentPage
      BY <1>7, <1>1
      DEF JumpToKernel, CacheTranslation, loadVars, loaderVars, MapSegmentPage, LoadTypes
    <2> QED
      BY <1>1, <2>1, <2>2 DEF Mapped
  <1> QED
    BY <1>1, <1>2, <1>3, <1>4, <1>5, <1>6, <1>7 DEF LoadNext, Load

LEMMA RegionInvStep ==
    ASSUME SmallMemory, PartialPages, RegionInv, [LoadNext]_loadVars
    PROVE  RegionInv'
  <1>1. /\ LoadTypes /\ LoadTypes' /\ RefInv /\ RefInv' /\ image \in Images
        /\ image' = image
    BY LoadTypesStep, LoaderStep, RefInvStep, MappedStep DEF RegionInv, LoadTypes
  <1>2. CASE Setup
    <2> PICK n \in Gigs : SetupPhysicalMap(n)
      BY <1>2 DEF Setup
    <2> PICK junk \in Residue : pt = BootState(junk)
      BY <1>1 DEF SetupPhysicalMap, RefInv
    <2>1. n \in Nat /\ n < Entries
      BY CallsAssumption DEF SmallMemory
    <2>2. OnlyMapped'
      BY <2>1, RegionEmpty DEF SetupPhysicalMap, OnlyMapped
    <2>3. \A k, i : ~Mapped(k, i)'
      <3>1. phdr_counter' = 0 /\ pc' # "page"
        BY <1>1, <1>2 DEF Setup, LoadTypes
      <3> QED
        BY <3>1 DEF Mapped, IsLoad
    <2>4. MappedToFrame'
      BY <2>3 DEF MappedToFrame
    <2>5. Cached'
      BY <1>2 DEF Setup, Cached, TlbCoherent
    <2> QED
      BY <1>1, <2>2, <2>4, <2>5 DEF RegionInv
  <1>3. CASE MapSegmentPage
    <2> DEFINE m == phdr_counter + 1
               v == VirtPage(m, page)
               f == FrameOf(Phdr)
    <2>1. /\ IsLoad(m) /\ page \in 0 .. NumPages(Phdr) - 1
          /\ Phdr = image[m] /\ MapPage(v, f)
      BY <1>1, <1>3, LoaderMaps DEF Phdr
    <2>2. v \in VirtAddr /\ v.l4 = KernelSlot
      BY <1>1, <2>1, VirtPageOf
    <2>3. \A w \in VirtAddr :
            Translate(pt'.mem, w) = IF w = v THEN f ELSE Translate(pt.mem, w)
      <3> PICK L : Tree(pt, L)
        BY <1>1 DEF RefInv, TreeInv
      <3>1. pt.it <= StackPage
        BY <1>1, <2>1 DEF MapPage, RefInv, TreeInv, TypeInv, TypeOK
      <3> QED
        BY <2>1, <2>2, <3>1, Map4KBTranslate DEF MapPage
    <2>4. ~Mapped(m, page)
      <3>1. phdr_counter \in Nat /\ page \in Nat
        BY <1>1, <2>1 DEF LoadTypes
      <3> QED
        BY <3>1 DEF Mapped
    <2>5. \A k, i : Mapped(k, i) =>
            VirtPage(k, i) # v /\ VirtPage(k, i) \in VirtAddr
      BY <1>1, <2>1, <2>4, DistinctPages, VirtPageOf DEF Mapped
    <2> HIDE DEF v, f
    <2>6. Translate(pt.mem, v) = Unmapped
      BY <2>2, <2>5 DEF RegionInv, OnlyMapped
    <2>7. \A k, i : Mapped(k, i)' <=> Mapped(k, i) \/ (k = m /\ i = page)
      BY <1>1, <1>3, MappedStep
    <2>8. \A k, i : VirtPage(k, i)' = VirtPage(k, i)
      BY <1>1 DEF VirtPage
    <2>9. OnlyMapped'
      BY <2>3, <2>7, <2>8 DEF RegionInv, OnlyMapped, v
    <2>10. MappedToFrame'
      <3> SUFFICES ASSUME NEW k, NEW i, Mapped(k, i)'
                   PROVE  Translate(pt'.mem, VirtPage(k, i)) = FrameOf(image[k])
        BY <1>1, <2>8 DEF MappedToFrame
      <3>1. CASE Mapped(k, i)
        BY <2>3, <2>5, <3>1 DEF RegionInv, MappedToFrame
      <3>2. CASE k = m /\ i = page
        BY <2>1, <2>2, <2>3, <3>2 DEF v, f
      <3> QED
        BY <2>7, <3>1, <3>2
    <2>11. Cached'
      <3>1. tlb' = tlb
        BY <1>3 DEF MapSegmentPage
      <3>2. \A u \in Watched : tlb[u] # Unmapped => Mapping'[u] = Mapping[u]
        <4> TAKE u \in Watched
        <4> HAVE tlb[u] # Unmapped
        <4>1. tlb[u] = Mapping[u]
          BY DEF RegionInv, Cached, TlbCoherent
        <4>2. u # v /\ u \in VirtAddr
          BY <2>6, <4>1, CallsAssumption DEF Mapping
        <4> QED
          BY <2>3, <4>2 DEF Mapping
      <3> QED
        BY <3>1, <3>2 DEF RegionInv, Cached, TlbCoherent
    <2> QED
      BY <1>1, <2>9, <2>10, <2>11 DEF RegionInv
  <1>4. CASE pt' = pt /\ ~MapSegmentPage
    <2>1. \A k, i : /\ Mapped(k, i)' <=> Mapped(k, i)
                    /\ VirtPage(k, i)' = VirtPage(k, i)
      BY <1>1, <1>4, MappedStep DEF VirtPage
    <2>2. OnlyMapped' /\ MappedToFrame'
      BY <1>1, <1>4, <2>1 DEF RegionInv, OnlyMapped, MappedToFrame
    <2>3. Mapping' = Mapping
      BY <1>4 DEF Mapping
    <2>4. ASSUME NEW v \in Watched, CacheTranslation(v) PROVE Cached'
      BY <2>3, <2>4 DEF CacheTranslation, RegionInv, Cached, TlbCoherent
    <2>5. ASSUME tlb' = tlb PROVE Cached'
      BY <2>3, <2>5 DEF RegionInv, Cached, TlbCoherent
    <2>6. ASSUME Setup PROVE Cached'
      BY <2>6 DEF Setup, Cached, TlbCoherent
    <2>7. Setup \/ tlb' = tlb \/ \E v \in Watched : CacheTranslation(v)
      BY <1>4
      DEF LoadNext, Load, CopySegment, EndSegment, SkipHeader, NextHeader,
          JumpToKernel, loadVars
    <2> QED
      BY <1>1, <2>2, <2>4, <2>5, <2>6, <2>7 DEF RegionInv
  <1>5. Setup \/ MapSegmentPage \/ (pt' = pt /\ ~MapSegmentPage)
    BY DEF LoadNext, Load, CopySegment, EndSegment, SkipHeader, NextHeader,
           JumpToKernel, CacheTranslation, loadVars, vars
  <1> QED
    BY <1>2, <1>3, <1>4, <1>5

LEMMA RegionInvariance ==
    ASSUME SmallMemory, PartialPages
    PROVE  LoadSpec => []RegionInv
  <1>1. RegionInv /\ [LoadNext]_loadVars => RegionInv'
    BY RegionInvStep
  <1> QED
    BY <1>1, RegionInvInit, PTL DEF LoadSpec

(***************************************************************************)
(* map_kernel needs no invlpg: whatever the processor caches while the     *)
(* kernel is loaded, it caches what the tables say from then on, for the   *)
(* loader maps no page twice.                                              *)
(***************************************************************************)
THEOREM TlbStaysCoherent ==
    ASSUME SmallMemory, PartialPages
    PROVE  LoadSpec => []TlbCoherent
  <1>1. RegionInv => TlbCoherent
    BY DEF RegionInv, Cached
  <1> QED
    BY <1>1, RegionInvariance, PTL

(***************************************************************************)
(* The number of pages that map_kernel calculates for a segment is right   *)
(* for every kernel whose segments end within a page: what is mapped of    *)
(* the kernel's region are the pages that hold units of its segments.      *)
(***************************************************************************)
THEOREM OnlySegmentsMapped ==
    ASSUME SmallMemory, PartialPages
    PROVE  LoadSpec => []OnlySegmentPagesMapped
  <1>1. ASSUME RegionInv PROVE OnlySegmentPagesMapped
    <2> SUFFICES ASSUME NEW w \in Watched, w.l4 = KernelSlot, Mapping[w] # Unmapped
                 PROVE  \E k \in 1 .. Len(image) :
                          /\ image[k].type = PT_LOAD
                          /\ \E u \in 0 .. image[k].memsz - 1 :
                               VirtOf(image[k].vaddr + u) = w
      BY DEF OnlySegmentPagesMapped
    <2>1. PICK k, i : Mapped(k, i) /\ w = VirtPage(k, i)
      BY <1>1, CallsAssumption DEF RegionInv, OnlyMapped, Mapping
    <2>2. IsLoad(k) /\ i \in 0 .. NumPages(image[k]) - 1 /\ image \in Images
      BY <1>1, <2>1 DEF Mapped, RegionInv, LoadTypes
    <2>3. /\ image[k].memsz \in Nat /\ NumPages(image[k]) \in Nat \ {0}
          /\ PageSize * (NumPages(image[k]) - 1) < image[k].memsz
      BY <2>2, SegmentPages DEF ELF64ProgramHeader
    <2>4. PageSize \in Nat \ {0} /\ i \in Nat /\ PageSize * i \in Nat
      BY <2>2, LoadAssumption
    <2>5. PageSize * i <= PageSize * (NumPages(image[k]) - 1)
      <3>1. CASE i = NumPages(image[k]) - 1
        BY <2>4, <3>1
      <3>2. CASE i + 1 <= NumPages(image[k]) - 1
        <4>1. PageSize * i + PageSize <= PageSize * (NumPages(image[k]) - 1)
          BY <2>3, <2>4, <3>2, Monotone
        <4>2. PageSize * (NumPages(image[k]) - 1) \in Nat
          BY <2>3, <2>4
        <4> QED
          BY <2>4, <4>1, <4>2
      <3> QED
        BY <2>2, <2>3, <3>1, <3>2
    <2>6. PageSize * i \in 0 .. image[k].memsz - 1
      <3>1. PageSize * (NumPages(image[k]) - 1) \in Nat
        BY <2>3, <2>4
      <3> QED
        BY <2>3, <2>4, <2>5, <3>1
    <2> QED
      BY <2>1, <2>2, <2>6 DEF IsLoad, VirtPage
  <1> QED
    BY <1>1, RegionInvariance, PTL
-----------------------------------------------------------------------------
(* The contents of the code buffer.                                        *)

\* The headers whose segments have been copied.
Copied(k) ==
    /\ IsLoad(k)
    /\ k <= phdr_counter \/ (k = phdr_counter + 1 /\ pc = "page")

\* In the buffer a segment has its units of the file, zeros until then.
CodeInv ==
    /\ code = [u \in Buffer |-> code[u]]
    /\ \A k : IsLoad(k) => \A u \in 0 .. image[k].memsz - 1 :
         code[Place(image[k]) + u] =
            IF Copied(k) /\ u < image[k].filesz THEN image[k].offset + u ELSE Zero

\* The buffer has room for a segment, which starts on a page of it.
LEMMA SegmentPlace ==
    ASSUME image \in Images, NEW k, IsLoad(k)
    PROVE  LET h == image[k]
           IN  /\ h \in ELF64ProgramHeader /\ k \in 1 .. Len(image)
               /\ Place(h) \in Nat /\ Place(h) = h.offset - PageSize
               /\ PageSize * (Place(h) \div PageSize) = Place(h)
               /\ Place(h) \div PageSize \in Nat
               /\ h.filesz <= h.memsz
               /\ \A u \in 0 .. h.memsz - 1 : Place(h) + u \in Buffer
  <1> DEFINE h == image[k]
             o == h.offset
             q == o \div PageSize
  <1>1. /\ k \in 1 .. Len(image) /\ h \in ELF64ProgramHeader
        /\ h.align = PageSize /\ o >= PageSize /\ o % PageSize = 0
        /\ h.filesz <= h.memsz
        /\ o + h.memsz <= BufferPages * PageSize
    BY ImageFacts DEF IsLoad, WellFormed
  <1>2. /\ PageSize \in Nat \ {0} /\ BufferPages \in Nat /\ o \in Nat
        /\ h.memsz \in Nat /\ BufferPages * PageSize \in Nat
    <2>1. PageSize \in Nat \ {0} /\ BufferPages \in Nat
      BY LoadAssumption
    <2>2. o \in Nat /\ h.memsz \in Nat
      BY <1>1 DEF ELF64ProgramHeader
    <2> HIDE DEF o, h
    <2> QED
      BY <2>1, <2>2
  <1>3. q \in Nat /\ o = PageSize * q
    <2>1. q \in Nat /\ o = PageSize * q + (o % PageSize)
      BY <1>2, Quotient
    <2> HIDE DEF o, q
    <2> QED
      BY <1>1, <1>2, <2>1
  <1>4. Place(h) = o - PageSize
    BY <1>1 DEF Place
  <1> HIDE DEF o, q
  <1>5. q - 1 \in Nat
    BY <1>1, <1>2, <1>3
  <1>6. Place(h) = PageSize * (q - 1) + 0
    BY <1>2, <1>3, <1>4
  <1>7. Place(h) \div PageSize = q - 1
    BY <1>2, <1>5, <1>6, Division
  <1>8. Place(h) \in Nat /\ PageSize * (q - 1) = Place(h)
    BY <1>1, <1>2, <1>4, <1>5, <1>6
  <1>9. \A u \in 0 .. h.memsz - 1 : Place(h) + u \in Buffer
    BY <1>1, <1>2, <1>4, <1>8 DEF Buffer
  <1> QED
    BY <1>1, <1>4, <1>5, <1>7, <1>8, <1>9 DEF h, o

\* The segments' places in the buffer are disjoint.
LEMMA DisjointPlaces ==
    ASSUME image \in Images, NEW k, NEW m, IsLoad(k), IsLoad(m), k # m,
           NEW u \in 0 .. image[k].memsz - 1
    PROVE  Place(image[k]) + u
              \notin Place(image[m]) .. Place(image[m]) + image[m].filesz - 1
  <1> DEFINE a == Place(image[k])
             b == Place(image[m])
             n == image[k].memsz
             l == image[m].filesz
             z == image[m].memsz
  <1>1. /\ k \in 1 .. Len(image) /\ image[k] \in ELF64ProgramHeader
        /\ m \in 1 .. Len(image) /\ image[m] \in ELF64ProgramHeader
        /\ image[m].filesz <= image[m].memsz
        /\ a \in Nat /\ a = image[k].offset - PageSize
        /\ b \in Nat /\ b = image[m].offset - PageSize
    BY SegmentPlace
  <1>2. n \in Nat /\ l \in Nat /\ z \in Nat /\ l <= z /\ a \in Nat /\ b \in Nat
    BY <1>1 DEF ELF64ProgramHeader
  <1>3. a + n <= b \/ b + z <= a
    <2>1. k < m \/ m < k
      BY <1>1
    <2>2. \/ image[k].offset + n <= image[m].offset
          \/ image[m].offset + z <= image[k].offset
      BY <1>1, <2>1, ImageFacts DEF IsLoad, WellFormed
    <2>3. /\ image[k].offset \in Nat /\ image[m].offset \in Nat /\ PageSize \in Nat
          /\ a = image[k].offset - PageSize /\ b = image[m].offset - PageSize
      BY <1>1, LoadAssumption DEF ELF64ProgramHeader
    <2> HIDE DEF a, b, n, z
    <2> QED
      BY <1>2, <2>2, <2>3
  <1>4. u \in 0 .. n - 1
    OBVIOUS
  <1> HIDE DEF a, b, n, l, z
  <1>5. a + u \notin b .. b + l - 1
    BY <1>2, <1>3, <1>4
  <1> QED
    BY <1>5 DEF a, b, l

LEMMA CodeInvInit == LoadInit => CodeInv
  <1> SUFFICES ASSUME LoadInit PROVE CodeInv
    OBVIOUS
  <1>1. image \in Images /\ phdr_counter = 0 /\ pc = "setup"
    BY DEF LoadInit
  <1>2. \A k : ~Copied(k)
    BY <1>1, ImageFacts DEF Copied, IsLoad
  <1>3. \A k : IsLoad(k) => \A u \in 0 .. image[k].memsz - 1 :
           Place(image[k]) + u \in Buffer
    BY <1>1, SegmentPlace
  <1> QED
    BY <1>2, <1>3 DEF LoadInit, CodeInv

\* Only CopySegment adds to the segments copied.
LEMMA CopiedStep ==
    ASSUME LoadTypes, [LoadNext]_loadVars, NEW k
    PROVE  Copied(k)' <=>
              Copied(k) \/ (CopySegment /\ IsLoad(k) /\ k = phdr_counter + 1)
  <1>1. /\ phdr_counter \in Nat /\ image' = image /\ (IsLoad(k) => k \in Nat)
        /\ IsLoad(k)' = IsLoad(k)
    BY ImageFacts, MappedStep DEF LoadTypes, IsLoad
  <1>2. CASE CopySegment
    BY <1>1, <1>2 DEF CopySegment, Copied
  <1>3. CASE EndSegment \/ SkipHeader
    <2>1. /\ phdr_counter' = phdr_counter + 1 /\ pc' # "page"
          /\ pc = "page" \/ ~IsLoad(phdr_counter + 1)
      BY <1>3 DEF EndSegment, SkipHeader, NextHeader, Phdr, IsLoad
    <2>2. IsLoad(k) => (k <= phdr_counter + 1 <=> k <= phdr_counter \/ k = phdr_counter + 1)
      BY <1>1
    <2>3. ~CopySegment
      BY <1>3 DEF EndSegment, SkipHeader, CopySegment
    <2> QED
      BY <1>1, <2>1, <2>2, <2>3 DEF Copied
  <1>4. CASE \/ Setup \/ MapSegmentPage \/ JumpToKernel
             \/ (\E v \in Watched : CacheTranslation(v)) \/ UNCHANGED loadVars
    <2>1. phdr_counter' = phdr_counter /\ (pc' = "page" <=> pc = "page")
      BY <1>4 DEF Setup, MapSegmentPage, JumpToKernel, CacheTranslation, loadVars,
                  loaderVars
    <2>2. ~CopySegment
      BY <1>4 DEF Setup, MapSegmentPage, JumpToKernel, CacheTranslation, loadVars,
                  loaderVars, CopySegment
    <2> QED
      BY <1>1, <2>1, <2>2 DEF Copied
  <1> QED
    BY <1>2, <1>3, <1>4 DEF LoadNext, Load

LEMMA CodeInvStep ==
    ASSUME LoadTypes, CodeInv, [LoadNext]_loadVars
    PROVE  CodeInv'
  <1>1. image \in Images /\ image' = image /\ \A k : IsLoad(k)' = IsLoad(k)
    BY MappedStep DEF LoadTypes, IsLoad
  <1>2. CASE CopySegment
    <2> DEFINE m == phdr_counter + 1
    <2>1. Phdr = image[m] /\ IsLoad(m)
      BY <1>2, HeaderFacts DEF CopySegment, LoadTypes, IsLoad
    <2>2. code' = [c \in Buffer |->
                     IF c \in Place(image[m]) .. Place(image[m]) + image[m].filesz - 1
                     THEN image[m].offset + (c - Place(image[m])) ELSE code[c]]
      BY <1>2, <2>1 DEF CopySegment
    <2>3. \A k : Copied(k)' <=> Copied(k) \/ k = m
      BY <1>2, <2>1, CopiedStep
    <2>4. ASSUME NEW k, IsLoad(k), NEW u \in 0 .. image[k].memsz - 1
          PROVE  code'[Place(image[k]) + u] =
                   IF Copied(k)' /\ u < image[k].filesz
                   THEN image[k].offset + u ELSE Zero
      <3>1. Place(image[k]) + u \in Buffer
        BY <1>1, <2>4, SegmentPlace
      <3>2. code[Place(image[k]) + u] =
              IF Copied(k) /\ u < image[k].filesz THEN image[k].offset + u ELSE Zero
        BY <2>4 DEF CodeInv
      <3>3. CASE k # m
        BY <1>1, <2>1, <2>2, <2>3, <2>4, <3>1, <3>2, <3>3, DisjointPlaces
      <3>4. CASE k = m
        <4>1. /\ Place(image[m]) \in Nat /\ image[m].filesz \in Nat
              /\ image[m].offset \in Nat /\ image[m].memsz \in Nat
          BY <1>1, <2>1, SegmentPlace DEF ELF64ProgramHeader
        <4>2. /\ (Place(image[m]) + u) - Place(image[m]) = u
              /\ Place(image[m]) + u
                   \in Place(image[m]) .. Place(image[m]) + image[m].filesz - 1
                 <=> u < image[m].filesz
          BY <3>4, <4>1
        <4>3. ~Copied(m)
          <5>1. phdr_counter \in Nat /\ pc # "page"
            BY <1>1, <1>2, ImageFacts DEF CopySegment, LoadTypes
          <5> QED
            BY <5>1 DEF Copied
        <4> QED
          BY <2>2, <2>3, <3>1, <3>2, <3>4, <4>2, <4>3
      <3> QED
        BY <3>3, <3>4
    <2>5. code' = [c \in Buffer |-> code'[c]]
      BY <2>2
    <2> QED
      BY <1>1, <2>4, <2>5 DEF CodeInv, Place
  <1>3. CASE ~CopySegment
    <2>1. code' = code
      BY <1>3 DEF LoadNext, Load, Setup, MapSegmentPage, EndSegment, SkipHeader,
                  NextHeader, JumpToKernel, CacheTranslation, loadVars, loaderVars
    <2>2. \A k : Copied(k)' <=> Copied(k)
      BY <1>3, CopiedStep
    <2> QED
      BY <1>1, <2>1, <2>2 DEF CodeInv, Place
  <1> QED
    BY <1>2, <1>3

\* The segments that FrameOf, which gives every page the same frame, serves.
ShortSegments ==
    \A phdrs \in Images : \A k \in 1 .. Len(phdrs) :
        phdrs[k].type = PT_LOAD => phdrs[k].memsz < PageSize

(***************************************************************************)
(* "map the data in the code buffer to the specified vaddr": the kernel    *)
(* finds every unit of every segment at its address, the zeros that are    *)
(* not in the file included, as long as no segment fills a page.           *)
(***************************************************************************)
THEOREM SegmentsVisible ==
    ASSUME SmallMemory, PartialPages, ShortSegments
    PROVE  LoadSpec => []LoadedSegmentsVisible
  <1>1. ASSUME RegionInv, CodeInv PROVE LoadedSegmentsVisible
    <2> SUFFICES ASSUME NEW k \in 1 .. phdr_counter, image[k].type = PT_LOAD,
                        NEW u \in 0 .. image[k].memsz - 1
                 PROVE  Finds(image[k].vaddr + u,
                              IF u < image[k].filesz THEN image[k].offset + u ELSE Zero)
      BY DEF LoadedSegmentsVisible, Visible
    <2> DEFINE h == image[k]
               p == FirstPage(h)
               s == Place(h)
               q == s \div PageSize
    <2>1. /\ image \in Images /\ IsLoad(k) /\ PageSize \in Nat \ {0}
          /\ CodePage \in Nat /\ k <= phdr_counter
      <3>1. image \in Images /\ phdr_counter \in 0 .. Len(image)
        BY <1>1 DEF RegionInv, LoadTypes
      <3>2. Len(image) \in Nat
        BY <3>1, ImageFacts
      <3> QED
        BY <3>1, <3>2, LoadAssumption DEF IsLoad
    <2>2. /\ h \in ELF64ProgramHeader /\ p \in Nat /\ h.vaddr = PageSize * p
          /\ NumPages(h) \in Nat \ {0}
      BY <2>1, SegmentPages
    <2>3. /\ s \in Nat /\ q \in Nat /\ PageSize * q = s /\ s + u \in Buffer
      BY <2>1, SegmentPlace
    <2>4. u \in 0 .. PageSize - 1
      <3>1. h.memsz < PageSize /\ h.memsz \in Nat
        BY <2>1, <2>2 DEF ShortSegments, IsLoad, ELF64ProgramHeader
      <3> QED
        BY <2>1, <3>1
    <2>5. Translate(pt.mem, VirtPage(k, 0)) = CodePage + q
      <3>1. Mapped(k, 0)
        BY <2>1, <2>2 DEF Mapped
      <3> QED
        BY <1>1, <3>1 DEF RegionInv, MappedToFrame, FrameOf
    <2>6. code[s + u] = IF u < h.filesz THEN h.offset + u ELSE Zero
      BY <1>1, <2>1 DEF CodeInv, Copied
    <2> HIDE DEF h, p, s, q
    <2>7. VirtOf(h.vaddr + u) = VirtPage(k, 0)
      <3>1. h.vaddr + PageSize * 0 = PageSize * p
        BY <2>1, <2>2
      <3> QED
        BY <2>2, <2>4, <3>1, VirtOfUnit DEF VirtPage, h
    <2>8. (h.vaddr + u) % PageSize = u
      BY <2>1, <2>2, <2>4, Division
    <2>9. ((CodePage + q) - CodePage) * PageSize + ((h.vaddr + u) % PageSize) = s + u
      <3>1. (CodePage + q) - CodePage = q /\ q * PageSize = PageSize * q
        BY <2>1, <2>3
      <3> QED
        BY <2>3, <2>8, <3>1
    <2>10. CodePage + q # Unmapped
      BY <2>1, <2>3, CallsAssumption
    <2> QED
      BY <2>3, <2>5, <2>6, <2>7, <2>9, <2>10 DEF Finds, h
  <1>2. LoadTypes /\ CodeInv /\ [LoadNext]_loadVars => CodeInv'
    BY CodeInvStep
  <1>3. RegionInv => LoadTypes
    BY DEF RegionInv
  <1> QED
    BY <1>1, <1>2, <1>3, CodeInvInit, RegionInvariance, PTL DEF LoadSpec
=============================================================================
