---------------------------- MODULE MCKernelLoad ----------------------------
(***************************************************************************)
(* Instances of KernelLoad: pages of three units, tables of 16 entries,    *)
(* and every kernel of up to three program headers made of the choices     *)
(* below.                                                                  *)
(***************************************************************************)
EXTENDS KernelLoad

VA(a, b, c, d) == [l4 |-> a, l3 |-> b, l2 |-> c, l1 |-> d]

LoadHeader(offset, vaddr, filesz, memsz) ==
    [type |-> PT_LOAD, offset |-> offset * PageSize, vaddr |-> vaddr * PageSize,
     filesz |-> filesz, memsz |-> memsz, align |-> PageSize]
OtherHeader == [LoadHeader(0, 0, 0, 0) EXCEPT !.type = PT_GNU_STACK]

\* Headers by page of the file, page of the kernel's region and sizes.
Headers(sizes) ==
    {LoadHeader(o, a, s[1], s[2]) : o \in 1 .. 3, a \in {0, 1, 17}, s \in sizes}
      \cup {OtherHeader}

ImagesOf(sizes) ==
    {phdrs \in UNION {[1 .. n -> Headers(sizes)] : n \in 1 .. 3} : WellFormed(phdrs)}

\* Segments shorter than a page: code, data with a zero tail, zeros only.
SmallImages == ImagesOf({<<2, 2>>, <<1, 2>>, <<0, 1>>})

\* One segment of a page and a bit.
TwoPageImages == {<<LoadHeader(1, 0, 4, 4)>>}

\* RAM that was not cleared and looks like a mapping.
MCResidue == {Leaf(2)}

KernelPages == {VirtOf(PageSize * p) : p \in 0 .. 47}
BufferFrames == CodePage .. CodePage + BufferPages - 1

MCWatched == {VA(0, 0, 0, 1), VA(8, 0, 2, 0)}
               \cup {VA(9, 0, 0, i) : i \in 0 .. 2} \cup {VA(9, 0, 1, 1)}
=============================================================================
