---------------------------- MODULE MCPageTables ----------------------------
(***************************************************************************)
(* Instances of PageTables.  A table has 16 entries instead of 512, the    *)
(* map of physical memory starts at slot 8 of 16 (256 of 512), the kernel  *)
(* is in slot 9 (0xFFFF900000000000 is slot 288).  The tables lie, as in   *)
(* the program, within the identity mapped first 2MB.                      *)
(***************************************************************************)
EXTENDS PageTables

VA(a, b, c, d) == [l4 |-> a, l3 |-> b, l2 |-> c, l1 |-> d]

\* Neighbours at each level: same p1 table, same p2, same p3, another p4 slot.
MCPageCalls == {VA(9, 0, 0, 3), VA(9, 0, 0, 4), VA(9, 0, 3, 3),
                VA(9, 4, 0, 3), VA(15, 15, 15, 15)}

\* A region of its own, one that replaces a table of 4KB mappings, and one
\* that lies under a 1GB page of the map of physical memory.
MCBlockCalls == {VA(9, 0, 5, 3), VA(9, 0, 0, 0), VA(8, 0, 3, 0)}

MCWatched ==
    {VA(0, 0, 0, i) : i \in Idx}
      \cup {VA(8, i, j, 5) : i \in {0, 1, 2, 3, 15}, j \in {0, 3}}
      \cup {VA(9, i, j, k) : i \in {0, 4}, j \in {0, 3, 5}, k \in 0 .. 4}
      \cup {VA(15, 15, 15, k) : k \in {14, 15}}

\* RAM that was not cleared: zero, or what looks like a mapping.
MCResidue == {NullEntry, Leaf(2)}
=============================================================================
