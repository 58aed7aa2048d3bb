---------------------------- MODULE MCBootMemory ----------------------------
(***************************************************************************)
(* Instances of BootMemory: a GB is 8 units of 128MB, the kernel needs 2,  *)
(* the low memory is the first.                                            *)
(***************************************************************************)
EXTENDS BootMemory

Region(base, size, type) == [base |-> base, size |-> size, type |-> type]

Disjoint(map) ==
    \A j, k \in DOMAIN map : j # k => Apart(map[j], map[k])

\* Any free and reserved regions within the first 24 units, in any order.
AnyRegions == {Region(b, n, t) : b \in {0, 1, 3, 8, 20}, n \in {1, 2, 4},
                                 t \in {FREE, RESERVED}}
AnyMaps == {map \in UNION {[1 .. n -> AnyRegions] : n \in 0 .. 3} : Disjoint(map)}

\* Three regions without holes between them, of which the first ones are free
\* and the others reserved, listed in any order.
Stacked(sizes, free) ==
    [k \in 1 .. 3 |-> Region(IF k = 1 THEN 0 ELSE IF k = 2 THEN sizes[1] ELSE sizes[1] + sizes[2],
                             sizes[k], IF k <= free THEN FREE ELSE RESERVED)]
Orders == {o \in [1 .. 3 -> 1 .. 3] : \A j, k \in 1 .. 3 : o[j] = o[k] => j = k}
SolidMaps ==
    {[k \in 1 .. 3 |-> Stacked(sizes, free)[o[k]]] :
        sizes \in [1 .. 3 -> {1, 2, 5, 8}], free \in 1 .. 3, o \in Orders}

MCMemoryMaps == AnyMaps \cup SolidMaps

\* A machine with 256MB, 128MB of it above the low memory.
SmallMaps == {<<Region(0, 1, FREE), Region(1, 1, FREE)>>}
=============================================================================
