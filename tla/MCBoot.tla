------------------------------- MODULE MCBoot -------------------------------
(***************************************************************************)
(* Instances of Boot: three slots below the page tables, three partition   *)
(* entries in the buffer.  One part of the environment varies at a time:   *)
(* memory, firmware and processor, or disk and failing sectors.            *)
(***************************************************************************)
EXTENDS Boot

Entry(name, lba) == [name |-> name, lba |-> lba]

GoodTable == <<Entry("cboot", 1), Entry("root", 2)>>
Disk(a, b) == [n \in 0 .. 2 |-> IF n = 1 THEN a ELSE IF n = 2 THEN b ELSE "no_archive"]

Machine(bios, rest, defect, huge, covered, table, disk, step, failing) ==
    [bios |-> bios, rest |-> rest, defect |-> defect, huge |-> huge,
     covered |-> covered, table |-> table, disk |-> disk, step |-> step, failing |-> failing]

GoodDisk == Disk("no_archive", "kernel")

\* Maps shorter and longer than the slots, before zeros or other values.
BiosMaps == UNION {[1 .. n -> {"free", "large", "reserved"}] : n \in 1 .. 4}
MemoryMachines ==
    {Machine(b, r, "nothing", FALSE, TRUE, GoodTable, GoodDisk, 1, {}) :
        b \in BiosMaps, r \in {"none", "large", "reserved"}}

DefectMachines ==
    {Machine(<<"free", "large">>, "none", d, h, c, GoodTable, GoodDisk, 1, {}) :
        d \in Defect, h \in BOOLEAN, c \in BOOLEAN}

\* Tables with the partition or without it, twice, and full, with entries of
\* some size or none; one read fails, or none.
Tables == UNION {[1 .. n -> {Entry("cboot", 1), Entry("root", 1), Entry("root", 2)}] :
                    n \in 0 .. 3}
DiskMachines ==
    {Machine(<<"free", "large">>, "none", "nothing", FALSE, TRUE, t, Disk(a, b), s, f) :
        t \in Tables, a \in Archive, b \in {"kernel", "no_file"}, s \in {0, 1},
        f \in {{}} \cup {{r} : r \in Read}}

MCMachines == MemoryMachines \cup DefectMachines \cup DiskMachines
=============================================================================
