-------------------------------- MODULE Mbr ---------------------------------
(***************************************************************************)
(* The first stage, bootloader/mbr/mbr.asm: it loads cboot, stores the     *)
(* BIOS's memory map at 0x500 and opens the A20 line; any BIOS call that   *)
(* sets the carry flag ends the boot.  The memory from 0x500 on is seen as *)
(* slots of 24 bytes, and of a slot only its type field is kept.           *)
(***************************************************************************)
EXTENDS Integers, Sequences

CONSTANTS
    Slots,     \* slots below the page tables that start.asm builds at 0x1000
               \* (117; the type of the next one lies in p4 entry 1)
    MaxSlots,  \* bound on the slots of the model
    Machines   \* the environments the boot may meet, see MachineType

VARIABLES
    machine,   \* the environment: BIOS, processor and disk, fixed
    low,       \* the type fields of the slots from 0x500 on
    di,        \* the slot the next E820 entry goes to, from 1
    pc         \* the place of the only thread

mbrVars == <<machine, low, di, pc>>

\* NONE is 0, the type that ends the map; the others stand for free memory
\* of less and of at least what the kernel needs, and for any other type.
Kind == {"none", "free", "large", "reserved"}

\* One thing may be wrong with a machine's firmware or processor.
Defect == {"nothing", "int13", "e820", "a20", "cpuid", "longmode"}

MachineType(m) ==
    /\ m.bios \in Seq(Kind \ {"none"}) /\ Len(m.bios) \in 1 .. MaxSlots - 1
    /\ m.rest \in Kind              \* what the memory at 0x500 held before
    /\ m.defect \in Defect
    /\ m.huge \in BOOLEAN           \* the free memory sums up to 512GB or more
    /\ m.covered \in BOOLEAN        \* the memory of the kernel lies below that sum

ASSUME MbrAssumption ==
    /\ Slots \in Nat \ {0} /\ MaxSlots \in Nat /\ Slots + 1 < MaxSlots
    /\ \A m \in Machines : MachineType(m)

MbrInit ==
    /\ machine \in Machines
    /\ low = [s \in 1 .. MaxSlots |-> machine.rest]
    /\ di = 1
    /\ pc = "load_cboot"

\* A BIOS call of the boot sector: on to next, or to "boot err" and hlt.
BiosCall(defect, next) ==
    pc' = IF machine.defect = defect THEN "halted" ELSE next

\* int 0x13: 128 sectors from 2048 on to 0x10000
LoadCboot ==
    /\ pc = "load_cboot"
    /\ BiosCall("int13", "e820")
    /\ UNCHANGED <<machine, low, di>>

\* Fault: the slot is advanced before the entry is stored.
E820EntryLate ==
    /\ pc = "e820"
    /\ low' = [low EXCEPT ![di + 1] = machine.bios[di]]
    /\ di' = di + 1
    /\ BiosCall("e820", IF di = Len(machine.bios) THEN "a20" ELSE "e820")
    /\ UNCHANGED machine

\* int 0x15, E820: the BIOS stores entry di; ebx = 0 with the last one.  For
\* the next entry the type is preset to 1, but nothing is stored after the
\* last: what terminates the map is whatever follows it.
E820Entry ==
    /\ pc = "e820"
    /\ \/ /\ machine.defect = "e820"
          /\ UNCHANGED <<low, di>>
       \/ /\ machine.defect # "e820" /\ di < Len(machine.bios)
          /\ low' = [low EXCEPT ![di] = machine.bios[di], ![di + 1] = "free"]
          /\ di' = di + 1
       \/ /\ machine.defect # "e820" /\ di = Len(machine.bios)
          /\ low' = [low EXCEPT ![di] = machine.bios[di]]
          /\ UNCHANGED di
    /\ BiosCall("e820", IF di = Len(machine.bios) THEN "a20" ELSE "e820")
    /\ UNCHANGED machine

EnableA20 ==
    /\ pc = "a20"
    /\ BiosCall("a20", "check_cpuid")
    /\ UNCHANGED <<machine, low, di>>

MbrNext == LoadCboot \/ E820Entry \/ EnableA20
=============================================================================
