------------------------------- MODULE AtaPio -------------------------------
(***************************************************************************)
(* The polling disk driver of bootloader/cboot/src/ata.c and the drive it  *)
(* talks to, two actors that share only the ports 0x1F0-0x1F7.  A step of  *)
(* the driver is one look at the status port, the command, or one access   *)
(* of the data port; the drive moves on its own between any two of them.   *)
(* A transfer is counted in 16 bit words, Words of them to a sector.       *)
(***************************************************************************)
EXTENDS Integers, Sequences

CONSTANTS
    Words,       \* 16 bit words in a sector (256)
    LbaSpace,    \* sectors the 28 bits of the address registers tell apart
    CountSpace,  \* values of the 8 bit sector count register (256)
    Sectors,     \* the disk is sectors 0 .. Sectors - 1
    BadSectors,  \* sectors that cannot be transferred
    Prompt,      \* the drive shows BSY with the access that makes it busy,
                 \* as the emulated drive of "make run" does; a real drive
                 \* may take 400ns
    Reads,       \* calls of ATA_PIO_read_sectors: <<first sector, count>>
    Writes,      \* calls of ATA_PIO_write_sectors
    MaxCalls     \* bound on the number of calls in a behaviour

VARIABLES
    disk,   \* content of the disk: sector -> word -> value
    dev,    \* the drive
    call,   \* the call in progress, or the last one
    pc,     \* where the driver is
    j,      \* sectors transferred by this call
    i,      \* accesses of the data port for the current sector
    dst,    \* the words this call has stored in its buffer
    calls   \* number of calls made

vars == <<disk, dev, call, pc, j, i, dst, calls>>
driverVars == <<call, pc, j, i, dst, calls>>

Word == 0 .. Words - 1
Lba == 0 .. LbaSpace - 1

\* Values of words: what the disk held at first, what a call writes, and what
\* a data port without data returns.
Original(lba, w) == <<"disk", lba, w>>
Source(k) == <<"src", k>>
Junk == <<"junk">>
Value == {Original(s, w) : s \in 0 .. Sectors - 1, w \in Word}
            \cup {Source(k) : k \in 0 .. 2 * CountSpace * Words - 1} \cup {Junk}

ASSUME AtaAssumption ==
    /\ Words \in Nat /\ Words > 0 /\ Words % 2 = 0
    /\ Sectors \in Nat /\ LbaSpace \in Nat \ {0} /\ CountSpace \in Nat \ {0}
    /\ Prompt \in BOOLEAN
    /\ BadSectors \subseteq Nat
    /\ Reads \subseteq Nat \X (0 .. CountSpace - 1)
    /\ Writes \subseteq Nat \X (0 .. CountSpace - 1)
    /\ MaxCalls \in Nat

NoCall == [op |-> "none", first |-> 0, num |-> 0]

-----------------------------------------------------------------------------
(* The drive (not part of the repository: as the driver uses it).          *)
(*   idle      no command in progress                                      *)
(*   settling  busy, but the status port does not say so yet               *)
(*   busy      seeking, or moving a sector between disk and buffer         *)
(*   drq       transferring the words of a sector with the host            *)
(*   failed    gave up on a sector: ERR, and no data                       *)

DeviceState == {"idle", "settling", "busy", "drq", "failed"}

BSY == dev.state = "busy"
DRQ == dev.state = "drq"
RDY == dev.state # "busy"

GoBusy == IF Prompt THEN "busy" ELSE "settling"

\* A command is ignored by a drive that has not finished the previous one.
\* A count of 0 asks for as many sectors as the register has values.
Execute(op, lba, count) ==
    IF dev.state \in {"idle", "failed"}
    THEN [state |-> GoBusy, op |-> op, lba |-> lba, word |-> 0,
          left |-> IF count = 0 THEN CountSpace ELSE count]
    ELSE dev

\* The drive after n words went through the data port.
Advance(n) ==
    IF dev.word + n < Words THEN [dev EXCEPT !.word = @ + n]
    ELSE [dev EXCEPT !.word = 0, !.lba = @ + 1, !.left = @ - 1,
                     !.state = IF dev.left = 1 THEN "idle" ELSE GoBusy]

ShowBusy == dev.state = "settling" /\ dev' = [dev EXCEPT !.state = "busy"]

SectorReady ==
    /\ dev.state = "busy"
    /\ dev' = [dev EXCEPT !.state =
                 IF dev.lba \in BadSectors \/ dev.lba >= Sectors
                 THEN "failed" ELSE "drq"]

Device == (ShowBusy \/ SectorReady) /\ UNCHANGED <<disk, driverVars>>

-----------------------------------------------------------------------------
(* The driver.                                                             *)

Init ==
    /\ disk = [s \in 0 .. Sectors - 1 |-> [w \in Word |-> Original(s, w)]]
    /\ dev = [state |-> "idle", op |-> "none", lba |-> 0, word |-> 0, left |-> 0]
    /\ call = NoCall
    /\ pc = "returned"
    /\ j = 0 /\ i = 0
    /\ dst = <<>>
    /\ calls = 0

Call(op, first, num) ==
    /\ pc = "returned" /\ calls < MaxCalls
    /\ call' = [op |-> op, first |-> first, num |-> num]
    /\ pc' = "wait_drive"
    /\ j' = 0 /\ i' = 0
    /\ dst' = <<>>
    /\ calls' = calls + 1
    /\ UNCHANGED <<disk, dev>>

\* ATA_PIO_wait_BSY before the command: passes on a look that finds BSY clear.
WaitDrive ==
    /\ pc = "wait_drive"
    /\ ~BSY
    /\ pc' = "command"
    /\ UNCHANGED <<disk, dev, call, j, i, dst, calls>>

\* Address and count registers, then 0x20 or 0x30 to the command register.
\* The drive looks at the registers with the command, so this is one step.
Command ==
    /\ pc = "command"
    /\ dev' = Execute(call.op, call.first % LbaSpace, call.num)
    /\ pc' = IF call.num = 0 THEN "returned" ELSE "wait_bsy"
    /\ UNCHANGED <<disk, call, j, i, dst, calls>>

WaitBsy ==
    /\ pc = "wait_bsy"
    /\ ~BSY
    /\ pc' = "wait_drq"
    /\ UNCHANGED <<disk, dev, call, j, i, dst, calls>>

\* ATA_PIO_wait_DRQ tests PIO_STATUS_RDY, bit 6, and not bit 3.
WaitDrq ==
    /\ pc = "wait_drq"
    /\ RDY
    /\ pc' = "data"
    /\ UNCHANGED <<disk, dev, call, j, i, dst, calls>>

\* Faults: the counter is not reset; only the first sector is waited for; the
\* last sector is forgotten.
NextAccessNoReset(limit) ==
    /\ i' = i + 1
    /\ j' = IF i + 1 = limit THEN j + 1 ELSE j
    /\ pc' = IF i + 1 < limit THEN "data"
             ELSE IF j + 1 < call.num THEN "wait_bsy" ELSE "returned"
    /\ UNCHANGED <<call, calls>>
NextAccessNoWait(limit) ==
    /\ i' = IF i + 1 = limit THEN 0 ELSE i + 1
    /\ j' = IF i + 1 = limit THEN j + 1 ELSE j
    /\ pc' = IF i + 1 < limit \/ j + 1 < call.num THEN "data" ELSE "returned"
    /\ UNCHANGED <<call, calls>>
NextAccessTooFew(limit) ==
    /\ i' = IF i + 1 = limit THEN 0 ELSE i + 1
    /\ j' = IF i + 1 = limit THEN j + 1 ELSE j
    /\ pc' = IF i + 1 < limit THEN "data"
             ELSE IF j + 2 < call.num THEN "wait_bsy" ELSE "returned"
    /\ UNCHANGED <<call, calls>>

\* The inner loop's counter, and the sector loop's when it is done.
NextAccess(limit) ==
    /\ i' = IF i + 1 = limit THEN 0 ELSE i + 1
    /\ j' = IF i + 1 = limit THEN j + 1 ELSE j
    /\ pc' = IF i + 1 < limit THEN "data"
             ELSE IF j + 1 < call.num THEN "wait_bsy" ELSE "returned"
    /\ UNCHANGED <<call, calls>>

\* Fault: dest is not moved to the next sector.
ReadWordSamePlace ==
    /\ pc = "data" /\ call.op = "read" /\ DRQ
    /\ dst' = IF i = 0 THEN <<disk[dev.lba][dev.word]>>
              ELSE Append(dst, disk[dev.lba][dev.word])
    /\ dev' = Advance(1)
    /\ NextAccess(Words)
    /\ UNCHANGED disk

\* io_in16, Words times a sector
ReadWord ==
    /\ pc = "data" /\ call.op = "read"
    /\ \/ /\ DRQ /\ dev.op = "read"
          /\ dst' = Append(dst, disk[dev.lba][dev.word])
          /\ dev' = Advance(1)
       \/ /\ ~(DRQ /\ dev.op = "read")
          /\ dst' = Append(dst, Junk)
          /\ UNCHANGED dev
    /\ NextAccess(Words)
    /\ UNCHANGED disk

\* Fault: the source moves one word for each access.
WriteDwordOverlapping ==
    LET k == j * Words + i
    IN  /\ pc = "data" /\ call.op = "write"
        /\ \/ /\ DRQ /\ dev.op = "write"
              /\ disk' = [disk EXCEPT ![dev.lba][dev.word] = Source(k),
                                      ![dev.lba][dev.word + 1] = Source(k + 1)]
              /\ dev' = Advance(2)
           \/ /\ ~(DRQ /\ dev.op = "write")
              /\ UNCHANGED <<disk, dev>>
        /\ NextAccess(Words)
        /\ UNCHANGED dst

\* io_out32, also Words times a sector: each moves two words, so that the
\* loop goes through the source twice as fast as the drive takes sectors.
WriteDword ==
    LET k == 2 * (j * Words + i)
    IN  /\ pc = "data" /\ call.op = "write"
        /\ \/ /\ DRQ /\ dev.op = "write"
              /\ disk' = [disk EXCEPT ![dev.lba][dev.word] = Source(k),
                                      ![dev.lba][dev.word + 1] = Source(k + 1)]
              /\ dev' = Advance(2)
           \/ /\ ~(DRQ /\ dev.op = "write")
              /\ UNCHANGED <<disk, dev>>
        /\ NextAccess(Words)
        /\ UNCHANGED dst

Driver == WaitDrive \/ Command \/ WaitBsy \/ WaitDrq \/ ReadWord \/ WriteDword

Next ==
    \/ \E c \in Reads : Call("read", c[1], c[2])
    \/ \E c \in Writes : Call("write", c[1], c[2])
    \/ Driver
    \/ Device

\* The processor runs, and a drive that is busy is busy for a while.
Spec == Init /\ [][Next]_vars /\ WF_vars(Driver) /\ WF_vars(Device)

-----------------------------------------------------------------------------
(* Properties.                                                             *)

TypeOK ==
    /\ disk \in [0 .. Sectors - 1 -> [Word -> Value]]
    /\ dev \in [state : DeviceState, op : {"none", "read", "write"},
                lba : Nat, word : Word, left : Nat]
    /\ call \in [op : {"none", "read", "write"}, first : Nat,
                 num : 0 .. CountSpace - 1]
    /\ pc \in {"wait_drive", "command", "wait_bsy", "wait_drq", "data", "returned"}
    /\ j \in Nat /\ i \in Word
    /\ dst \in Seq(Value)
    /\ calls \in 0 .. MaxCalls

\* Word k of the sectors a read asks for, as far as the disk has them.
Requested(k) ==
    LET s == call.first + k \div Words
    IN  IF s < Sectors THEN disk[s][k % Words] ELSE Junk

Readable(s) == s < Sectors /\ s \notin BadSectors

(***************************************************************************)
(* "wait for the drive to finish whatever it is doing": when the driver    *)
(* gives a command, the drive has no transfer of an earlier one left.      *)
(***************************************************************************)
DriveFinished == pc = "command" => dev.state \in {"idle", "failed"}

(***************************************************************************)
(* Driver and drive agree on where they are: when a read takes a word from *)
(* the data port the drive is giving that very word of that very sector,   *)
(* or has given up and gives nothing until the next command.               *)
(***************************************************************************)
InStep ==
    pc = "data" /\ call.op = "read" /\ dev.state # "failed" =>
        /\ DRQ /\ dev.op = "read"
        /\ dev.lba = call.first + j /\ dev.word = i
        /\ dev.left = call.num - j

(***************************************************************************)
(* At any moment of a read the buffer holds the words of the sectors asked *)
(* for, in order, up to the first that the drive cannot read, and junk     *)
(* from there on: a failure, of which nothing tells the caller, displaces  *)
(* no word.  When the read returns it has stored all of them.              *)
(***************************************************************************)
ReadDelivers ==
    call.op = "read" =>
        /\ \A k \in 1 .. Len(dst) :
             dst[k] = IF \A s \in call.first .. call.first + (k - 1) \div Words : Readable(s)
                      THEN Requested(k - 1) ELSE Junk
        /\ pc = "returned" => Len(dst) = call.num * Words

(***************************************************************************)
(* A write of one sector that returns, and that the drive has finished,    *)
(* has stored the source there, the double length of the driver's loop     *)
(* notwithstanding; other sectors hold what they held or what an earlier   *)
(* write of one sector stored.                                             *)
(***************************************************************************)
WriteStores ==
    pc = "returned" /\ call.op = "write" /\ dev.state = "idle" =>
        \A s \in 0 .. Sectors - 1, w \in Word :
            IF s = call.first THEN disk[s][w] = Source(w)
            ELSE disk[s][w] \in {Original(s, w), Source(w)}

(***************************************************************************)
(* Polling ends: every call returns, failing sectors or not.               *)
(***************************************************************************)
CallsReturn == pc # "returned" ~> pc = "returned"
=============================================================================
