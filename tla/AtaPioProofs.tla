---------------------------- MODULE AtaPioProofs ----------------------------
(***************************************************************************)
(* Proofs about AtaPio: with a drive that is prompt, driver and drive stay *)
(* in step through any sequence of reads and of writes of one sector, for  *)
(* every sector size, every disk, whichever of its sectors fail, and every *)
(* set of calls; and being in step, they move the right words.             *)
(***************************************************************************)
EXTENDS AtaPio, SequenceTheorems, TLAPS

\* What a call must be for the driver to get it right: at least one sector,
\* and only sectors that 28 bits can address.  A write must be of one sector:
\* the loop moves twice the words, and more sectors would show.
GoodCall(c) == c[2] >= 1 /\ c[1] + c[2] <= LbaSpace

PromptDrive ==
    /\ Prompt
    /\ \A c \in Reads : GoodCall(c)
    /\ \A c \in Writes : GoodCall(c) /\ c[2] = 1

DriverState ==
    {"wait_drive", "command", "wait_bsy", "wait_drq", "data", "returned"}

Types ==
    /\ dev \in [state : DeviceState, op : {"none", "read", "write"},
                lba : Nat, word : Word, left : Nat]
    /\ call \in [op : {"none", "read", "write"}, first : Nat,
                 num : 0 .. CountSpace - 1]
    /\ pc \in DriverState
    /\ j \in Nat /\ i \in Word

\* The call in progress is one that the assumptions speak of.
Asked ==
    pc # "returned" =>
        /\ call.op \in {"read", "write"}
        /\ call.num >= 1 /\ call.first + call.num <= LbaSpace
        /\ call.op = "write" => call.num = 1
        /\ pc \in {"wait_drive", "command"} => j = 0
        /\ j < call.num
        /\ pc # "data" => i = 0

\* The drive has started on sector j of the call, or is about to.
AtSector ==
    /\ dev.op = call.op
    /\ dev.lba = call.first + j
    /\ dev.left = call.num - j

\* Where the drive is for each place of the driver, as long as it does not
\* fail; a failed drive stays failed until the next command.
Together ==
    /\ dev.state \in {"idle", "busy", "drq", "failed"}
    /\ pc \in {"returned", "wait_drive", "command"} => dev.state \in {"idle", "failed"}
    /\ pc = "wait_bsy" =>
         \/ dev.state = "failed"
         \/ dev.state \in {"busy", "drq"} /\ AtSector /\ dev.word = 0
    /\ pc = "wait_drq" =>
         \/ dev.state = "failed"
         \/ dev.state = "drq" /\ AtSector /\ dev.word = 0
    /\ pc = "data" /\ call.op = "read" =>
         \/ dev.state = "failed"
         \/ dev.state = "drq" /\ AtSector /\ dev.word = i
    /\ pc = "data" /\ call.op = "write" =>
         \/ dev.state = "failed"
         \/ dev.state = "drq" /\ AtSector /\ dev.word = 2 * i
         \/ dev.state = "idle" /\ 2 * i >= Words

StepInv == Types /\ Asked /\ Together

LEMMA WordFacts ==
    /\ Words \in Nat /\ Words > 1 /\ Words % 2 = 0
    /\ Word \subseteq Nat /\ 0 \in Word
    /\ CountSpace \in Nat \ {0} /\ LbaSpace \in Nat \ {0} /\ Sectors \in Nat
  BY AtaAssumption DEF Word

LEMMA StepInvInit == Init => StepInv
  <1> SUFFICES ASSUME Init PROVE StepInv
    OBVIOUS
  <1>1. 0 \in 0 .. CountSpace - 1
    BY WordFacts
  <1> QED
    BY <1>1, WordFacts DEF Init, StepInv, Types, Asked, Together, NoCall,
       DeviceState, DriverState

\* The drive by itself.
LEMMA DeviceStep ==
  ASSUME PromptDrive, StepInv, Device
  PROVE  StepInv'
  <1>1. dev.state = "busy" /\ SectorReady /\ UNCHANGED driverVars
    BY DEF Device, ShowBusy, SectorReady, StepInv, Together, driverVars
  <1>2. pc = "wait_bsy" /\ AtSector /\ dev.word = 0
    <2>1. pc \in {"wait_drive", "command", "wait_bsy", "wait_drq", "data", "returned"}
          /\ call.op \in {"none", "read", "write"}
      BY DEF StepInv, Types, DriverState
    <2>2. pc # "returned" => call.op \in {"read", "write"}
      BY DEF StepInv, Asked
    <2> QED
      BY <1>1, <2>1, <2>2 DEF StepInv, Together
  <1>3. \E st \in {"drq", "failed"} : dev' = [dev EXCEPT !.state = st]
    BY <1>1 DEF SectorReady
  <1> QED
    BY <1>1, <1>2, <1>3 DEF driverVars, StepInv, Types, Asked, Together, AtSector, DeviceState

LEMMA CallStep ==
  ASSUME PromptDrive, StepInv, NEW op \in {"read", "write"},
         NEW c \in IF op = "read" THEN Reads ELSE Writes,
         Call(op, c[1], c[2])
  PROVE  StepInv'
  <1>1. /\ c[1] \in Nat /\ c[2] \in 0 .. CountSpace - 1
        /\ GoodCall(c) /\ (op = "write" => c[2] = 1)
    BY AtaAssumption DEF PromptDrive
  <1>2. Types'
    BY <1>1, WordFacts DEF Call, StepInv, Types, DriverState
  <1>3. Asked'
    BY <1>1, WordFacts DEF Call, Asked, GoodCall
  <1>4. Together'
    BY DEF Call, StepInv, Together
  <1> QED
    BY <1>2, <1>3, <1>4 DEF StepInv

LEMMA CommandStep ==
  ASSUME PromptDrive, StepInv, Command
  PROVE  StepInv'
  <1>1. /\ call.first \in Nat /\ call.num \in Nat /\ call.num >= 1
        /\ call.first < LbaSpace /\ j = 0 /\ i = 0 /\ dev.state \in {"idle", "failed"}
        /\ call.op \in {"read", "write"} /\ call.first + call.num <= LbaSpace
        /\ call.op = "write" => call.num = 1
    BY WordFacts DEF StepInv, Types, Asked, Together, PromptDrive, Command
  <1>2. call.first % LbaSpace = call.first
    BY <1>1, WordFacts
  <1>3. /\ dev' = [state |-> "busy", op |-> call.op, lba |-> call.first,
                   word |-> 0, left |-> call.num]
        /\ pc' = "wait_bsy"
        /\ UNCHANGED <<call, j, i>>
    BY <1>1, <1>2 DEF Command, Execute, GoBusy, PromptDrive
  <1>4. Types'
    BY <1>1, <1>3, WordFacts DEF StepInv, Types, DeviceState, DriverState
  <1>5. Asked'
    BY <1>1, <1>3 DEF Asked
  <1>6. Together'
    BY <1>1, <1>3 DEF Together, AtSector
  <1> QED
    BY <1>4, <1>5, <1>6 DEF StepInv

\* The three polling loops.
LEMMA WaitStep ==
  ASSUME PromptDrive, StepInv, WaitDrive \/ WaitBsy \/ WaitDrq
  PROVE  StepInv'
  <1>1. CASE WaitDrive
    BY <1>1 DEF WaitDrive, BSY, StepInv, Types, Asked, Together, AtSector, DriverState
  <1>2. CASE WaitBsy
    BY <1>2 DEF WaitBsy, BSY, StepInv, Types, Asked, Together, AtSector, DriverState
  <1>3. CASE WaitDrq
    BY <1>3, WordFacts
    DEF WaitDrq, RDY, StepInv, Types, Asked, Together, AtSector, DriverState
  <1> QED
    BY <1>1, <1>2, <1>3

\* A word from a drive that gives one.
LEMMA ReadDataStep ==
  ASSUME PromptDrive, StepInv, ReadWord, dev.state # "failed"
  PROVE  StepInv'
  <1>1. /\ dev.state = "drq" /\ AtSector /\ dev.word = i
        /\ pc = "data" /\ call.op = "read" /\ dev.op = "read"
        /\ j < call.num /\ call.first + call.num <= LbaSpace
        /\ i \in Nat /\ j \in Nat /\ call.num \in Nat /\ call.first \in Nat
        /\ i < Words
    BY WordFacts DEF ReadWord, StepInv, Types, Asked, Together, AtSector, Word
  <1>2. dev' = Advance(1) /\ NextAccess(Words) /\ UNCHANGED call
    BY <1>1 DEF ReadWord, DRQ, NextAccess
  <1>3. CASE i + 1 < Words
    <2>1. /\ dev' = [dev EXCEPT !.word = @ + 1]
          /\ i' = i + 1 /\ j' = j /\ pc' = "data"
      BY <1>1, <1>2, <1>3, WordFacts DEF Advance, NextAccess
    <2>2. i + 1 \in Word
      BY <1>1, <1>3, WordFacts DEF Word
    <2> QED
      BY <1>1, <1>2, <2>1, <2>2
      DEF StepInv, Types, Asked, Together, AtSector, DriverState
  <1>4. CASE ~(i + 1 < Words)
    <2>1. i + 1 = Words
      BY <1>1, <1>4, WordFacts
    <2> DEFINE st == IF dev.left = 1 THEN "idle" ELSE "busy"
    <2>2. /\ dev' = [dev EXCEPT !.word = 0, !.lba = @ + 1, !.left = @ - 1,
                        !.state = st]
          /\ i' = 0 /\ j' = j + 1
          /\ pc' = IF j + 1 < call.num THEN "wait_bsy" ELSE "returned"
      BY <1>1, <1>2, <2>1, WordFacts DEF Advance, NextAccess, GoBusy, PromptDrive
    <2>3. dev.left = 1 <=> ~(j + 1 < call.num)
      BY <1>1 DEF AtSector
    <2>4. dev.left - 1 \in Nat /\ dev.lba + 1 \in Nat
      BY <1>1 DEF AtSector
    <2> HIDE DEF st
    <2>5. dev' = [state |-> st, op |-> dev.op, lba |-> dev.lba + 1, word |-> 0,
                  left |-> dev.left - 1]
      BY <2>2 DEF StepInv, Types
    <2>6. dev' = [state |-> IF dev.left = 1 THEN "idle" ELSE "busy",
                  op |-> dev.op, lba |-> dev.lba + 1, word |-> 0,
                  left |-> dev.left - 1]
      BY <2>5 DEF st
    <2>7. Types'
      BY <1>1, <1>2, <2>2, <2>4, <2>6, WordFacts
      DEF StepInv, Types, DriverState, DeviceState
    <2>8. Asked'
      BY <1>1, <1>2, <2>2 DEF Asked
    <2>9. AtSector'
      BY <1>1, <1>2, <2>2, <2>6 DEF AtSector
    <2>10. Together'
      BY <1>1, <1>2, <2>2, <2>3, <2>9, <2>6 DEF Together
    <2> QED
      BY <2>7, <2>8, <2>10 DEF StepInv
  <1> QED
    BY <1>3, <1>4

\* No word from a drive that has failed.
LEMMA ReadJunkStep ==
  ASSUME PromptDrive, StepInv, ReadWord, dev.state = "failed"
  PROVE  StepInv'
  <1>1. /\ pc = "data" /\ call.op = "read" /\ UNCHANGED <<dev, call>>
        /\ NextAccess(Words) /\ j < call.num
        /\ i \in Nat /\ i < Words /\ j \in Nat /\ call.num \in Nat
    BY WordFacts DEF ReadWord, DRQ, NextAccess, StepInv, Types, Asked, Word
  <1>2. /\ i' \in Word /\ j' \in Nat
        /\ pc' \in {"data", "wait_bsy", "returned"}
        /\ pc' # "returned" => j' < call.num
        /\ pc' # "data" => i' = 0
    BY <1>1, WordFacts DEF NextAccess, Word
  <1> QED
    BY <1>1, <1>2 DEF StepInv, Types, Asked, Together, DriverState

LEMMA WriteDwordStep ==
  ASSUME PromptDrive, StepInv, WriteDword
  PROVE  StepInv'
  <1>1. /\ pc = "data" /\ call.op = "write" /\ call.num = 1 /\ j = 0
        /\ i \in Nat /\ i < Words /\ call.first \in Nat
        /\ call.first + 1 <= LbaSpace
    BY WordFacts DEF WriteDword, StepInv, Types, Asked, Word
  <1>2. NextAccess(Words) /\ UNCHANGED call
    BY DEF WriteDword, NextAccess
  <1>3. /\ i' \in Word /\ j' \in Nat /\ pc' \in {"data", "returned"}
        /\ pc' = "data" => i' = i + 1 /\ j' = 0
    BY <1>1, <1>2, WordFacts DEF NextAccess, Word
  <1>4. Asked'
    BY <1>1, <1>2, <1>3 DEF Asked, StepInv
  <1>5. pc' = "returned" => i + 1 = Words
    BY <1>1, <1>2, WordFacts DEF NextAccess
  <1>6. CASE dev.state = "drq"
    <2>1. AtSector /\ dev.word = 2 * i /\ 2 * i < Words /\ dev.left = 1 /\ dev.op = "write"
      BY <1>1, <1>6, WordFacts DEF StepInv, Together, AtSector, Types, Word
    <2>2. dev' = Advance(2)
      BY <1>6, <2>1 DEF WriteDword, DRQ
    <2>3. CASE 2 * i + 2 < Words
      <3>1. dev' = [dev EXCEPT !.word = @ + 2] /\ 2 * i + 2 \in Word
        BY <1>1, <2>1, <2>2, <2>3, WordFacts DEF Advance, Word
      <3>2. pc' = "data"
        BY <1>1, <1>3, <1>5, <2>3
      <3> QED
        BY <1>1, <1>2, <1>3, <1>4, <1>6, <2>1, <3>1, <3>2
        DEF StepInv, Types, Together, AtSector, DriverState
    <2>4. CASE ~(2 * i + 2 < Words)
      <3>1. dev' = [dev EXCEPT !.word = 0, !.lba = @ + 1, !.left = @ - 1,
                      !.state = "idle"]
        BY <1>1, <2>1, <2>2, <2>4, WordFacts DEF Advance
      <3>2. dev.left - 1 \in Nat /\ dev.lba + 1 \in Nat
        BY <1>1, <2>1 DEF AtSector
      <3>3. Words \in Nat /\ 2 * (i + 1) >= Words
        BY <1>1, <2>4, WordFacts
      <3> QED
        BY <1>1, <1>2, <1>3, <1>4, <3>1, <3>2, <3>3, WordFacts
        DEF StepInv, Types, Together, DriverState, DeviceState
    <2> QED
      BY <2>3, <2>4
  <1>7. CASE dev.state = "idle"
    <2>1. 2 * i >= Words /\ UNCHANGED dev
      BY <1>1, <1>7 DEF StepInv, Together, WriteDword, DRQ
    <2>2. 2 * (i + 1) >= Words
      BY <1>1, <2>1, WordFacts
    <2> QED
      BY <1>1, <1>2, <1>3, <1>4, <1>7, <2>1, <2>2
      DEF StepInv, Types, Together, DriverState
  <1>8. CASE dev.state = "failed"
    BY <1>1, <1>2, <1>3, <1>4, <1>8
    DEF WriteDword, DRQ, StepInv, Types, Together, DriverState
  <1> QED
    BY <1>1, <1>6, <1>7, <1>8 DEF StepInv, Together

LEMMA StepInvStep ==
  ASSUME PromptDrive
  PROVE  StepInv /\ [Next]_vars => StepInv'
  <1> SUFFICES ASSUME StepInv, [Next]_vars PROVE StepInv'
    OBVIOUS
  <1>1. ASSUME NEW c \in Reads, Call("read", c[1], c[2]) PROVE StepInv'
    BY <1>1, CallStep
  <1>2. ASSUME NEW c \in Writes, Call("write", c[1], c[2]) PROVE StepInv'
    BY <1>2, CallStep
  <1>3. CASE Driver
    BY <1>3, WaitStep, CommandStep, ReadDataStep, ReadJunkStep, WriteDwordStep DEF Driver
  <1>4. CASE Device
    BY <1>4, DeviceStep
  <1>5. CASE UNCHANGED vars
    BY <1>5 DEF vars, StepInv, Types, Asked, Together, AtSector
  <1> QED
    BY <1>1, <1>2, <1>3, <1>4, <1>5 DEF Next

(***************************************************************************)
(* The polling of ATA_PIO_read_sectors and ATA_PIO_write_sectors keeps     *)
(* step with a drive that shows BSY at once: until the drive gives up,     *)
(* each word is read when the drive gives that word, although the driver   *)
(* tests the ready bit and neither the data request bit nor an error bit.  *)
(***************************************************************************)
THEOREM ReadsInStep == ASSUME PromptDrive PROVE Spec => []InStep
  <1>1. StepInv => InStep
    BY DEF StepInv, Together, AtSector, InStep, DRQ
  <1> QED
    BY <1>1, StepInvInit, StepInvStep, PTL DEF Spec

(***************************************************************************)
(* Under the same assumptions no command is given to a drive that is still *)
(* busy with an earlier one.                                               *)
(***************************************************************************)
THEOREM CommandsFindDriveIdle == ASSUME PromptDrive PROVE Spec => []DriveFinished
  <1>1. StepInv => DriveFinished
    BY DEF StepInv, Together, DriveFinished
  <1> QED
    BY <1>1, StepInvInit, StepInvStep, PTL DEF Spec

-----------------------------------------------------------------------------
(* What the transfers move.  The invariant ties what the driver cannot     *)
(* see, whether the drive has given up, to the sectors of the call.        *)

DataTypes ==
    /\ disk \in [0 .. Sectors - 1 -> [Word -> Value]]
    /\ dst \in Seq(Value)
    /\ calls \in 0 .. MaxCalls

Transferring == pc \in {"wait_bsy", "wait_drq", "data"}

\* A drive that goes on has read every sector before, one that gives up has
\* met a sector that it cannot read.
DriveKnows ==
    call.op = "read" /\ Transferring =>
        /\ dev.state # "failed" =>
             \A s \in call.first .. call.first + j - 1 : Readable(s)
        /\ dev.state = "drq" => Readable(call.first + j)
        /\ dev.state = "failed" =>
             \E s \in call.first .. call.first + j : ~Readable(s)

\* Word k of the buffer, from 1, after call c of a disk that holds d.
Expected(c, d, k) ==
    IF \A s \in c.first .. c.first + (k - 1) \div Words : Readable(s)
    THEN d[c.first + (k - 1) \div Words][(k - 1) % Words] ELSE Junk

Delivered ==
    call.op = "read" =>
        /\ Len(dst) = j * Words + i
        /\ pc = "returned" => j = call.num /\ i = 0
        /\ \A k \in 1 .. Len(dst) : dst[k] = Expected(call, disk, k)

\* Writes store word w of the source in word w of a sector or leave it, and
\* the drive has finished only with a sector that has all of them.
Stored ==
    /\ \A s \in 0 .. Sectors - 1, w \in Word : disk[s][w] \in {Original(s, w), Source(w)}
    /\ call.op = "write" /\ call.first < Sectors =>
         /\ pc = "data" /\ dev.state = "drq" =>
              \A w \in Word : w < 2 * i => disk[call.first][w] = Source(w)
         /\ pc \in {"data", "returned"} /\ dev.state = "idle" =>
              \A w \in Word : disk[call.first][w] = Source(w)

DataInv == DataTypes /\ DriveKnows /\ Delivered /\ Stored

\* The position of a word gives its sector and its place there.
LEMMA Position ==
    ASSUME NEW n \in Nat, NEW w \in Word
    PROVE  /\ n * Words + w \in Nat
           /\ (n * Words + w) \div Words = n /\ (n * Words + w) % Words = w
  <1>1. Words \in Nat \ {0} /\ n * Words \in Nat /\ w \in 0 .. Words - 1
    BY WordFacts DEF Word
  <1> QED
    BY <1>1

\* The values that words take.
LEMMA Values ==
    /\ Junk \in Value
    /\ \A s \in 0 .. Sectors - 1, w \in Word : Original(s, w) \in Value
    /\ \A k \in 0 .. 2 * Words - 1 : Source(k) \in Value
  <1>1. /\ CountSpace \in Nat /\ CountSpace >= 1 /\ Words \in Nat
    BY WordFacts
  <1>2. 2 * CountSpace * Words >= 2 * Words /\ 2 * CountSpace * Words \in Nat
    BY <1>1
  <1>3. \A k \in 0 .. 2 * Words - 1 : k \in 0 .. 2 * CountSpace * Words - 1
    BY <1>1, <1>2
  <1> QED
    BY <1>3 DEF Value

LEMMA DataInvInit == Init => DataInv
  <1> SUFFICES ASSUME Init PROVE DataInv
    OBVIOUS
  <1>1. disk \in [0 .. Sectors - 1 -> [Word -> Value]]
    BY Values DEF Init
  <1>2. dst \in Seq(Value) /\ calls \in 0 .. MaxCalls
    BY AtaAssumption, EmptySeq DEF Init
  <1>3. Stored
    BY DEF Init, Stored, NoCall
  <1> QED
    BY <1>1, <1>2, <1>3 DEF Init, DataInv, DataTypes, DriveKnows, Delivered, NoCall

\* A new call finds whatever the earlier ones left on the disk.
LEMMA CallData ==
    ASSUME StepInv, DataInv, NEW op \in {"read", "write"},
           NEW c \in IF op = "read" THEN Reads ELSE Writes, Call(op, c[1], c[2])
    PROVE  DataInv'
  <1>1. DataTypes'
    BY AtaAssumption, EmptySeq DEF Call, DataInv, DataTypes
  <1>2. DriveKnows'
    BY DEF Call, DriveKnows, Transferring
  <1>3. Delivered'
    BY WordFacts DEF Call, Delivered
  <1>4. Stored'
    BY DEF Call, DataInv, Stored
  <1> QED
    BY <1>1, <1>2, <1>3, <1>4 DEF DataInv

\* The steps that move no word.
LEMMA WaitData ==
    ASSUME PromptDrive, StepInv, DataInv,
           WaitDrive \/ Command \/ WaitBsy \/ WaitDrq \/ Device
    PROVE  DataInv'
  <1>0. UNCHANGED <<disk, dst, calls, call, j, i>>
    BY DEF WaitDrive, Command, WaitBsy, WaitDrq, Device, driverVars
  <1>1. DataTypes'
    BY <1>0 DEF DataInv, DataTypes
  <1>2. pc' # "returned"
    BY WordFacts DEF WaitDrive, Command, WaitBsy, WaitDrq, Device, driverVars,
       ShowBusy, SectorReady, StepInv, Types, Asked, Together
  <1>3. Delivered'
    BY <1>0, <1>2 DEF DataInv, Delivered, Expected
  <1>4. ASSUME Device
        PROVE  /\ pc = "wait_bsy" /\ pc' = pc
               /\ dev.state = "busy" /\ dev.lba = call.first + j
               /\ dev'.state = IF Readable(dev.lba) THEN "drq" ELSE "failed"
    <2>1. dev.state = "busy" /\ SectorReady /\ UNCHANGED driverVars
      BY <1>4 DEF Device, ShowBusy, SectorReady, StepInv, Together, driverVars
    <2>2. pc \in DriverState /\ (pc # "returned" => call.op \in {"read", "write"})
      BY DEF StepInv, Types, Asked
    <2>3. pc = "wait_bsy" /\ AtSector
      BY <2>1, <2>2 DEF StepInv, Together, DriverState
    <2>4. dev.lba \in Nat /\ Sectors \in Nat
      BY WordFacts DEF StepInv, Types
    <2> QED
      BY <2>1, <2>3, <2>4 DEF SectorReady, AtSector, Readable, driverVars, StepInv, Types
  <1>5. call.first \in Nat /\ j \in Nat
    BY DEF StepInv, Types
  <1>6. DriveKnows'
    <2>1. CASE WaitDrive
      BY <2>1 DEF WaitDrive, DriveKnows, Transferring
    <2>2. CASE Command
      <3>1. j = 0 /\ dev'.state = "busy" /\ UNCHANGED <<call, j>>
        BY <2>2, WordFacts DEF Command, Execute, GoBusy, PromptDrive, StepInv, Asked,
           Together
      <3> QED
        BY <1>5, <3>1 DEF DriveKnows
    <2>3. CASE WaitBsy \/ WaitDrq
      BY <2>3 DEF WaitBsy, WaitDrq, DataInv, DriveKnows, Transferring
    <2>4. CASE Device
      BY <1>0, <1>4, <1>5, <2>4 DEF DataInv, DriveKnows, Transferring
    <2> QED
      BY <2>1, <2>2, <2>3, <2>4
  <1>7. Stored'
    <2>1. \A s \in 0 .. Sectors - 1, w \in Word : disk'[s][w] \in {Original(s, w), Source(w)}
      BY <1>0 DEF DataInv, Stored
    <2>2. pc' = "data" => i = 0 /\ dev' = dev /\ dev.state # "idle"
      BY <1>4 DEF WaitDrive, Command, WaitBsy, WaitDrq, StepInv, Asked, Together
    <2>3. \A w \in Word : ~(w < 2 * 0)
      BY WordFacts
    <2> QED
      BY <1>0, <1>2, <2>1, <2>2, <2>3 DEF Stored
  <1> QED
    BY <1>1, <1>3, <1>6, <1>7 DEF DataInv

\* A word read, or junk from a drive that has given up.
LEMMA ReadData ==
    ASSUME PromptDrive, StepInv, DataInv, ReadWord
    PROVE  DataInv'
  <1> DEFINE p == j * Words + i
  <1>1. /\ pc = "data" /\ call.op = "read" /\ j < call.num
        /\ UNCHANGED <<call, disk, calls>> /\ NextAccess(Words)
        /\ i \in Word /\ i \in Nat /\ j \in Nat /\ call.num \in Nat /\ call.first \in Nat
        /\ i < Words /\ Words \in Nat
    BY WordFacts DEF ReadWord, NextAccess, StepInv, Types, Asked, Word
  <1>2. /\ p \in Nat /\ p \div Words = j /\ p % Words = i
    BY <1>1, Position
  <1>3. p + 1 - 1 = p /\ p + 1 \in Nat
    BY <1>2
  <1>4. /\ Len(dst) = p /\ dst \in Seq(Value)
        /\ \A k \in 1 .. p : dst[k] = Expected(call, disk, k)
    BY <1>1 DEF DataInv, DataTypes, Delivered
  <1>5. Expected(call, disk, p + 1) =
          IF \A s \in call.first .. call.first + j : Readable(s)
          THEN disk[call.first + j][i] ELSE Junk
    BY <1>2, <1>3 DEF Expected
  <1> HIDE DEF p
  <1>6. PICK v \in Value : dst' = Append(dst, v) /\ v = Expected(call, disk, p + 1)
    <2>1. CASE dev.state = "failed"
      <3>1. dst' = Append(dst, Junk)
        BY <2>1 DEF ReadWord, DRQ
      <3>2. \E s \in call.first .. call.first + j : ~Readable(s)
        BY <1>1, <2>1 DEF DataInv, DriveKnows, Transferring
      <3> QED
        BY <1>5, <3>1, <3>2, Values
    <2>2. CASE dev.state # "failed"
      <3>1. dev.state = "drq" /\ dev.op = "read" /\ dev.lba = call.first + j /\ dev.word = i
        BY <1>1, <2>2 DEF StepInv, Together, AtSector
      <3>2. dst' = Append(dst, disk[call.first + j][i])
        BY <3>1 DEF ReadWord, DRQ
      <3>3. \A s \in call.first .. call.first + j : Readable(s)
        BY <1>1, <3>1 DEF DataInv, DriveKnows, Transferring
      <3>4. call.first + j \in 0 .. Sectors - 1
        BY <1>1, <3>3, WordFacts DEF Readable
      <3>5. disk[call.first + j][i] \in Value
        BY <1>1, <3>4 DEF DataInv, DataTypes
      <3> QED
        BY <1>5, <3>2, <3>3, <3>5
    <2> QED
      BY <2>1, <2>2
  <1>7. DataTypes'
    BY <1>1, <1>4, <1>6 DEF DataInv, DataTypes
  <1>8. /\ j' \in Nat /\ i' \in Nat /\ j' * Words + i' = p + 1
        /\ pc' \in {"data", "wait_bsy", "returned"}
        /\ pc' = "returned" => j' = call.num /\ i' = 0
    <2>1. CASE i + 1 < Words
      BY <1>1, <2>1 DEF NextAccess, p
    <2>2. CASE ~(i + 1 < Words)
      <3>1. i + 1 = Words /\ i' = 0 /\ j' = j + 1
        BY <1>1, <2>2 DEF NextAccess
      <3>2. (j + 1) * Words = j * Words + Words
        BY <1>1
      <3>3. j' * Words + i' = p + 1
        BY <1>1, <3>1, <3>2 DEF p
      <3>4. /\ pc' \in {"wait_bsy", "returned"}
            /\ pc' = "returned" => j + 1 = call.num
        BY <1>1, <3>1 DEF NextAccess
      <3> QED
        BY <1>1, <3>1, <3>3, <3>4
    <2> QED
      BY <2>1, <2>2
  <1>9. Delivered'
    <2>1. Len(dst') = p + 1 /\ dst'[p + 1] = Expected(call, disk, p + 1)
          /\ \A k \in 1 .. p : dst'[k] = dst[k]
      BY <1>2, <1>4, <1>6
    <2>2. \A k \in 1 .. p + 1 : dst'[k] = Expected(call, disk, k)
      BY <1>2, <1>4, <2>1
    <2>3. \A k : Expected(call', disk', k) = Expected(call, disk, k)
      BY <1>1
    <2> QED
      BY <1>1, <1>8, <2>1, <2>2, <2>3 DEF Delivered
  <1>10. DriveKnows'
    <2>1. CASE dev.state = "failed"
      <3>1. dev' = dev /\ j' \in {j, j + 1}
        BY <1>1, <2>1 DEF ReadWord, DRQ, NextAccess
      <3>2. \E s \in call.first .. call.first + j : ~Readable(s)
        BY <1>1, <2>1 DEF DataInv, DriveKnows, Transferring
      <3>3. \E s \in call.first .. call.first + j' : ~Readable(s)
        BY <1>1, <3>1, <3>2
      <3> QED
        BY <1>1, <2>1, <3>1, <3>3 DEF DriveKnows
    <2>2. CASE dev.state # "failed"
      <3>1. dev.state = "drq" /\ dev.op = "read" /\ dev.word = i
        BY <1>1, <2>2 DEF StepInv, Together, AtSector
      <3>2. dev' = Advance(1)
        BY <1>1, <3>1 DEF ReadWord, DRQ
      <3>3. \A s \in call.first .. call.first + j : Readable(s)
        BY <1>1, <3>1 DEF DataInv, DriveKnows, Transferring
      <3>4. CASE i + 1 < Words
        <4>1. dev'.state = "drq" /\ j' = j
          BY <1>1, <3>1, <3>2, <3>4 DEF Advance, NextAccess, StepInv, Types
        <4> QED
          BY <1>1, <3>3, <4>1 DEF DriveKnows
      <3>5. CASE ~(i + 1 < Words)
        <4>1. dev'.state \in {"idle", "busy"} /\ j' = j + 1
          BY <1>1, <3>1, <3>2, <3>5 DEF Advance, NextAccess, StepInv, Types, GoBusy,
             PromptDrive
        <4>2. call.first + j' - 1 = call.first + j
          BY <1>1, <4>1
        <4> QED
          BY <1>1, <3>3, <4>1, <4>2 DEF DriveKnows
      <3> QED
        BY <3>4, <3>5
    <2> QED
      BY <2>1, <2>2
  <1>11. Stored'
    BY <1>1 DEF DataInv, Stored
  <1> QED
    BY <1>7, <1>9, <1>10, <1>11 DEF DataInv

\* Two words written, or none once the drive has its sector or has given up.
LEMMA WriteData ==
    ASSUME PromptDrive, StepInv, DataInv, WriteDword
    PROVE  DataInv'
  <1>1. /\ pc = "data" /\ call.op = "write" /\ call.num = 1 /\ j = 0
        /\ UNCHANGED <<call, dst, calls>> /\ NextAccess(Words)
        /\ i \in Nat /\ i < Words /\ Words \in Nat /\ call.first \in Nat
    BY WordFacts DEF WriteDword, NextAccess, StepInv, Types, Asked, Word
  <1>2. /\ pc' \in {"data", "returned"}
        /\ pc' = "data" => i' = i + 1
    BY <1>1 DEF NextAccess
  <1>3. DriveKnows' /\ Delivered'
    BY <1>1 DEF DriveKnows, Delivered
  <1>4. CASE dev.state = "drq"
    <2>1. /\ dev.lba = call.first /\ dev.word = 2 * i /\ dev.left = 1 /\ dev.op = "write"
          /\ 2 * i \in Word /\ 2 * i < Words
      BY <1>1, <1>4 DEF StepInv, Together, AtSector, Types, Word
    <2>2. 2 * i + 1 \in Word
      BY <1>1, <2>1, WordFacts DEF Word
    <2>3. 2 * (j * Words + i) = 2 * i
      BY <1>1
    <2>4. /\ disk' = [disk EXCEPT ![call.first][2 * i] = Source(2 * i),
                                  ![call.first][2 * i + 1] = Source(2 * i + 1)]
          /\ dev' = Advance(2)
      BY <1>4, <2>1, <2>3 DEF WriteDword, DRQ
    <2>5. Source(2 * i) \in Value /\ Source(2 * i + 1) \in Value
      BY <1>1, <2>1, Values
    <2>6. disk' \in [0 .. Sectors - 1 -> [Word -> Value]]
      BY <2>1, <2>2, <2>4, <2>5 DEF DataInv, DataTypes
    <2>7. \A s \in 0 .. Sectors - 1, w \in Word :
             disk'[s][w] = IF s = call.first /\ w \in {2 * i, 2 * i + 1}
                           THEN Source(w) ELSE disk[s][w]
      BY <2>1, <2>2, <2>4 DEF DataInv, DataTypes
    <2>8. \A s \in 0 .. Sectors - 1, w \in Word : disk'[s][w] \in {Original(s, w), Source(w)}
      BY <2>7 DEF DataInv, Stored
    <2>9. ASSUME call.first < Sectors
          PROVE  \A w \in Word : w < 2 * i + 2 => disk'[call.first][w] = Source(w)
      <3>1. call.first \in 0 .. Sectors - 1
        BY <1>1, <2>9, WordFacts
      <3>2. \A w \in Word : w < 2 * i => disk[call.first][w] = Source(w)
        BY <1>1, <1>4, <2>9 DEF DataInv, Stored
      <3>3. \A w \in Word : w < 2 * i + 2 => w < 2 * i \/ w \in {2 * i, 2 * i + 1}
        BY <1>1, WordFacts
      <3> QED
        BY <2>7, <3>1, <3>2, <3>3
    <2>10. dev'.state = "idle" => 2 * i + 2 >= Words
      BY <1>1, <1>4, <2>1, <2>4 DEF Advance, StepInv, Types
    <2>11. \A w \in Word : w \in Nat /\ w < Words
      BY <1>1 DEF Word
    <2>12. 2 * (i + 1) = 2 * i + 2
      BY <1>1
    <2>13. Stored'
      BY <1>1, <1>2, <2>8, <2>9, <2>10, <2>11, <2>12 DEF Stored
    <2> QED
      BY <1>1, <1>3, <2>6, <2>13 DEF DataInv, DataTypes
  <1>5. CASE dev.state # "drq"
    <2>1. UNCHANGED <<disk, dev>>
      BY <1>5 DEF WriteDword, DRQ
    <2> QED
      BY <1>1, <1>2, <1>3, <1>5, <2>1 DEF DataInv, DataTypes, Stored
  <1> QED
    BY <1>4, <1>5

LEMMA DataInvStep ==
    ASSUME PromptDrive
    PROVE  StepInv /\ DataInv /\ [Next]_vars => DataInv'
  <1> SUFFICES ASSUME StepInv, DataInv, [Next]_vars PROVE DataInv'
    OBVIOUS
  <1>1. ASSUME NEW c \in Reads, Call("read", c[1], c[2]) PROVE DataInv'
    BY <1>1, CallData
  <1>2. ASSUME NEW c \in Writes, Call("write", c[1], c[2]) PROVE DataInv'
    BY <1>2, CallData
  <1>3. CASE Driver \/ Device
    BY <1>3, WaitData, ReadData, WriteData DEF Driver
  <1>4. CASE UNCHANGED vars
    BY <1>4 DEF vars, DataInv, DataTypes, DriveKnows, Transferring, Delivered, Expected, Stored
  <1> QED
    BY <1>1, <1>2, <1>3, <1>4 DEF Next

LEMMA DataInvariance == ASSUME PromptDrive PROVE Spec => [](StepInv /\ DataInv)
BY StepInvInit, StepInvStep, DataInvInit, DataInvStep, PTL DEF Spec

(***************************************************************************)
(* Driver and drive keep their types.                                      *)
(***************************************************************************)
THEOREM TypeCorrect == ASSUME PromptDrive PROVE Spec => []TypeOK
  <1>1. StepInv /\ DataInv => TypeOK
    BY DEF StepInv, Types, DataInv, DataTypes, TypeOK, DriverState
  <1> QED
    BY <1>1, DataInvariance, PTL

(***************************************************************************)
(* ATA_PIO_read_sectors delivers every sector up to the first that fails,  *)
(* whole and in its place, and junk from there on.                         *)
(***************************************************************************)
THEOREM ReadsDeliver == ASSUME PromptDrive PROVE Spec => []ReadDelivers
  <1>1. StepInv /\ DataInv => ReadDelivers
    <2> SUFFICES ASSUME StepInv, DataInv, call.op = "read" PROVE ReadDelivers
      BY DEF ReadDelivers
    <2>1. /\ call.first \in Nat /\ call.num \in Nat /\ Words \in Nat \ {0}
          /\ Len(dst) \in Nat
      BY WordFacts DEF StepInv, Types, DataInv, DataTypes
    <2>2. ASSUME NEW k \in 1 .. Len(dst),
                 \A s \in call.first .. call.first + (k - 1) \div Words : Readable(s)
          PROVE  disk[call.first + (k - 1) \div Words][(k - 1) % Words] = Requested(k - 1)
      <3>1. k - 1 \in Nat /\ (k - 1) \div Words \in Nat
        BY <2>1
      <3>2. Readable(call.first + (k - 1) \div Words)
        BY <2>1, <2>2, <3>1
      <3> QED
        BY <3>2 DEF Readable, Requested
    <2>3. \A k \in 1 .. Len(dst) : dst[k] = Expected(call, disk, k)
      BY DEF DataInv, Delivered
    <2>4. pc = "returned" => Len(dst) = call.num * Words
      BY <2>1 DEF DataInv, Delivered
    <2> QED
      BY <2>2, <2>3, <2>4 DEF Expected, ReadDelivers
  <1> QED
    BY <1>1, DataInvariance, PTL

(***************************************************************************)
(* ATA_PIO_write_sectors, for one sector: the loop that moves twice the    *)
(* words of a sector stores those of the sector and touches no other.      *)
(***************************************************************************)
THEOREM WritesStore == ASSUME PromptDrive PROVE Spec => []WriteStores
  <1>1. StepInv /\ DataInv => WriteStores
    <2> SUFFICES ASSUME StepInv, DataInv, pc = "returned", call.op = "write",
                        dev.state = "idle", NEW s \in 0 .. Sectors - 1, NEW w \in Word
                 PROVE  IF s = call.first THEN disk[s][w] = Source(w)
                        ELSE disk[s][w] \in {Original(s, w), Source(w)}
      BY DEF WriteStores
    <2>1. disk[s][w] \in {Original(s, w), Source(w)}
      BY DEF DataInv, Stored
    <2>2. s = call.first => call.first < Sectors
      BY WordFacts
    <2>3. s = call.first => disk[s][w] = Source(w)
      BY <2>2 DEF DataInv, Stored
    <2> QED
      BY <2>1, <2>3
  <1> QED
    BY <1>1, DataInvariance, PTL
=============================================================================
