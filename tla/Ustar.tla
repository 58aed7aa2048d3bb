------------------------------- MODULE Ustar --------------------------------
(***************************************************************************)
(* The three scans of a ustar archive in bootloader/cboot/src/ustar.c:     *)
(* ustar_list_files, ustar_get_filesize (with ustar_get_num_sectors around *)
(* it) and ustar_load_file.  Each is a loop of its own over the sectors of *)
(* the partition, with integers of its own width; a step is one round.     *)
(*                                                                         *)
(* The archive is given by its members, in order.  Sector(n) is what the   *)
(* disk driver reads as sector n of the partition; the scans know nothing  *)
(* of the members but what they find there.                                *)
(***************************************************************************)
EXTENDS Integers, Sequences

CONSTANTS
    SectorSize,  \* bytes in a sector (512)
    U32,         \* number of values of a u32 (2^32)
    CountSpace,  \* number of values of the u8 sector count (256)
    Archives,    \* sequences of members
    Paths,       \* the paths that are looked up
    MaxListed    \* bound on the names remembered: a listing may never end

VARIABLES
    archive,  \* members of the archive, fixed
    path,     \* the path looked up
    op,       \* the scan in progress, or the last one
    pc,       \* "ready", or "scan" within the loop
    seeker,   \* the sector looked at, relative to the partition
    listed,   \* names printed by ustar_list_files
    size,     \* what ustar_get_num_sectors returned
    load,     \* what ustar_load_file returned
    buffer    \* sectors stored in dst_buf

vars == <<archive, path, op, pc, seeker, listed, size, load, buffer>>

Scans == {"list", "size", "load"}

\* No call has returned yet.
None == [result |-> "none"]

\* A member as tar describes it in its header; "other" stands for links,
\* devices and pipes.
Member == [prefix : Seq(STRING), name : Seq(STRING),
           type : {"file", "directory", "other"}, size : Nat]

ASSUME UstarAssumption ==
    /\ SectorSize \in Nat \ {0} /\ U32 \in Nat \ {0} /\ CountSpace \in Nat \ {0}
    /\ MaxListed \in Nat
    /\ \A members \in Archives :
         /\ members \in Seq(Member)
         /\ \A k \in 1 .. Len(members) :
               members[k].type = "directory" => members[k].size = 0

-----------------------------------------------------------------------------
(* The archive on disk, as tar writes it.                                  *)

\* A member takes a sector for its header and, when it is a file, the
\* sectors of its content.
DataSectors(m) ==
    IF m.type = "file" THEN (m.size + SectorSize - 1) \div SectorSize ELSE 0

\* Start[k] is the sector of the header of member k.
Start ==
    LET at[k \in 1 .. Len(archive) + 1] ==
          IF k = 1 THEN 0 ELSE at[k - 1] + 1 + DataSectors(archive[k - 1])
    IN  at

\* Headers carry the signature; content is known by member and position.
Header(m) == [ustar |-> TRUE, prefix |-> m.prefix, name |-> m.name,
              type |-> m.type, size |-> m.size]
Content(k, n) == [ustar |-> FALSE, member |-> k, sector |-> n]
Blank == [ustar |-> FALSE, member |-> 0, sector |-> 0]

Sector(n) ==
    IF n >= Start[Len(archive) + 1] THEN Blank
    ELSE LET k == CHOOSE k \in 1 .. Len(archive) : Start[k] <= n /\ n < Start[k + 1]
         IN  IF n = Start[k] THEN Header(archive[k]) ELSE Content(k, n - Start[k])

-----------------------------------------------------------------------------
(* The rounds of the loops.                                                *)

\* The name that is compared: strncpy returns the length of the prefix, and
\* nothing is put between prefix and name.
FileName(h) == <<"/">> \o h.prefix \o h.name

\* get_filesize computes in u64 and stores a u32; the others have a u32 size.
NumSectors(h) ==
    IF op = "size"
    THEN ((h.size + SectorSize - 1) \div SectorSize) % U32
    ELSE (((h.size % U32) + SectorSize - 1) % U32) \div SectorSize

\* Faults: the header is not counted; a directory is treated like a link.
AdvanceNoHeader(h) ==
    IF h.type = "file" THEN seeker + NumSectors(h)
    ELSE IF h.type = "directory" THEN seeker + 1
    ELSE seeker
AdvanceFilesOnly(h) == IF h.type = "file" THEN seeker + 1 + NumSectors(h) ELSE seeker

\* The switch on the type: links, devices, pipes and unknown types leave the
\* seeker where it is.
Advance(h) ==
    IF h.type = "file" THEN seeker + 1 + NumSectors(h)
    ELSE IF h.type = "directory" THEN seeker + 1
    ELSE seeker

Init ==
    /\ archive \in Archives
    /\ path \in Paths
    /\ op = "none" /\ pc = "ready"
    /\ seeker = 0
    /\ listed = <<>> /\ buffer = <<>>
    /\ size = None /\ load = None

\* Each scan runs once, in any order but for the listing, which comes first.
Begin(o) ==
    /\ pc = "ready"
    /\ o = "list" => op = "none"
    /\ o = "size" => size = None
    /\ o = "load" => load = None
    /\ op' = o
    /\ pc' = "scan"
    /\ seeker' = 0
    /\ UNCHANGED <<archive, path, listed, size, load, buffer>>

\* No signature: the end of the archive.
EndOfArchive ==
    /\ pc = "scan"
    /\ ~Sector(seeker).ustar
    /\ pc' = "ready"
    /\ size' = IF op = "size" THEN [result |-> "absent"] ELSE size
    /\ load' = IF op = "load" THEN [result |-> "absent"] ELSE load
    /\ UNCHANGED <<archive, path, op, seeker, listed, buffer>>

\* Fault: directories are not listed.
ListFile ==
    /\ pc = "scan" /\ op = "list"
    /\ LET h == Sector(seeker)
       IN  /\ h.ustar
           /\ listed' = IF Len(listed) < MaxListed /\ h.type = "file"
                        THEN Append(listed, h.name) ELSE listed
           /\ seeker' = Advance(h)
    /\ UNCHANGED <<archive, path, op, pc, size, load, buffer>>

ListEntry ==
    /\ pc = "scan" /\ op = "list"
    /\ LET h == Sector(seeker)
       IN  /\ h.ustar
           /\ listed' = IF Len(listed) < MaxListed THEN Append(listed, h.name)
                        ELSE listed
           /\ seeker' = Advance(h)
    /\ UNCHANGED <<archive, path, op, pc, size, load, buffer>>

NextEntry ==
    /\ pc = "scan" /\ op \in {"size", "load"}
    /\ LET h == Sector(seeker)
       IN  /\ h.ustar /\ FileName(h) # path
           /\ seeker' = Advance(h)
    /\ UNCHANGED <<archive, path, op, pc, listed, size, load, buffer>>

\* Fault: the size on disk is returned.
FoundSizeRounded ==
    /\ pc = "scan" /\ op = "size"
    /\ LET h == Sector(seeker)
           sectors == (h.size + SectorSize - 1) \div SectorSize
       IN  /\ h.ustar /\ FileName(h) = path
           /\ size' = [result |-> "found", bytes |-> sectors * SectorSize,
                       sectors |-> sectors]
    /\ pc' = "ready"
    /\ UNCHANGED <<archive, path, op, seeker, listed, load, buffer>>

FoundSize ==
    /\ pc = "scan" /\ op = "size"
    /\ LET h == Sector(seeker)
       IN  /\ h.ustar /\ FileName(h) = path
           /\ size' = [result |-> "found", bytes |-> h.size,
                       sectors |-> (h.size + SectorSize - 1) \div SectorSize]
    /\ pc' = "ready"
    /\ UNCHANGED <<archive, path, op, seeker, listed, load, buffer>>

\* Fault: the header is loaded too.
FoundLoadHeader ==
    /\ pc = "scan" /\ op = "load"
    /\ LET h == Sector(seeker)
       IN  /\ h.ustar /\ FileName(h) = path
           /\ buffer' = [k \in 1 .. NumSectors(h) % CountSpace |-> Sector(seeker + k - 1)]
           /\ load' = [result |-> "found", bytes |-> h.size % U32]
    /\ seeker' = seeker + 1
    /\ pc' = "ready"
    /\ UNCHANGED <<archive, path, op, listed, size>>

\* The sectors after the header, as many as the u8 argument of
\* ATA_PIO_read_sectors says; the size returned is that of the whole file.
FoundLoad ==
    /\ pc = "scan" /\ op = "load"
    /\ LET h == Sector(seeker)
       IN  /\ h.ustar /\ FileName(h) = path
           /\ buffer' = [k \in 1 .. NumSectors(h) % CountSpace |-> Sector(seeker + k)]
           /\ load' = [result |-> "found", bytes |-> h.size % U32]
    /\ seeker' = seeker + 1
    /\ pc' = "ready"
    /\ UNCHANGED <<archive, path, op, listed, size>>

Round == EndOfArchive \/ ListEntry \/ NextEntry \/ FoundSize \/ FoundLoad

Next == (\E o \in Scans : Begin(o)) \/ Round

Spec == Init /\ [][Next]_vars /\ WF_vars(Round)

-----------------------------------------------------------------------------
(* Properties.                                                             *)

\* The path of a member as ustar defines it: a prefix is a directory.
MemberPath(m) ==
    IF m.prefix = <<>> THEN <<"/">> \o m.name
    ELSE <<"/">> \o m.prefix \o <<"/">> \o m.name

Matching == {k \in 1 .. Len(archive) : MemberPath(archive[k]) = path}
First == CHOOSE k \in Matching : \A l \in Matching : k <= l

\* What the theorems of UstarProofs assume of the archives: sizes, rounded
\* up to sectors, fit a u32;
SizesFit ==
    \A members \in Archives : \A k \in 1 .. Len(members) :
        members[k].size + SectorSize - 1 < U32

\* no member whose name tar has split has a path, real or as compared, that
\* is looked up;
NoneSplit ==
    \A members \in Archives, p \in Paths : \A k \in 1 .. Len(members) :
        FileName(members[k]) = p <=> MemberPath(members[k]) = p

\* what is looked up can be read in one call of the driver, and has content
\* only if it is a file;
OneCallEach ==
    \A members \in Archives : \A k \in 1 .. Len(members) :
        MemberPath(members[k]) \in Paths =>
            /\ (members[k].size + SectorSize - 1) \div SectorSize < CountSpace
            /\ members[k].type # "file" => members[k].size = 0

\* the bound on the names that are remembered is not met.
AllRemembered == \A members \in Archives : Len(members) <= MaxListed

(***************************************************************************)
(* "this should be a tar metadata sector": each round of each scan looks   *)
(* at the header of a member or at the first sector after the archive,     *)
(* never at the content of a file.                                         *)
(***************************************************************************)
OnHeader == pc = "scan" => \E k \in 1 .. Len(archive) + 1 : seeker = Start[k]

(***************************************************************************)
(* "This file doesn't exist, return a -1 to indicate that": the size       *)
(* returned is that of the first member with the path, and there is none   *)
(* when -1 is returned.                                                    *)
(***************************************************************************)
SizeCorrect ==
    /\ size.result = "found" =>
         Matching # {} /\ size.bytes = archive[First].size
    /\ size.result = "absent" => Matching = {}

(***************************************************************************)
(* "read the file into the destination buffer": the bytes reported as read *)
(* are the whole first member with the path, and are in the buffer; "we    *)
(* can't find the file therefore there we read no bytes" is said only when *)
(* no member has the path.  The scan before it, with SizeCorrect, found    *)
(* the same member and the same size.                                      *)
(***************************************************************************)
LoadCorrect ==
    /\ load.result = "found" =>
         /\ Matching # {} /\ load.bytes = archive[First].size
         /\ buffer = [k \in 1 .. DataSectors(archive[First]) |-> Content(First, k)]
    /\ load.result = "absent" => Matching = {}

(***************************************************************************)
(* A scan that has ended with the archive has listed every member, once.   *)
(***************************************************************************)
ListComplete ==
    op = "list" /\ pc = "ready" => listed = [k \in 1 .. Len(archive) |-> archive[k].name]

(***************************************************************************)
(* Every scan returns: found, or -1, or 0.                                 *)
(***************************************************************************)
ScansReturn == pc = "scan" ~> pc = "ready"
=============================================================================
