---------------------------- MODULE UstarProofs -----------------------------
(***************************************************************************)
(* Proofs about Ustar, for archives with any number of members and files   *)
(* of any size: the scans go from header to header, and what they list,    *)
(* find and load is what the archive has.                                  *)
(*                                                                         *)
(* Start is a recursive function and the prover has no induction of its    *)
(* own.  Least, that a set of numbers has a least element, is the library's*)
(* fact about well-founded relations; Induction, about sets of numbers,    *)
(* follows from it, and from Induction that Start obeys its equation.      *)
(***************************************************************************)
EXTENDS Ustar, WellFoundedInduction, TLAPS

\* A set of numbers has a least one.
LEMMA Least ==
    ASSUME NEW S \in SUBSET Nat, S # {}
    PROVE  \E n \in S : \A m \in S : n <= m
  <1> DEFINE R == {ss \in Nat \X Nat : ss[1] < ss[2]}
  <1>1. IsWellFoundedOn(R, Nat)
    BY NatLessThanWellFounded, Zenon DEF OpToRel
  <1> HIDE DEF R
  <1>2. PICK x \in S : \A y \in S : <<y, x>> \notin R
    BY <1>1, WFMin, Zenon
  <1>3. \A y \in S : ~(y < x)
    BY <1>2 DEF R
  <1> QED
    BY <1>3

\* A set has all numbers from low on if it has low and, with each, the next.
LEMMA Induction ==
    ASSUME NEW S, NEW low \in Nat, low \in S,
           \A n \in Nat : low <= n /\ n \in S => n + 1 \in S
    PROVE  \A n \in Nat : low <= n => n \in S
  <1> SUFFICES ASSUME NEW n \in Nat, low <= n, n \notin S
               PROVE  FALSE
    OBVIOUS
  <1> DEFINE Missing == {m \in Nat : low <= m /\ m \notin S}
  <1>1. Missing \in SUBSET Nat /\ n \in Missing
    OBVIOUS
  <1> HIDE DEF Missing
  <1>2. PICK m \in Missing : \A k \in Missing : m <= k
    BY <1>1, Least
  <1>3. m \in Nat /\ low <= m /\ m \notin S /\ m # low
    BY <1>2 DEF Missing
  <1>4. m - 1 \in Nat /\ low <= m - 1 /\ m - 1 \notin Missing
    BY <1>2, <1>3, <1>1
  <1>5. m - 1 \in S
    BY <1>4 DEF Missing
  <1> QED
    BY <1>3, <1>4, <1>5

-----------------------------------------------------------------------------

\* The equation of Start, for a function on the first m positions.
LayOut(members, m, at) ==
    at = [k \in 1 .. m |->
            IF k = 1 THEN 0 ELSE at[k - 1] + 1 + DataSectors(members[k - 1])]

StartOf(members) == CHOOSE at : LayOut(members, Len(members) + 1, at)

LEMMA StartIsStartOf == Start = StartOf(archive)
  BY Zenon DEF Start, StartOf, LayOut

\* By induction on the number of positions, one more at a time.
LEMMA LayOutExists ==
    ASSUME NEW members, NEW n \in Nat, n >= 1
    PROVE  \E at : LayOut(members, n, at)
  <1> DEFINE S == {m \in Nat : \E at : LayOut(members, m, at)}
  <1>1. 1 \in S
    <2> DEFINE at == [k \in 1 .. 1 |-> 0]
    <2>1. LayOut(members, 1, at)
      BY DEF LayOut
    <2> QED
      BY <2>1
  <1>2. ASSUME NEW m \in Nat, 1 <= m, m \in S
        PROVE  m + 1 \in S
    <2>1. PICK at : LayOut(members, m, at)
      BY <1>2
    <2> DEFINE new == [k \in 1 .. m + 1 |->
                         IF k <= m THEN at[k] ELSE at[m] + 1 + DataSectors(members[m])]
    <2>2. ASSUME NEW k \in 1 .. m + 1
          PROVE  new[k] = IF k = 1 THEN 0 ELSE new[k - 1] + 1 + DataSectors(members[k - 1])
      <3>1. CASE k <= m
        BY <3>1, <2>1, <1>2 DEF LayOut
      <3>2. CASE k = m + 1
        BY <3>2, <1>2
      <3> QED
        BY <3>1, <3>2
    <2>3. LayOut(members, m + 1, new)
      BY <2>2 DEF LayOut
    <2> QED
      BY <2>3
  <1> HIDE DEF S
  <1>3. n \in S
    BY <1>1, <1>2, Induction
  <1> QED
    BY <1>3 DEF S

\* The headers are where their definition says.
LEMMA StartLaidOut ==
    ASSUME archive \in Seq(Member)
    PROVE  /\ Start = [k \in 1 .. Len(archive) + 1 |-> Start[k]]
           /\ Start[1] = 0
           /\ \A k \in 1 .. Len(archive) :
                Start[k + 1] = Start[k] + 1 + DataSectors(archive[k])
  <1> DEFINE n == Len(archive)
  <1>1. n \in Nat
    OBVIOUS
  <1> HIDE DEF n
  <1>2. LayOut(archive, n + 1, Start)
    <2>1. \E at : LayOut(archive, n + 1, at)
      <3>1. n + 1 \in Nat /\ n + 1 >= 1
        BY <1>1
      <3> QED
        BY <3>1, LayOutExists, Zenon
    <2>2. Start = CHOOSE at : LayOut(archive, n + 1, at)
      BY StartIsStartOf DEF StartOf, n
    <2> QED
      BY <2>1, <2>2, Zenon
  <1>3. Start = [k \in 1 .. n + 1 |-> Start[k]] /\ Start[1] = 0
    BY <1>1, <1>2 DEF LayOut
  <1>4. ASSUME NEW k \in 1 .. n
        PROVE  Start[k + 1] = Start[k] + 1 + DataSectors(archive[k])
    <2>1. k + 1 \in 1 .. n + 1 /\ k + 1 # 1 /\ (k + 1) - 1 = k
      BY <1>1
    <2> DEFINE at(j) == IF j = 1 THEN 0 ELSE Start[j - 1] + 1 + DataSectors(archive[j - 1])
    <2>2. \A j \in 1 .. n + 1 : Start[j] = at(j)
      <3>1. Start = [j \in 1 .. n + 1 |-> at(j)]
        BY <1>2 DEF LayOut
      <3> HIDE DEF at
      <3> QED
        BY <3>1
    <2>3. Start[k + 1] = at(k + 1)
      BY <2>1, <2>2
    <2> QED
      BY <2>1, <2>3
  <1> QED
    BY <1>3, <1>4 DEF n

LEMMA MemberTypes ==
    ASSUME archive \in Archives
    PROVE  /\ archive \in Seq(Member) /\ Len(archive) \in Nat
           /\ \A k \in 1 .. Len(archive) :
                /\ archive[k] \in Member
                /\ archive[k].type = "directory" => archive[k].size = 0
  BY UstarAssumption

\* Rounding up to sectors.
LEMMA SectorsOf ==
    ASSUME NEW bytes \in Nat
    PROVE  /\ (bytes + SectorSize - 1) \div SectorSize \in Nat
           /\ (bytes + SectorSize - 1) \div SectorSize <= bytes + SectorSize - 1
           /\ bytes = 0 => (bytes + SectorSize - 1) \div SectorSize = 0
  <1>1. SectorSize \in Nat \ {0}
    BY UstarAssumption
  <1>2. \A a \in Nat : a \div SectorSize \in Nat /\ a \div SectorSize <= a
    BY <1>1
  <1>3. (SectorSize - 1) \div SectorSize = 0
    BY <1>1
  <1> QED
    BY <1>1, <1>2, <1>3

LEMMA DataSectorsType ==
    ASSUME NEW m \in Member
    PROVE  DataSectors(m) \in Nat
  BY SectorsOf DEF DataSectors, Member

\* Each header comes after those of the members before.
LEMMA StartGrows ==
    ASSUME archive \in Archives
    PROVE  /\ Start \in [1 .. Len(archive) + 1 -> Nat]
           /\ \A k, l \in 1 .. Len(archive) + 1 : k < l => Start[k] < Start[l]
  <1> DEFINE n == Len(archive)
             Grown == {l \in Nat : l <= n + 1 =>
                         /\ \A k \in 1 .. l : Start[k] \in Nat
                         /\ \A k \in 1 .. l - 1 : Start[k] < Start[l]}
  <1>1. n \in Nat
    BY MemberTypes
  <1>2. /\ Start = [k \in 1 .. n + 1 |-> Start[k]] /\ Start[1] = 0
        /\ \A k \in 1 .. n : Start[k + 1] = Start[k] + 1 + DataSectors(archive[k])
    BY StartLaidOut, MemberTypes
  <1>3. \A k \in 1 .. n : DataSectors(archive[k]) \in Nat
    BY MemberTypes, DataSectorsType
  <1> HIDE DEF n
  <1>4. 1 \in Grown
    BY <1>1, <1>2
  <1>5. ASSUME NEW l \in Nat, 1 <= l, l \in Grown
        PROVE  l + 1 \in Grown
    <2> SUFFICES ASSUME l + 1 <= n + 1
                 PROVE  /\ \A k \in 1 .. l + 1 : Start[k] \in Nat
                        /\ \A k \in 1 .. l : Start[k] < Start[l + 1]
      OBVIOUS
    <2>1. /\ l \in 1 .. n /\ \A k \in 1 .. l : Start[k] \in Nat
          /\ \A k \in 1 .. l - 1 : Start[k] < Start[l]
      BY <1>1, <1>5
    <2>2. Start[l + 1] = Start[l] + 1 + DataSectors(archive[l])
      BY <2>1, <1>2
    <2>3. Start[l] \in Nat /\ DataSectors(archive[l]) \in Nat
      BY <2>1, <1>1, <1>3
    <2>4. Start[l + 1] \in Nat /\ Start[l] < Start[l + 1]
      BY <2>2, <2>3
    <2>5. ASSUME NEW k \in 1 .. l
          PROVE  Start[k] < Start[l + 1]
      BY <2>1, <2>4
    <2> QED
      BY <2>1, <2>4, <2>5
  <1> HIDE DEF Grown
  <1>6. \A l \in Nat : 1 <= l => l \in Grown
    BY <1>4, <1>5, Induction
  <1>7. \A l \in 1 .. n + 1 : Start[l] \in Nat
    BY <1>1, <1>6 DEF Grown
  <1>8. Start \in [1 .. n + 1 -> Nat]
    BY <1>2, <1>7
  <1> QED
    BY <1>1, <1>6, <1>8 DEF Grown, n

\* A sector of a member is read as such: no other member has it too.
LEMMA SectorOfMember ==
    ASSUME archive \in Archives, NEW k \in 1 .. Len(archive),
           NEW i \in 0 .. DataSectors(archive[k])
    PROVE  Sector(Start[k] + i) = IF i = 0 THEN Header(archive[k]) ELSE Content(k, i)
  <1> DEFINE n == Len(archive)
             Has(s, j) == Start[j] <= s /\ s < Start[j + 1]
  <1>1. n \in Nat /\ k \in 1 .. n
    BY MemberTypes
  <1>2. DataSectors(archive[k]) \in Nat
    BY MemberTypes, DataSectorsType
  <1>3. Start[k + 1] = Start[k] + 1 + DataSectors(archive[k])
    BY StartLaidOut, MemberTypes
  <1>4. /\ \A j \in 1 .. n + 1 : Start[j] \in Nat
        /\ \A j, l \in 1 .. n + 1 : j < l => Start[j] < Start[l]
    BY StartGrows
  <1> HIDE DEF n
  <1>5. PICK s \in Nat : s = Start[k] + i
    BY <1>1, <1>2, <1>4
  <1>6. Has(s, k) /\ s - Start[k] = i /\ (s = Start[k] <=> i = 0)
    BY <1>1, <1>2, <1>3, <1>4, <1>5
  <1>7. \A j \in 1 .. n : Has(s, j) => j = k
    <2> SUFFICES ASSUME NEW j \in 1 .. n, Has(s, j), j # k
                 PROVE  FALSE
      OBVIOUS
    <2>1. CASE j < k
      <3>1. Start[j + 1] <= Start[k]
        BY <2>1, <1>1, <1>4
      <3> QED
        BY <3>1, <1>6, <1>1, <1>4
    <2>2. CASE k < j
      <3>1. Start[k + 1] <= Start[j]
        BY <2>2, <1>1, <1>4
      <3> QED
        BY <3>1, <1>6, <1>1, <1>4
    <2> QED
      BY <2>1, <2>2, <1>1
  <1>8. ~(s >= Start[n + 1])
    <2>1. Start[k + 1] <= Start[n + 1]
      BY <1>1, <1>4
    <2> QED
      BY <2>1, <1>6, <1>1, <1>4
  <1> DEFINE Which == CHOOSE j \in 1 .. n : Has(s, j)
  <1>9. k = Which
    <2> HIDE DEF Has
    <2>1. Which \in 1 .. n /\ Has(s, Which)
      BY <1>1, <1>6, Zenon
    <2> HIDE DEF Which
    <2> QED
      BY <2>1, <1>7, Zenon
  <1>10. Sector(s) = IF s = Start[k] THEN Header(archive[k])
                     ELSE Content(k, s - Start[k])
    <2>1. Sector(s) = IF s = Start[Which] THEN Header(archive[Which])
                      ELSE Content(Which, s - Start[Which])
      BY <1>8, Zenon DEF Sector, n
    <2> HIDE DEF Which
    <2> QED
      BY <2>1, <1>9
  <1> QED
    BY <1>5, <1>6, <1>10

LEMMA SectorAfterMembers ==
    ASSUME archive \in Archives
    PROVE  Sector(Start[Len(archive) + 1]) = Blank
  <1>1. Start[Len(archive) + 1] \in Nat
    BY StartGrows, MemberTypes
  <1> QED
    BY <1>1 DEF Sector

-----------------------------------------------------------------------------
(* The inductive invariant.                                                *)

Types ==
    /\ archive \in Archives /\ path \in Paths
    /\ pc \in {"ready", "scan"}
    /\ op \in Scans \/ (op = "none" /\ pc = "ready" /\ listed = <<>>)

\* The names of the first k members, as far as they are remembered.
Names(k) == [i \in 1 .. (IF k < MaxListed THEN k ELSE MaxListed) |-> archive[i].name]

\* The round looks at member k, or behind the last one; the search has not
\* missed the path, and the listing has what was before, unless it stays for
\* ever at a member of another type.
Looking(k) ==
    /\ seeker = Start[k]
    /\ op # "list" => \A l \in 1 .. k - 1 : FileName(archive[l]) # path
    /\ op = "list" =>
         \/ listed = Names(k - 1)
         \/ k <= Len(archive) /\ archive[k].type = "other"

Scanning == pc = "scan" => \E k \in 1 .. Len(archive) + 1 : Looking(k)

IsFirst(k) ==
    /\ FileName(archive[k]) = path
    /\ \A l \in 1 .. k - 1 : FileName(archive[l]) # path

Absent == \A k \in 1 .. Len(archive) : FileName(archive[k]) # path

SizeFound ==
    /\ size.result = "found" =>
         \E k \in 1 .. Len(archive) : IsFirst(k) /\ size.bytes = archive[k].size
    /\ size.result = "absent" => Absent

LoadFound ==
    /\ load.result = "found" =>
         \E k \in 1 .. Len(archive) :
            /\ IsFirst(k) /\ load.bytes = archive[k].size
            /\ buffer = [i \in 1 .. DataSectors(archive[k]) |-> Content(k, i)]
    /\ load.result = "absent" => Absent

Listed == op = "list" /\ pc = "ready" => listed = Names(Len(archive))

ScanInv == Types /\ Scanning /\ SizeFound /\ Listed

-----------------------------------------------------------------------------
(* What a round computes from the header of member k.                      *)

\* Neither integer overflows.
LEMMA SectorsCounted ==
    ASSUME SizesFit, archive \in Archives, NEW k \in 1 .. Len(archive)
    PROVE  /\ NumSectors(Header(archive[k])) =
                (archive[k].size + SectorSize - 1) \div SectorSize
           /\ archive[k].size % U32 = archive[k].size
  <1> DEFINE bytes == archive[k].size
             sectors == (bytes + SectorSize - 1) \div SectorSize
  <1>1. /\ bytes \in Nat /\ bytes + SectorSize - 1 < U32
        /\ SectorSize \in Nat \ {0} /\ U32 \in Nat \ {0}
    BY MemberTypes, UstarAssumption DEF SizesFit, Member
  <1>2. sectors \in Nat /\ sectors <= bytes + SectorSize - 1
    BY <1>1, SectorsOf
  <1>3. Header(archive[k]).size = bytes
    BY DEF Header
  <1> HIDE DEF bytes
  <1>4. bytes % U32 = bytes /\ (bytes + SectorSize - 1) % U32 = bytes + SectorSize - 1
    BY <1>1
  <1> HIDE DEF sectors
  <1>5. sectors % U32 = sectors
    BY <1>1, <1>2
  <1> QED
    BY <1>3, <1>4, <1>5 DEF NumSectors, sectors, bytes

LEMMA HeaderFields ==
    ASSUME NEW m
    PROVE  /\ Header(m).ustar /\ Header(m).type = m.type /\ Header(m).size = m.size
           /\ Header(m).name = m.name /\ FileName(Header(m)) = FileName(m)
  BY DEF Header, FileName

\* The seeker goes to the next header, but from a link.
LEMMA Advanced ==
    ASSUME SizesFit, archive \in Archives, NEW k \in 1 .. Len(archive),
           seeker = Start[k]
    PROVE  Advance(Header(archive[k])) =
             IF archive[k].type = "other" THEN Start[k] ELSE Start[k + 1]
  <1>1. Start[k + 1] = Start[k] + 1 + DataSectors(archive[k])
    BY StartLaidOut, MemberTypes
  <1>2. Start[k] \in Nat
    BY StartGrows, MemberTypes
  <1>3. NumSectors(Header(archive[k])) = (archive[k].size + SectorSize - 1) \div SectorSize
    BY SectorsCounted
  <1>4. archive[k].type \in {"file", "directory", "other"}
    BY MemberTypes DEF Member
  <1> QED
    BY <1>1, <1>2, <1>3, <1>4, HeaderFields DEF Advance, DataSectors

\* What a round finds at the place it looks at.
LEMMA Found ==
    ASSUME archive \in Archives, NEW k \in 1 .. Len(archive) + 1, Looking(k)
    PROVE  IF k <= Len(archive) THEN Sector(seeker) = Header(archive[k])
           ELSE Sector(seeker) = Blank
  <1>1. Len(archive) \in Nat
    BY MemberTypes
  <1>2. CASE k <= Len(archive)
    <2>1. k \in 1 .. Len(archive) /\ DataSectors(archive[k]) \in Nat
      BY <1>1, <1>2, MemberTypes, DataSectorsType
    <2>2. Sector(Start[k] + 0) = Header(archive[k])
      BY <2>1, SectorOfMember
    <2>3. Start[k] + 0 = seeker
      BY StartGrows DEF Looking
    <2> QED
      BY <1>2, <2>2, <2>3
  <1>3. CASE ~(k <= Len(archive))
    <2>1. k = Len(archive) + 1
      BY <1>1, <1>3
    <2> QED
      BY <1>3, <2>1, SectorAfterMembers DEF Looking
  <1> QED
    BY <1>2, <1>3

\* The paths compared are those of the members.
LEMMA PathsAgree ==
    ASSUME NoneSplit, archive \in Archives, path \in Paths
    PROVE  \A k \in 1 .. Len(archive) :
             FileName(archive[k]) = path <=> MemberPath(archive[k]) = path
  BY DEF NoneSplit

\* The archive is fixed.
LEMMA Kept ==
    ASSUME UNCHANGED archive
    PROVE  Start' = Start
  <1>1. Start' = StartOf(archive')
    BY Zenon DEF Start, StartOf, LayOut
  <1> QED
    BY <1>1, StartIsStartOf

LEMMA ScanInvInit == Init => ScanInv /\ LoadFound
  BY DEF Init, ScanInv, Types, Scanning, SizeFound, LoadFound, Listed, None, Scans

\* Where a round finds something, it looks at a member.
LEMMA MemberFound ==
    ASSUME Types, Scanning, pc = "scan", Sector(seeker).ustar
    PROVE  \E k \in 1 .. Len(archive) : Looking(k) /\ Sector(seeker) = Header(archive[k])
  <1>1. PICK k \in 1 .. Len(archive) + 1 : Looking(k)
    BY DEF Scanning
  <1>2. ~Blank.ustar
    BY DEF Blank
  <1>3. k <= Len(archive) /\ Sector(seeker) = Header(archive[k])
    BY <1>1, <1>2, Found DEF Types
  <1>4. k \in 1 .. Len(archive)
    BY <1>3, MemberTypes DEF Types
  <1> QED
    BY <1>1, <1>3, <1>4

\* At the end of the archive a round has looked at all members.
LEMMA AllSeen ==
    ASSUME Types, Scanning, pc = "scan", ~Sector(seeker).ustar
    PROVE  Looking(Len(archive) + 1)
  <1>1. PICK k \in 1 .. Len(archive) + 1 : Looking(k)
    BY DEF Scanning
  <1>2. ~(k <= Len(archive))
    BY <1>1, Found, HeaderFields DEF Types
  <1>3. k = Len(archive) + 1
    BY <1>2, MemberTypes DEF Types
  <1> QED
    BY <1>1, <1>3

\* Where a search stops, it has found the first member with the path.
LEMMA FirstFound ==
    ASSUME Types, op # "list", NEW k \in 1 .. Len(archive), Looking(k),
           Sector(seeker) = Header(archive[k]), FileName(Sector(seeker)) = path
    PROVE  IsFirst(k)
  BY HeaderFields DEF IsFirst, Looking

\* A round that goes on is at the next member, or stays.
LEMMA WentOn ==
    ASSUME SizesFit, Types, NEW k \in 1 .. Len(archive), Looking(k),
           Sector(seeker) = Header(archive[k]),
           seeker' = Advance(Sector(seeker)), UNCHANGED archive
    PROVE  /\ archive[k].type = "other" => seeker' = Start'[k]
           /\ archive[k].type # "other" => seeker' = Start'[k + 1]
           /\ k + 1 \in 1 .. Len(archive) + 1 /\ k \in 1 .. Len(archive) + 1
  <1>1. Advance(Header(archive[k])) =
          IF archive[k].type = "other" THEN Start[k] ELSE Start[k + 1]
    BY Advanced DEF Types, Looking
  <1>2. Start' = Start
    BY Kept
  <1>3. Len(archive) \in Nat
    BY MemberTypes DEF Types
  <1> QED
    BY <1>1, <1>2, <1>3

-----------------------------------------------------------------------------
(* The scans keep the invariants.                                          *)

LEMMA BeginScan ==
    ASSUME ScanInv, NEW o \in Scans, Begin(o)
    PROVE  ScanInv'
  <1> USE DEF Begin, ScanInv
  <1>1. Start' = Start /\ Start[1] = 0 /\ Len(archive) \in Nat
    BY Kept, StartLaidOut, MemberTypes DEF Types
  <1>2. Types'
    BY DEF Types
  <1>3. Looking(1)'
    <2>1. op' = "list" => listed' = <<>>
      BY DEF Types, Scans
    <2>2. Names(1 - 1)' = <<>>
      <3>1. (IF 1 - 1 < MaxListed THEN 1 - 1 ELSE MaxListed) = 0
        BY UstarAssumption
      <3> QED
        BY <3>1 DEF Names
    <2> QED
      BY <1>1, <2>1, <2>2 DEF Looking
  <1>4. Scanning'
    BY <1>1, <1>3 DEF Scanning
  <1>5. SizeFound'
    BY DEF SizeFound, IsFirst, Absent
  <1>6. Listed'
    BY DEF Listed
  <1> QED
    BY <1>2, <1>4, <1>5, <1>6

LEMMA EndScan ==
    ASSUME ScanInv, EndOfArchive
    PROVE  ScanInv'
  <1> USE DEF EndOfArchive, ScanInv
  <1>1. Looking(Len(archive) + 1) /\ Len(archive) \in Nat
    BY AllSeen, MemberTypes DEF Types
  <1>2. Types' /\ Scanning'
    BY DEF Types, Scanning
  <1>3. op # "list" => Absent'
    BY <1>1 DEF Looking, Absent
  <1>4. SizeFound'
    BY <1>3 DEF SizeFound, IsFirst, Absent
  <1>5. Listed'
    BY <1>1 DEF Listed, Looking, Names
  <1> QED
    BY <1>2, <1>4, <1>5

LEMMA ListScan ==
    ASSUME SizesFit, ScanInv, ListEntry
    PROVE  ScanInv'
  <1> USE DEF ListEntry, ScanInv
  <1>1. PICK k \in 1 .. Len(archive) : Looking(k) /\ Sector(seeker) = Header(archive[k])
    BY MemberFound
  <1>2. /\ archive[k].type = "other" => seeker' = Start'[k]
        /\ archive[k].type # "other" => seeker' = Start'[k + 1]
        /\ k + 1 \in 1 .. Len(archive) + 1 /\ k \in 1 .. Len(archive) + 1
    BY <1>1, WentOn
  <1>3. Types' /\ SizeFound' /\ Listed'
    BY DEF Types, SizeFound, IsFirst, Absent, Listed
  <1>4. archive[k].type # "other" => listed' = Names(k)
    <2> SUFFICES ASSUME archive[k].type # "other"
                 PROVE  listed' = Names(k)
      OBVIOUS
    <2>1. listed = Names(k - 1)
      BY <1>1 DEF Looking
    <2>2. /\ k \in Nat /\ MaxListed \in Nat
          /\ \A i \in 1 .. k : archive[i].name \in Seq(STRING)
      <3>1. MaxListed \in Nat /\ Len(archive) \in Nat
        BY MemberTypes, UstarAssumption DEF Types
      <3>2. \A i \in 1 .. Len(archive) : archive[i].name \in Seq(STRING)
        BY MemberTypes DEF Types, Member
      <3> QED
        BY <3>1, <3>2
    <2> DEFINE before == IF k - 1 < MaxListed THEN k - 1 ELSE MaxListed
    <2>3. before \in Nat /\ before <= k - 1 /\ before <= MaxListed
      BY <2>2
    <2>4. listed = [i \in 1 .. before |-> archive[i].name]
      BY <2>1 DEF Names
    <2> HIDE DEF before
    <2>5. listed \in Seq(Seq(STRING)) /\ Len(listed) = before
      <3>1. listed \in [1 .. before -> Seq(STRING)]
        BY <2>2, <2>3, <2>4
      <3> HIDE DEF ListEntry
      <3> QED
        BY <2>3, <3>1
    <2>6. Sector(seeker).name = archive[k].name
      BY <1>1, HeaderFields
    <2>7. CASE k - 1 < MaxListed
      <3>1. before = k - 1
        BY <2>7 DEF before
      <3>2. listed' = Append(listed, archive[k].name)
        BY <2>5, <2>6, <2>7, <3>1
      <3>3. Names(k) = [i \in 1 .. k |-> archive[i].name]
        BY <2>2, <2>7 DEF Names
      <3>4. Append(listed, archive[k].name) = [i \in 1 .. k |-> archive[i].name]
        BY <2>2, <2>4, <2>5, <3>1
      <3> QED
        BY <3>2, <3>3, <3>4
    <2>8. CASE ~(k - 1 < MaxListed)
      <3>1. before = MaxListed
        BY <2>8 DEF before
      <3>2. listed' = listed
        BY <2>2, <2>5, <3>1
      <3>3. (IF k < MaxListed THEN k ELSE MaxListed) = MaxListed
        BY <2>2, <2>8
      <3> QED
        BY <2>4, <3>1, <3>2, <3>3 DEF Names
    <2> QED
      BY <2>7, <2>8
  <1>5. Scanning'
    <2>1. CASE archive[k].type = "other"
      <3>1. Looking(k)'
        BY <2>1, <1>2, MemberTypes DEF Looking, Types
      <3> QED
        BY <3>1, <1>2 DEF Scanning
    <2>2. CASE archive[k].type # "other"
      <3>1. Names((k + 1) - 1)' = Names(k)
        BY DEF Names
      <3>2. Looking(k + 1)'
        BY <2>2, <3>1, <1>2, <1>4 DEF Looking
      <3> QED
        BY <3>2, <1>2 DEF Scanning
    <2> QED
      BY <2>1, <2>2
  <1> QED
    BY <1>3, <1>5

LEMMA SearchOn ==
    ASSUME SizesFit, ScanInv, NextEntry
    PROVE  ScanInv'
  <1> USE DEF NextEntry, ScanInv
  <1>1. PICK k \in 1 .. Len(archive) : Looking(k) /\ Sector(seeker) = Header(archive[k])
    BY MemberFound
  <1>2. /\ archive[k].type = "other" => seeker' = Start'[k]
        /\ archive[k].type # "other" => seeker' = Start'[k + 1]
        /\ k + 1 \in 1 .. Len(archive) + 1 /\ k \in 1 .. Len(archive) + 1
    BY <1>1, WentOn
  <1>3. Types' /\ SizeFound' /\ Listed'
    BY DEF Types, SizeFound, IsFirst, Absent, Listed
  <1>4. \A l \in 1 .. k : FileName(archive[l]) # path
    <2>1. FileName(archive[k]) # path
      BY <1>1, HeaderFields
    <2>2. \A l \in 1 .. k - 1 : FileName(archive[l]) # path
      BY <1>1 DEF Looking
    <2> QED
      BY <2>1, <2>2
  <1>5. op' # "list"
    OBVIOUS
  <1>6. Scanning'
    <2>1. CASE archive[k].type = "other"
      <3>1. Looking(k)'
        BY <2>1, <1>2, <1>4, <1>5 DEF Looking
      <3> QED
        BY <3>1, <1>2 DEF Scanning
    <2>2. CASE archive[k].type # "other"
      <3>1. Looking(k + 1)'
        BY <2>2, <1>2, <1>4, <1>5 DEF Looking
      <3> QED
        BY <3>1, <1>2 DEF Scanning
    <2> QED
      BY <2>1, <2>2
  <1> QED
    BY <1>3, <1>6

LEMMA SizeReturned ==
    ASSUME ScanInv, FoundSize
    PROVE  ScanInv'
  <1> USE DEF FoundSize, ScanInv
  <1>1. PICK k \in 1 .. Len(archive) : Looking(k) /\ Sector(seeker) = Header(archive[k])
    BY MemberFound
  <1>2. IsFirst(k)
    BY <1>1, FirstFound
  <1>3. size'.result = "found" /\ size'.bytes = archive[k].size
    BY <1>1, HeaderFields
  <1>4. Types' /\ Scanning' /\ Listed'
    BY DEF Types, Scanning, Listed
  <1>5. SizeFound'
    BY <1>2, <1>3 DEF SizeFound, IsFirst
  <1> QED
    BY <1>4, <1>5

LEMMA FileLoaded ==
    ASSUME ScanInv, FoundLoad
    PROVE  ScanInv'
  <1> USE DEF FoundLoad, ScanInv
  <1>1. Types' /\ Scanning' /\ Listed'
    BY DEF Types, Scanning, Listed
  <1>2. SizeFound'
    BY DEF SizeFound, IsFirst, Absent
  <1> QED
    BY <1>1, <1>2

\* What ustar_load_file leaves in the buffer.
LEMMA LoadReturned ==
    ASSUME SizesFit, NoneSplit, OneCallEach, ScanInv, FoundLoad
    PROVE  LoadFound'
  <1> USE DEF FoundLoad, ScanInv
  <1>1. PICK k \in 1 .. Len(archive) : Looking(k) /\ Sector(seeker) = Header(archive[k])
    BY MemberFound
  <1> DEFINE m == archive[k]
             sectors == (m.size + SectorSize - 1) \div SectorSize
  <1>2. IsFirst(k) /\ MemberPath(m) = path /\ path \in Paths
    BY <1>1, FirstFound, PathsAgree DEF IsFirst, Types
  <1>3. archive \in Archives /\ m \in Member /\ seeker = Start[k]
    BY <1>1, MemberTypes DEF Types, Looking
  <1>4. sectors < CountSpace /\ (m.type # "file" => m.size = 0)
    BY <1>2, <1>3 DEF OneCallEach
  <1>5. sectors \in Nat /\ CountSpace \in Nat \ {0} /\ (m.size = 0 => sectors = 0)
    BY <1>3, SectorsOf, UstarAssumption DEF Member
  <1>6. DataSectors(m) = sectors
    BY <1>4, <1>5 DEF DataSectors
  <1>7. NumSectors(Sector(seeker)) = sectors
    BY <1>1, <1>3, SectorsCounted
  <1> HIDE DEF sectors
  <1>8. NumSectors(Sector(seeker)) % CountSpace = DataSectors(m)
    BY <1>4, <1>5, <1>6, <1>7
  <1>9. \A i \in 1 .. DataSectors(m) : Sector(seeker + i) = Content(k, i)
    BY <1>3, <1>5, <1>6, SectorOfMember
  <1>10. buffer' = [i \in 1 .. DataSectors(m) |-> Content(k, i)]
    BY <1>8, <1>9
  <1>11. load'.bytes = m.size /\ load'.result = "found"
    <2>1. load'.bytes = m.size % U32 /\ load'.result = "found"
      BY <1>1, HeaderFields
    <2>2. m.size % U32 = m.size
      BY <1>3, SectorsCounted
    <2> QED
      BY <2>1, <2>2
  <1> QED
    BY <1>2, <1>10, <1>11 DEF LoadFound, IsFirst, DataSectors

-----------------------------------------------------------------------------

\* The first member with the path.
LEMMA FirstIs ==
    ASSUME NoneSplit, Types, NEW k \in 1 .. Len(archive), IsFirst(k)
    PROVE  Matching # {} /\ First = k
  <1>1. Len(archive) \in Nat
    BY MemberTypes DEF Types
  <1>2. k \in Matching
    BY PathsAgree DEF Matching, IsFirst, Types
  <1>3. \A l \in Matching : k <= l
    BY <1>1, PathsAgree DEF Matching, IsFirst, Types
  <1>4. \A l \in Matching : l \in Nat
    BY DEF Matching
  <1>5. First \in Matching /\ \A j \in Matching : First <= j
    BY <1>2, <1>3, Zenon DEF First
  <1> QED
    BY <1>2, <1>3, <1>4, <1>5

\* There is no member with the path.
LEMMA AbsentIs ==
    ASSUME NoneSplit, Types, Absent
    PROVE  Matching = {}
  BY PathsAgree DEF Matching, Absent, Types

LEMMA ScanInvStep ==
    ASSUME SizesFit, ScanInv, [Next]_vars
    PROVE  ScanInv'
  <1>1. CASE \E o \in Scans : Begin(o)
    BY <1>1, BeginScan
  <1>2. CASE EndOfArchive
    BY <1>2, EndScan
  <1>3. CASE ListEntry
    BY <1>3, ListScan
  <1>4. CASE NextEntry
    BY <1>4, SearchOn
  <1>5. CASE FoundSize
    BY <1>5, SizeReturned
  <1>6. CASE FoundLoad
    BY <1>6, FileLoaded
  <1>7. CASE UNCHANGED vars
    <2>1. Start' = Start
      BY <1>7, Kept DEF vars
    <2> QED
      BY <1>7, <2>1 DEF vars, ScanInv, Types, Scanning, Looking, Names, SizeFound,
                        IsFirst, Absent, Listed
  <1> QED
    BY <1>1, <1>2, <1>3, <1>4, <1>5, <1>6, <1>7 DEF Next, Round

\* ScanInv is an invariant.
LEMMA ScanInvariance == ASSUME SizesFit PROVE Spec => []ScanInv
  BY ScanInvInit, ScanInvStep, PTL DEF Spec

\* The buffer and the result of a load stay until the end.
LEMMA LoadFoundStep ==
    ASSUME SizesFit, NoneSplit, OneCallEach, ScanInv, LoadFound, [Next]_vars
    PROVE  LoadFound'
  <1>1. CASE EndOfArchive
    <2>1. op = "load" => Absent
      <3>1. Looking(Len(archive) + 1) /\ Len(archive) \in Nat
        BY <1>1, AllSeen, MemberTypes DEF Types, ScanInv, EndOfArchive
      <3> QED
        BY <3>1 DEF Looking, Absent
    <2> QED
      BY <1>1, <2>1 DEF EndOfArchive, LoadFound, IsFirst, Absent, DataSectors
  <1>2. CASE FoundLoad
    BY <1>2, LoadReturned
  <1>3. CASE UNCHANGED <<archive, path, load, buffer>>
    BY <1>3 DEF LoadFound, IsFirst, Absent, DataSectors
  <1> QED
    BY <1>1, <1>2, <1>3
       DEF Next, Round, Begin, ListEntry, NextEntry, FoundSize, vars

-----------------------------------------------------------------------------

(***************************************************************************)
(* As long as sizes fit a u32 every scan goes from header to header, in    *)
(* archives with any number of members of any types.                       *)
(***************************************************************************)
THEOREM ScansStayOnHeaders == ASSUME SizesFit PROVE Spec => []OnHeader
  <1>1. ScanInv => OnHeader
    BY DEF ScanInv, Scanning, Looking, OnHeader
  <1> QED
    BY <1>1, ScanInvariance, PTL

(***************************************************************************)
(* ustar_get_filesize returns the size of the first member with the path,  *)
(* or says truly that there is none, unless tar has split a name.          *)
(***************************************************************************)
THEOREM SizesCorrect == ASSUME SizesFit, NoneSplit PROVE Spec => []SizeCorrect
  <1>1. ScanInv => SizeCorrect
    BY FirstIs, AbsentIs DEF ScanInv, SizeFound, SizeCorrect
  <1> QED
    BY <1>1, ScanInvariance, PTL

(***************************************************************************)
(* ustar_load_file leaves the content of the same member in the buffer, if *)
(* a u8 can count its sectors.                                             *)
(***************************************************************************)
THEOREM LoadsCorrect ==
    ASSUME SizesFit, NoneSplit, OneCallEach
    PROVE  Spec => []LoadCorrect
  <1>1. ScanInv /\ LoadFound => LoadCorrect
    <2> SUFFICES ASSUME ScanInv, LoadFound
                 PROVE  LoadCorrect
      OBVIOUS
    <2>1. Types
      BY DEF ScanInv
    <2>2. ASSUME load.result = "found"
          PROVE  /\ Matching # {} /\ load.bytes = archive[First].size
                 /\ buffer = [k \in 1 .. DataSectors(archive[First]) |-> Content(First, k)]
      <3>1. PICK k \in 1 .. Len(archive) :
              /\ IsFirst(k) /\ load.bytes = archive[k].size
              /\ buffer = [i \in 1 .. DataSectors(archive[k]) |-> Content(k, i)]
        BY <2>2 DEF LoadFound
      <3>2. Matching # {} /\ First = k
        BY <2>1, <3>1, FirstIs
      <3> QED
        BY <3>1, <3>2
    <2>3. load.result = "absent" => Matching = {}
      BY <2>1, AbsentIs DEF LoadFound
    <2> QED
      BY <2>2, <2>3 DEF LoadCorrect
  <1>2. Init => LoadFound
    BY ScanInvInit
  <1>3. ScanInv /\ LoadFound /\ [Next]_vars => LoadFound'
    BY LoadFoundStep
  <1> QED
    BY <1>1, <1>2, <1>3, ScanInvariance, PTL DEF Spec

(***************************************************************************)
(* ustar_list_files, when it returns, has printed every name once.         *)
(***************************************************************************)
THEOREM ListsComplete ==
    ASSUME SizesFit, AllRemembered
    PROVE  Spec => []ListComplete
  <1>1. ScanInv => ListComplete
    <2> SUFFICES ASSUME ScanInv, op = "list", pc = "ready"
                 PROVE  listed = [k \in 1 .. Len(archive) |-> archive[k].name]
      BY DEF ListComplete
    <2>1. listed = Names(Len(archive)) /\ archive \in Archives
      BY DEF ScanInv, Listed, Types
    <2>2. Len(archive) <= MaxListed /\ Len(archive) \in Nat /\ MaxListed \in Nat
      BY <2>1, MemberTypes, UstarAssumption DEF AllRemembered
    <2>3. (IF Len(archive) < MaxListed THEN Len(archive) ELSE MaxListed) = Len(archive)
      BY <2>2
    <2> QED
      BY <2>1, <2>3 DEF Names
  <1> QED
    BY <1>1, ScanInvariance, PTL

-----------------------------------------------------------------------------
(* How far a scan is from its end.                                         *)

\* An archive of files and directories.
NoLinks ==
    \A members \in Archives : \A k \in 1 .. Len(members) : members[k].type # "other"

\* The sectors between the seeker and the end of the archive.
Left == Start[Len(archive) + 1] - seeker

RoundsAdvance ==
    [][pc = "scan" /\ pc' = "scan" => Left \in Nat /\ Left' \in Nat /\ Left' < Left]_vars

LEMMA RoundAdvances ==
    ASSUME SizesFit, NoLinks, ScanInv, ScanInv', pc = "scan", pc' = "scan", Next
    PROVE  Left \in Nat /\ Left' \in Nat /\ Left' < Left
  <1>1. ListEntry \/ NextEntry
    BY DEF Next, Round, Begin, EndOfArchive, FoundSize, FoundLoad
  <1>2. archive' = archive /\ Sector(seeker).ustar /\ seeker' = Advance(Sector(seeker))
    BY <1>1 DEF ListEntry, NextEntry
  <1>3. PICK k \in 1 .. Len(archive) : Looking(k) /\ Sector(seeker) = Header(archive[k])
    BY <1>2, MemberFound DEF ScanInv
  <1>4. archive[k].type # "other" /\ archive \in Archives
    BY DEF NoLinks, ScanInv, Types
  <1>5. Start' = Start
    BY <1>2, Kept
  <1>6. seeker' = Start[k + 1] /\ seeker = Start[k] /\ k + 1 \in 1 .. Len(archive) + 1
    BY <1>2, <1>3, <1>4, <1>5, WentOn DEF ScanInv, Looking
  <1>7. Start[k + 1] = Start[k] + 1 + DataSectors(archive[k])
    BY <1>4, StartLaidOut, MemberTypes
  <1>8. DataSectors(archive[k]) \in Nat
    BY <1>4, MemberTypes, DataSectorsType
  <1>9. /\ Start[k] \in Nat /\ Start[k + 1] \in Nat /\ Start[Len(archive) + 1] \in Nat
        /\ Start[k + 1] <= Start[Len(archive) + 1]
    BY <1>4, <1>6, StartGrows, MemberTypes
  <1> DEFINE end == Start[Len(archive) + 1]
  <1>10. Left = end - Start[k] /\ Left' = end - Start[k + 1]
    BY <1>2, <1>5, <1>6 DEF Left
  <1> QED
    <2> HIDE DEF end
    <2>1. end \in Nat /\ Start[k + 1] <= end
      BY <1>9 DEF end
    <2>2. \A a, b, c, d \in Nat : b = a + 1 + c /\ b <= d =>
            d - a \in Nat /\ d - b \in Nat /\ d - b < d - a
      OBVIOUS
    <2>3. /\ end - Start[k] \in Nat /\ end - Start[k + 1] \in Nat
          /\ end - Start[k + 1] < end - Start[k]
      BY <1>7, <1>8, <1>9, <2>1, <2>2, Zenon
    <2> QED
      BY <1>10, <2>3, Zenon

(***************************************************************************)
(* Each round but the last brings a scan nearer to the end of the archive, *)
(* if there are no links: no scan takes more rounds than the archive has   *)
(* sectors, and one.                                                       *)
(***************************************************************************)
THEOREM ScansComeToTheEnd ==
    ASSUME SizesFit, NoLinks
    PROVE  Spec => RoundsAdvance
  <1>1. ScanInv /\ ScanInv' /\ [Next]_vars =>
          [pc = "scan" /\ pc' = "scan" => Left \in Nat /\ Left' \in Nat /\ Left' < Left]_vars
    BY RoundAdvances DEF vars
  <1> QED
    BY <1>1, ScanInvariance, PTL DEF Spec, RoundsAdvance
=============================================================================
