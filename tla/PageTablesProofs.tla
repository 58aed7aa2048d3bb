-------------------------- MODULE PageTablesProofs --------------------------
(***************************************************************************)
(* Proofs about PageTables for every number of entries, every place of the *)
(* tables in memory and every set of calls: the tables keep their types,   *)
(* the watermark its bound, and the tables form a tree.  They implement    *)
(* AddressSpace: a map call changes the translation it is asked to change, *)
(* and no other.  The argument is the tree: the walk of a page passes a    *)
(* slot of each level once, and only the pages that share the levels above *)
(* a slot pass it.  From the same lemmas: what paging.c relies on itself,  *)
(* and how many tables it loses.                                           *)
(***************************************************************************)
EXTENDS PageTables, FiniteSetTheorems, TLAPS

TablesType == [mem : [TablePages -> [Idx -> Entry]], it : Nat]

\* One store to slot i of table t, which is how the code changes its tables.
Write(s, t, i, e) == [s EXCEPT !.mem[t][i] = e]

-----------------------------------------------------------------------------
(* The operators of paging.c keep the type of the tables, whatever their   *)
(* arguments point to, and move the watermark by at most one table.        *)

LEMMA EntryTypes ==
    /\ NullEntry \in Entry
    /\ NullTable \in [Idx -> Entry]
    /\ \A e \in Entry, p \in Nat : Point(e, p) \in Entry
    /\ \A p \in Nat : Leaf(p) \in Entry /\ HugeLeaf(p) \in Entry
  <1>1. NullEntry \in Entry
    BY DEF NullEntry, Entry
  <1>2. \A e \in Entry, p \in Nat : Point(e, p) \in Entry
    BY DEF Point, Entry
  <1>3. \A p \in Nat : Leaf(p) \in Entry
    BY <1>1, <1>2 DEF Leaf
  <1>4. \A e \in Entry : [e EXCEPT !.huge = TRUE] \in Entry
    BY DEF Entry
  <1>5. \A p \in Nat : HugeLeaf(p) \in Entry
    BY <1>3, <1>4 DEF HugeLeaf
  <1> QED
    BY <1>1, <1>2, <1>3, <1>5 DEF NullTable

LEMMA NewPageTableType ==
  ASSUME NEW s \in TablesType
  PROVE  /\ NewPageTable(s) \in TablesType
         /\ NewPageTable(s).it = s.it + 1
  <1> DEFINE m == [s.mem EXCEPT ![s.it] = NullTable]
  <1>1. s.mem \in [TablePages -> [Idx -> Entry]] /\ s.it \in Nat
    BY DEF TablesType
  <1>2. m \in [TablePages -> [Idx -> Entry]]
    BY <1>1, EntryTypes
  <1>3. NewPageTable(s) = [mem |-> m, it |-> s.it + 1]
    BY DEF NewPageTable
  <1> HIDE DEF m
  <1> QED
    BY <1>1, <1>2, <1>3 DEF TablesType

LEMMA WriteType ==
  ASSUME NEW s \in TablesType, NEW t, NEW i, NEW e,
         t \in TablePages /\ i \in Idx => e \in Entry
  PROVE  Write(s, t, i, e) \in TablesType /\ Write(s, t, i, e).it = s.it
  <1> DEFINE m == [s.mem EXCEPT ![t][i] = e]
  <1>1. \A p \in TablePages : s.mem[p] \in [Idx -> Entry]
    BY DEF TablesType
  <1>2. m \in [TablePages -> [Idx -> Entry]]
    BY <1>1 DEF TablesType
  <1>3. Write(s, t, i, e) = [s EXCEPT !.mem = m]
    BY DEF Write
  <1> HIDE DEF m
  <1> QED
    BY <1>2, <1>3 DEF TablesType
LEMMA DescendType ==
  ASSUME NEW s \in TablesType, NEW t, NEW i
  PROVE  /\ Descend(s, t, i) \in TablesType
         /\ Descend(s, t, i).it \in s.it .. s.it + 1
  <1>1. CASE s.mem[t][i].present
    BY <1>1 DEF Descend, TablesType
  <1>2. CASE ~s.mem[t][i].present
    <2>1. t \in TablePages /\ i \in Idx => Point(s.mem[t][i], s.it) \in Entry
      BY EntryTypes DEF TablesType
    <2>2. NewPageTable(s) \in TablesType /\ NewPageTable(s).it = s.it + 1
      BY NewPageTableType
    <2>3. Descend(s, t, i)
            = Write(NewPageTable(s), t, i, Point(s.mem[t][i], s.it))
      BY <1>2 DEF Descend, Write
    <2>4. /\ Descend(s, t, i) \in TablesType
          /\ Descend(s, t, i).it = NewPageTable(s).it
      BY <2>1, <2>2, <2>3, WriteType
    <2> QED
      BY <2>2, <2>4 DEF TablesType
  <1> QED
    BY <1>1, <1>2

LEMMA MapsWrite ==
  ASSUME NEW s, NEW v, NEW f
  PROVE  /\ Map4KB(s, v, f) = Write(WithP1(s, v), P1(s, v), v.l1, Leaf(f))
         /\ Map2MB(s, v, f) = Write(WithP2(s, v), P2(s, v), v.l2, HugeLeaf(f))
  BY DEF Map4KB, Map2MB, Write

LEMMA MapTypes ==
  ASSUME NEW s \in TablesType, NEW v, NEW f \in Nat
  PROVE  /\ WithP1(s, v) \in TablesType
         /\ Map4KB(s, v, f) \in TablesType
         /\ Map4KB(s, v, f).it \in s.it .. s.it + 3
         /\ Map2MB(s, v, f) \in TablesType
         /\ Map2MB(s, v, f).it \in s.it .. s.it + 3
  <1>1. WithP3(s, v) \in TablesType /\ WithP3(s, v).it \in s.it .. s.it + 1
    BY DescendType DEF WithP3
  <1>2. /\ WithP2(s, v) \in TablesType
        /\ WithP2(s, v).it \in WithP3(s, v).it .. WithP3(s, v).it + 1
    BY <1>1, DescendType DEF WithP2
  <1>3. /\ WithP1(s, v) \in TablesType
        /\ WithP1(s, v).it \in WithP2(s, v).it .. WithP2(s, v).it + 1
    BY <1>2, DescendType DEF WithP1
  <1>4. /\ Map4KB(s, v, f) \in TablesType
        /\ Map4KB(s, v, f).it = WithP1(s, v).it
    BY <1>3, WriteType, EntryTypes, MapsWrite
  <1>5. /\ Map2MB(s, v, f) \in TablesType
        /\ Map2MB(s, v, f).it = WithP2(s, v).it
    BY <1>2, WriteType, EntryTypes, MapsWrite
  <1>6. /\ s.it \in Nat /\ WithP3(s, v).it \in Nat
        /\ WithP2(s, v).it \in Nat /\ WithP1(s, v).it \in Nat
    BY <1>1, <1>2, <1>3 DEF TablesType
  <1> QED
    BY <1>1, <1>2, <1>3, <1>4, <1>5, <1>6

LEMMA PhysEntries ==
  ASSUME NEW n \in Nat, NEW i \in Idx, i < n
  PROVE  Gig * (i + Entries * ((n - 1 - i) \div Entries)) \in Nat
  <1>1. Entries \in Nat /\ Entries > 0 /\ i \in Nat /\ n - 1 - i \in Nat
    BY SizesAssumption DEF Idx
  <1>2. (n - 1 - i) \div Entries \in Nat
    BY <1>1
  <1>3. Gig \in Nat
    BY <1>1 DEF Gig
  <1> QED
    BY <1>1, <1>2, <1>3

LEMMA PhysicalMapType ==
  ASSUME NEW s \in TablesType, NEW n \in Nat
  PROVE  /\ PhysicalMap(s, n) \in TablesType
         /\ PhysicalMap(s, n).it = s.it + 1
  <1>1. PhysTable(n) \in [Idx -> Entry]
    BY PhysEntries, EntryTypes DEF PhysTable
  <1> DEFINE n1 == NewPageTable(s)
             m1 == [n1.mem EXCEPT ![s.it] = PhysTable(n)]
             s1 == [mem |-> m1, it |-> s.it + 1]
  <1>2. n1 \in TablesType /\ n1.it = s.it + 1 /\ s.it \in Nat
    BY NewPageTableType DEF TablesType
  <1>3. n1.mem \in [TablePages -> [Idx -> Entry]]
    BY <1>2 DEF TablesType
  <1>4. m1 \in [TablePages -> [Idx -> Entry]]
    BY <1>1, <1>3
  <1>5. PhysicalMap(s, n) = Write(s1, Root, PhysRoot(n), Leaf(s.it))
    BY DEF PhysicalMap, Write
  <1>6. s1 \in TablesType /\ s1.it = s.it + 1
    <2> HIDE DEF m1
    <2> QED BY <1>2, <1>4 DEF TablesType
  <1>7. Leaf(s.it) \in Entry
    BY <1>2, EntryTypes
  <1> HIDE DEF s1
  <1> QED
    BY <1>5, <1>6, <1>7, WriteType

-----------------------------------------------------------------------------
(* Type correctness.                                                       *)

\* What TypeOK needs to be inductive: before setup_physical_map no table has
\* been handed out.
TypeInv == TypeOK /\ (status = "boot" => pt.it = FirstTable)

LEMMA TypeInvInit == Init => TypeInv
  <1> SUFFICES ASSUME Init PROVE TypeInv
    OBVIOUS
  <1> PICK junk \in Residue : pt = BootState(junk)
    BY DEF Init
  <1>1. junk \in Entry
    BY CallsAssumption
  <1>2. \A p \in BootTables : BootTable(p) \in [Idx -> Entry]
    BY EntryTypes DEF BootTable, BootTables, Idx
  <1>3. pt.mem \in [TablePages -> [Idx -> Entry]]
    BY <1>1, <1>2 DEF BootState
  <1>4. pt = [mem |-> pt.mem, it |-> FirstTable]
    BY DEF BootState
  <1>5. FirstTable \in FirstTable .. StackPage + 3 /\ FirstTable <= StackPage
    BY SizesAssumption
  <1>6. status = "boot"
    BY DEF Init
  <1> QED
    BY <1>3, <1>4, <1>5, <1>6 DEF TypeInv, TypeOK, Status

LEMMA TypeInvStep == TypeInv /\ [Next]_vars => TypeInv'
  <1> SUFFICES ASSUME TypeInv, [Next]_vars PROVE TypeInv'
    OBVIOUS
  <1>1. /\ pt \in TablesType /\ pt.it \in FirstTable .. StackPage + 3
        /\ status \in Status
    BY SizesAssumption DEF TypeInv, TypeOK, TablesType
  <1>2. CASE \E n \in Gigs : SetupPhysicalMap(n)
    <2> PICK n \in Gigs : SetupPhysicalMap(n)
      BY <1>2
    <2>1. pt' \in TablesType /\ pt'.it = FirstTable + 1
      BY <1>1, PhysicalMapType, CallsAssumption DEF SetupPhysicalMap, TypeInv
    <2> QED
      BY <2>1, SizesAssumption
      DEF SetupPhysicalMap, TypeInv, TypeOK, TablesType, Status
  <1>3. ASSUME status = "running", pt' \in TablesType,
               pt'.it \in pt.it .. pt.it + 3, status' = StatusAfter(pt')
        PROVE  TypeInv'
    <2>1. pt.it <= StackPage
      BY <1>3 DEF TypeInv, TypeOK
    <2>2. pt'.it \in FirstTable .. StackPage + 3
      BY <1>1, <1>3, <2>1, SizesAssumption
    <2> QED
      BY <1>3, <2>2, SizesAssumption
      DEF TypeInv, TypeOK, TablesType, StatusAfter, Status
  <1>4. CASE \E v \in PageCalls, f \in Frames : MapPage(v, f)
    BY <1>1, <1>3, <1>4, MapTypes, CallsAssumption DEF MapPage
  <1>5. CASE \E v \in BlockCalls, f \in BlockFrames : MapBlock(v, f)
    BY <1>1, <1>3, <1>5, MapTypes, CallsAssumption DEF MapBlock
  <1>6. CASE MapUnderHuge
    BY <1>6 DEF MapUnderHuge, TypeInv, TypeOK, Status
  <1>7. CASE UNCHANGED vars
    BY <1>7 DEF vars, TypeInv, TypeOK
  <1> QED
    BY <1>2, <1>4, <1>5, <1>6, <1>7 DEF Next

(***************************************************************************)
(* Type correctness of paging.c: every page used as a table holds page     *)
(* table entries, and the watermark of new_page_table passes the stack     *)
(* only in the step that ends the model's run.                             *)
(***************************************************************************)
THEOREM TypeCorrect == Spec => []TypeOK
  <1>1. TypeInv => TypeOK
    BY DEF TypeInv
  <1> QED
    BY <1>1, TypeInvInit, TypeInvStep, PTL DEF Spec
-----------------------------------------------------------------------------
(* The tree of tables.  TableTree speaks of the tables a walk reaches, and *)
(* is not inductive: an allocation is fresh only if no table of any kind   *)
(* points beyond the watermark.  Its strengthening gives every table       *)
(* handed out, reachable or lost, a level from 4 (p4) down to 1.           *)

Tables(s) == BootTables \cup (FirstTable .. s.it - 1)

Pointer(s, t, i) == s.mem[t][i].present /\ ~s.mem[t][i].huge

\* No huge entries in p4, and none that are huge but not present.
CleanEntries(s, lvl) ==
    \A t \in Tables(s), i \in Idx :
        s.mem[t][i].huge => s.mem[t][i].present /\ lvl[t] < 4

PointDown(s, lvl) ==
    \A t \in Tables(s), i \in Idx :
        lvl[t] > 1 /\ Pointer(s, t, i) =>
            /\ s.mem[t][i].addr \in Tables(s)
            /\ lvl[s.mem[t][i].addr] = lvl[t] - 1

OneParent(s, lvl) ==
    \A t, u \in Tables(s), i, j \in Idx :
        /\ lvl[t] > 1 /\ Pointer(s, t, i)
        /\ lvl[u] > 1 /\ Pointer(s, u, j)
        /\ s.mem[t][i].addr = s.mem[u][j].addr
        => t = u /\ i = j

Tree(s, lvl) ==
    /\ s \in TablesType /\ s.it \in FirstTable .. StackPage + 3
    /\ lvl \in [Nat -> 1 .. 4]
    /\ \A t \in Tables(s) : lvl[t] = 4 <=> t = Root
    /\ CleanEntries(s, lvl)
    /\ PointDown(s, lvl)
    /\ OneParent(s, lvl)

LEMMA TablesInMemory ==
  ASSUME NEW s, s.it \in FirstTable .. StackPage + 3
  PROVE  /\ Tables(s) \subseteq TablePages /\ Tables(s) \subseteq Nat
         /\ Root \in Tables(s)
  BY SizesAssumption DEF Tables, TablePages, BootTables, Root

LEMMA ReadAfterWrite ==
  ASSUME NEW s \in TablesType, NEW t, NEW i, NEW e,
         NEW u \in TablePages, NEW j \in Idx
  PROVE  Write(s, t, i, e).mem[u][j] = IF u = t /\ j = i THEN e ELSE s.mem[u][j]
  <1> DEFINE m == [s.mem EXCEPT ![t][i] = e]
  <1>1. s.mem \in [TablePages -> [Idx -> Entry]]
    BY DEF TablesType
  <1>2. m[u][j] = IF u = t /\ j = i THEN e ELSE s.mem[u][j]
    BY <1>1
  <1>3. Write(s, t, i, e) = [s EXCEPT !.mem = m]
    BY DEF Write
  <1> HIDE DEF m
  <1>4. [s EXCEPT !.mem = m].mem = m
    BY DEF TablesType
  <1> QED
    BY <1>2, <1>3, <1>4

\* A store of a present entry keeps the tree when what it points to, if it is
\* a pointer, is a table one level down that no other slot points to.
LEMMA WriteTree ==
  ASSUME NEW s, NEW lvl, Tree(s, lvl),
         NEW t \in Tables(s), NEW i \in Idx, NEW e \in Entry,
         e.present, e.huge => lvl[t] < 4,
         lvl[t] > 1 /\ ~e.huge =>
            /\ e.addr \in Tables(s) /\ lvl[e.addr] = lvl[t] - 1
            /\ \A u \in Tables(s), j \in Idx :
                 lvl[u] > 1 /\ Pointer(s, u, j) => s.mem[u][j].addr # e.addr
  PROVE  Tree(Write(s, t, i, e), lvl)
  <1> DEFINE w == Write(s, t, i, e)
  <1>1. s \in TablesType /\ s.it \in FirstTable .. StackPage + 3
    BY DEF Tree
  <1>2. w \in TablesType /\ w.it = s.it
    BY <1>1, WriteType
  <1>3. Tables(w) = Tables(s)
    BY <1>2 DEF Tables
  <1>4. \A u \in Tables(s), j \in Idx :
           w.mem[u][j] = IF u = t /\ j = i THEN e ELSE s.mem[u][j]
    BY <1>1, TablesInMemory, ReadAfterWrite
  <1> HIDE DEF w
  <1>5. CleanEntries(w, lvl)
    BY <1>3, <1>4 DEF Tree, CleanEntries
  <1>6. PointDown(w, lvl)
    BY <1>3, <1>4 DEF Tree, PointDown, Pointer
  <1>7. OneParent(w, lvl)
    <2>1. \A u \in Tables(s), j \in Idx :
            lvl[u] > 1 /\ Pointer(w, u, j) =>
              \/ u = t /\ j = i /\ lvl[t] > 1 /\ ~e.huge /\ w.mem[u][j] = e
              \/ /\ u # t \/ j # i
                 /\ Pointer(s, u, j) /\ w.mem[u][j] = s.mem[u][j]
      BY <1>4 DEF Pointer
    <2> QED
      BY <1>3, <2>1 DEF Tree, OneParent
  <1>8. Tree(w, lvl)
    BY <1>1, <1>2, <1>3, <1>5, <1>6, <1>7 DEF Tree
  <1> QED
    BY <1>8 DEF w
\* A table without pointers taken at the watermark keeps the tree, at any
\* level below p4, and no slot points to it yet.
WithTable(s, table) == [mem |-> [s.mem EXCEPT ![s.it] = table], it |-> s.it + 1]
Raise(lvl, p, l) == [lvl EXCEPT ![p] = l]

LEMMA AddTable ==
  ASSUME NEW s, NEW lvl, Tree(s, lvl), s.it < StackPage + 3,
         NEW table \in [Idx -> Entry], NEW l \in 1 .. 3,
         \A i \in Idx : /\ table[i].present => table[i].huge
                        /\ table[i].huge => table[i].present
  PROVE  LET n == WithTable(s, table)
             L == Raise(lvl, s.it, l)
         IN  /\ Tree(n, L)
             /\ Tables(n) = Tables(s) \cup {s.it}
             /\ s.it \notin Tables(s)
             /\ L[s.it] = l
             /\ \A t \in Tables(s) : L[t] = lvl[t] /\ n.mem[t] = s.mem[t]
             /\ \A t \in Tables(n), i \in Idx :
                  L[t] > 1 /\ Pointer(n, t, i) => n.mem[t][i].addr # s.it
  <1> DEFINE m == [s.mem EXCEPT ![s.it] = table]
             n == WithTable(s, table)
             L == Raise(lvl, s.it, l)
  <1>1. /\ s \in TablesType /\ s.it \in FirstTable .. StackPage + 3
        /\ s.it \in Nat /\ s.mem \in [TablePages -> [Idx -> Entry]]
        /\ s.it \in TablePages
    BY SizesAssumption DEF Tree, TablesType, TablePages
  <1>2. m \in [TablePages -> [Idx -> Entry]]
    BY <1>1
  <1>3. n = [mem |-> m, it |-> s.it + 1]
    BY DEF WithTable
  <1>4. /\ Tables(n) = Tables(s) \cup {s.it}
        /\ s.it \notin Tables(s)
    <2>1. n.it = s.it + 1
      BY <1>3
    <2> HIDE DEF n
    <2>2. FirstTable .. n.it - 1 = (FirstTable .. s.it - 1) \cup {s.it}
      <3>1. /\ FirstTable \in Nat /\ s.it \in Nat /\ FirstTable <= s.it
            /\ n.it - 1 = s.it
        BY <1>1, <2>1, SizesAssumption
      <3>2. FirstTable .. s.it = (FirstTable .. s.it - 1) \cup {s.it}
        BY <3>1
      <3> QED
        BY <3>1, <3>2
    <2> QED
      BY <1>1, <2>2, SizesAssumption DEF Tables, BootTables
  <1>5. n \in TablesType /\ n.it \in FirstTable .. StackPage + 3
    <2> HIDE DEF m, n
    <2> QED BY <1>1, <1>2, <1>3, SizesAssumption DEF TablesType
  <1>6. \A t \in Tables(s) : n.mem[t] = s.mem[t]
    BY <1>1, <1>3, <1>4, TablesInMemory
  <1>7. n.mem[s.it] = table
    BY <1>1, <1>3
  <1>8. /\ L \in [Nat -> 1 .. 4] /\ L[s.it] = l
        /\ \A t \in Tables(s) : L[t] = lvl[t]
    BY <1>1, <1>4 DEF Tree, Raise
  <1> HIDE DEF m, n, L
  <1>9. \A i \in Idx : ~Pointer(n, s.it, i)
    BY <1>7 DEF Pointer
  <1>10. \A t \in Tables(n) : L[t] = 4 <=> t = Root
    BY <1>1, <1>4, <1>8, TablesInMemory DEF Tree
  <1>11. CleanEntries(n, L)
    BY <1>4, <1>6, <1>7, <1>8 DEF Tree, CleanEntries
  <1>12. \A t \in Tables(n), i \in Idx :
           L[t] > 1 /\ Pointer(n, t, i) =>
              /\ t \in Tables(s) /\ lvl[t] > 1 /\ Pointer(s, t, i)
              /\ n.mem[t][i] = s.mem[t][i]
              /\ s.mem[t][i].addr \in Tables(s)
    <2> SUFFICES ASSUME NEW t \in Tables(n), NEW i \in Idx, L[t] > 1, Pointer(n, t, i)
                 PROVE  /\ t \in Tables(s) /\ lvl[t] > 1 /\ Pointer(s, t, i)
                        /\ n.mem[t][i] = s.mem[t][i]
                        /\ s.mem[t][i].addr \in Tables(s)
      OBVIOUS
    <2>1. t \in Tables(s)
      BY <1>4, <1>9
    <2>2. n.mem[t][i] = s.mem[t][i] /\ lvl[t] > 1
      BY <1>6, <1>8, <2>1
    <2>3. Pointer(s, t, i)
      BY <2>2 DEF Pointer
    <2> QED
      BY <2>1, <2>2, <2>3 DEF Tree, PointDown
  <1>13. PointDown(n, L)
    <2>1. \A t \in Tables(s), i \in Idx :
            lvl[t] > 1 /\ Pointer(s, t, i) =>
              lvl[s.mem[t][i].addr] = lvl[t] - 1
      BY DEF Tree, PointDown
    <2> QED
      BY <1>4, <1>8, <1>12, <2>1 DEF PointDown
  <1>14. OneParent(n, L)
    BY <1>12 DEF Tree, OneParent
  <1>15. Tree(n, L)
    BY <1>5, <1>8, <1>10, <1>11, <1>13, <1>14 DEF Tree
  <1> QED
    BY <1>4, <1>6, <1>8, <1>12, <1>15 DEF n, L

\* What one level of a walk leaves: below slot i of t is a table, an empty one
\* if it is new, and no other slot of a table has changed.
Descended(s, lvl, t, i, d, L) ==
    /\ Tree(d, L)
    /\ Pointer(d, t, i)
    /\ Child(d, t, i) \in Tables(d) /\ L[Child(d, t, i)] = lvl[t] - 1
    /\ \A u \in Tables(s) : u \in Tables(d) /\ L[u] = lvl[u]
    /\ \A u \in Tables(s), k \in Idx :
         u # t \/ k # i => d.mem[u][k] = s.mem[u][k]
    /\ s.mem[t][i].present => d = s
    /\ ~s.mem[t][i].present =>
         \A k \in Idx : ~d.mem[Child(d, t, i)][k].present

\* One level of the walk of map_4kb_page.
LEMMA DescendTree ==
  ASSUME NEW s, NEW lvl, Tree(s, lvl), s.it < StackPage + 3,
         NEW t \in Tables(s), lvl[t] > 1, NEW i \in Idx,
         s.mem[t][i].present => ~s.mem[t][i].huge
  PROVE  LET d == Descend(s, t, i)
         IN  /\ d.it \in s.it .. s.it + 1
             /\ \E L : Descended(s, lvl, t, i, d, L)
  <1> DEFINE d == Descend(s, t, i)
  <1>1. s \in TablesType /\ s.it \in Nat /\ s.it \in FirstTable .. StackPage + 3
    BY SizesAssumption DEF Tree, TablesType
  <1>2. t \in TablePages /\ s.mem[t][i] \in Entry
    BY <1>1, TablesInMemory DEF TablesType
  <1>3. d.it \in s.it .. s.it + 1
    BY <1>1, DescendType
  <1>4. CASE s.mem[t][i].present
    <2>1. d = s
      BY <1>4 DEF Descend
    <2>2. Pointer(s, t, i)
      BY <1>4 DEF Pointer
    <2> QED
      BY <1>3, <1>4, <2>1, <2>2 DEF Tree, PointDown, Child, Descended
  <1>5. CASE ~s.mem[t][i].present
    <2> DEFINE n == WithTable(s, NullTable)
               l == lvl[t] - 1
               L == Raise(lvl, s.it, l)
               e == Point(s.mem[t][i], s.it)
    <2>1. /\ NullTable \in [Idx -> Entry]
          /\ \A k \in Idx : /\ NullTable[k].present => NullTable[k].huge
                            /\ NullTable[k].huge => NullTable[k].present
      BY EntryTypes DEF NullTable, NullEntry
    <2>2. l \in 1 .. 3 /\ lvl[t] \in 1 .. 4 /\ l = lvl[t] - 1
      BY <1>1, TablesInMemory DEF Tree
    <2> HIDE DEF l
    <2>3. /\ Tree(n, L)
          /\ Tables(n) = Tables(s) \cup {s.it}
          /\ s.it \notin Tables(s)
          /\ L[s.it] = l
          /\ \A u \in Tables(s) : L[u] = lvl[u] /\ n.mem[u] = s.mem[u]
          /\ \A u \in Tables(n), k \in Idx :
               L[u] > 1 /\ Pointer(n, u, k) => n.mem[u][k].addr # s.it
      BY <2>1, <2>2, AddTable
    <2>4. ~s.mem[t][i].huge
      BY <1>5 DEF Tree, CleanEntries
    <2>5. e \in Entry /\ e.present /\ ~e.huge /\ e.addr = s.it
      BY <1>1, <1>2, <2>4 DEF Point, Entry
    <2>6. d = Write(n, t, i, e)
      BY <1>5 DEF Descend, NewPageTable, WithTable, Write
    <2> HIDE DEF n, L, e, d
    <2>7. L[t] = lvl[t] /\ t \in Tables(n) /\ s.it \in Tables(n)
      BY <2>3
    <2>8. Tree(d, L)
      BY <2>2, <2>3, <2>5, <2>6, <2>7, WriteTree
    <2>9. n \in TablesType
      BY <2>3 DEF Tree
    <2>10. d.mem[t][i] = e /\ d.it = n.it
      <3>1. Write(n, t, i, e).mem[t][i] = e
        BY <1>2, <2>9, ReadAfterWrite
      <3>2. Write(n, t, i, e).it = n.it
        BY <2>5, <2>9, WriteType
      <3> QED
        BY <2>6, <3>1, <3>2
    <2>11. Tables(d) = Tables(n) /\ Child(d, t, i) = s.it
      BY <2>5, <2>10 DEF Tables, Child
    <2>12. \A u \in Tables(s), k \in Idx :
             u # t \/ k # i => d.mem[u][k] = s.mem[u][k]
      <3>1. Tables(s) \subseteq TablePages
        BY <1>1, TablesInMemory
      <3> QED
        BY <2>3, <2>6, <2>9, <3>1, ReadAfterWrite
    <2>13. \A k \in Idx : ~d.mem[s.it][k].present
      <3>1. s.it \in TablePages /\ s.it # t
        BY <1>1, <2>3, TablesInMemory DEF Tree
      <3>2. \A k \in Idx : n.mem[s.it][k] = NullEntry
        BY <1>1, <3>1 DEF n, WithTable, NullTable, TablesType
      <3>3. \A k \in Idx : d.mem[s.it][k] = NullEntry
        BY <2>6, <2>9, <3>1, <3>2, ReadAfterWrite
      <3> QED
        BY <3>3 DEF NullEntry
    <2>14. Descended(s, lvl, t, i, d, L)
      BY <1>5, <2>2, <2>3, <2>5, <2>7, <2>8, <2>10, <2>11, <2>12, <2>13
      DEF Descended, Pointer
    <2> QED
      BY <1>3, <2>14 DEF d
  <1> QED
    BY <1>4, <1>5
\* The walks of the map functions: one level after the other.
LEMMA WalkToP2 ==
  ASSUME NEW s, NEW lvl, Tree(s, lvl), s.it <= StackPage,
         NEW v \in VirtAddr, ~Huge1GB(s, v)
  PROVE  /\ WithP2(s, v).it \in s.it .. s.it + 2
         /\ \E L : /\ Tree(WithP2(s, v), L)
                   /\ P2(s, v) \in Tables(WithP2(s, v))
                   /\ L[P2(s, v)] = 2
  <1>1. /\ s.it \in Nat /\ StackPage \in Nat
        /\ Root \in Tables(s) /\ lvl[Root] = 4
        /\ v.l4 \in Idx /\ v.l3 \in Idx
    BY TablesInMemory, SizesAssumption DEF Tree, TablesType, VirtAddr
  <1>2. ~s.mem[Root][v.l4].huge
    BY <1>1 DEF Tree, CleanEntries
  <1>3. /\ WithP3(s, v).it \in s.it .. s.it + 1
        /\ \E L : /\ Tree(WithP3(s, v), L)
                  /\ P3(s, v) \in Tables(WithP3(s, v))
                  /\ L[P3(s, v)] = 3
    BY <1>1, <1>2, DescendTree DEF WithP3, P3, Descended
  <1> PICK L3 : /\ Tree(WithP3(s, v), L3)
                /\ P3(s, v) \in Tables(WithP3(s, v))
                /\ L3[P3(s, v)] = 3
    BY <1>3
  <1>4. LET e == WithP3(s, v).mem[P3(s, v)][v.l3] IN e.present => ~e.huge
    BY DEF Huge1GB
  <1>5. WithP3(s, v).it < StackPage + 3
    BY <1>1, <1>3
  <1>6. /\ WithP2(s, v).it \in WithP3(s, v).it .. WithP3(s, v).it + 1
        /\ \E L : /\ Tree(WithP2(s, v), L)
                  /\ P2(s, v) \in Tables(WithP2(s, v))
                  /\ L[P2(s, v)] = 2
    BY <1>1, <1>4, <1>5, DescendTree DEF WithP2, P2, Descended
  <1> QED
    BY <1>1, <1>3, <1>6

LEMMA WalkToP1 ==
  ASSUME NEW s, NEW lvl, Tree(s, lvl), s.it <= StackPage,
         NEW v \in VirtAddr, ~Huge1GB(s, v), ~Huge2MB(s, v)
  PROVE  \E L : /\ Tree(WithP1(s, v), L)
               /\ P1(s, v) \in Tables(WithP1(s, v))
               /\ L[P1(s, v)] = 1
  <1>1. s.it \in Nat /\ StackPage \in Nat /\ v.l2 \in Idx
    BY SizesAssumption DEF Tree, TablesType, VirtAddr
  <1>2. /\ WithP2(s, v).it \in s.it .. s.it + 2
        /\ \E L : /\ Tree(WithP2(s, v), L)
                  /\ P2(s, v) \in Tables(WithP2(s, v))
                  /\ L[P2(s, v)] = 2
    BY WalkToP2
  <1> PICK L2 : /\ Tree(WithP2(s, v), L2)
                /\ P2(s, v) \in Tables(WithP2(s, v))
                /\ L2[P2(s, v)] = 2
    BY <1>2
  <1>3. LET e == WithP2(s, v).mem[P2(s, v)][v.l2] IN e.present => ~e.huge
    BY DEF Huge2MB
  <1>4. WithP2(s, v).it < StackPage + 3
    BY <1>1, <1>2
  <1> QED
    BY <1>1, <1>3, <1>4, DescendTree DEF WithP1, P1, Descended

LEMMA LeafEntries ==
  ASSUME NEW f \in Nat
  PROVE  /\ Leaf(f) \in Entry /\ Leaf(f).present /\ ~Leaf(f).huge
         /\ HugeLeaf(f) \in Entry /\ HugeLeaf(f).present /\ HugeLeaf(f).huge
         /\ Leaf(f).addr = f
  BY DEF Leaf, HugeLeaf, Point, NullEntry, Entry

LEMMA Map4KBTree ==
  ASSUME NEW s, NEW lvl, Tree(s, lvl), s.it <= StackPage, NEW f \in Nat,
         NEW v \in VirtAddr, ~Huge1GB(s, v), ~Huge2MB(s, v)
  PROVE  \E L : Tree(Map4KB(s, v, f), L)
  <1> PICK L1 : /\ Tree(WithP1(s, v), L1)
                /\ P1(s, v) \in Tables(WithP1(s, v))
                /\ L1[P1(s, v)] = 1
    BY WalkToP1
  <1>1. v.l1 \in Idx
    BY DEF VirtAddr
  <1>2. Tree(Write(WithP1(s, v), P1(s, v), v.l1, Leaf(f)), L1)
    BY <1>1, LeafEntries, WriteTree
  <1> QED
    BY <1>2, MapsWrite

LEMMA Map2MBTree ==
  ASSUME NEW s, NEW lvl, Tree(s, lvl), s.it <= StackPage, NEW f \in Nat,
         NEW v \in VirtAddr, ~Huge1GB(s, v)
  PROVE  \E L : Tree(Map2MB(s, v, f), L)
  <1> PICK L2 : /\ Tree(WithP2(s, v), L2)
                /\ P2(s, v) \in Tables(WithP2(s, v))
                /\ L2[P2(s, v)] = 2
    BY WalkToP2
  <1>1. v.l2 \in Idx
    BY DEF VirtAddr
  <1>2. Tree(Write(WithP2(s, v), P2(s, v), v.l2, HugeLeaf(f)), L2)
    BY <1>1, LeafEntries, WriteTree
  <1> QED
    BY <1>2, MapsWrite
LEMMA PhysicalMapTree ==
  ASSUME NEW s, NEW lvl, Tree(s, lvl), s.it < StackPage + 3, NEW n \in Nat
  PROVE  \E L : Tree(PhysicalMap(s, n), L)
  <1> DEFINE T == PhysTable(n)
             w == WithTable(s, T)
             L == Raise(lvl, s.it, 3)
  <1>1. /\ s \in TablesType /\ s.it \in Nat
        /\ Root \in Tables(s) /\ lvl[Root] = 4
        /\ s.mem \in [TablePages -> [Idx -> Entry]]
    BY TablesInMemory, SizesAssumption DEF Tree, TablesType
  <1>2. /\ T \in [Idx -> Entry]
        /\ \A i \in Idx : /\ T[i].present => T[i].huge
                          /\ T[i].huge => T[i].present
    <2>1. \A i \in Idx : T[i] = NullEntry \/ \E f \in Nat : T[i] = HugeLeaf(f)
      BY PhysEntries DEF PhysTable
    <2>2. \A i \in Idx : T[i] \in Entry
      BY <2>1, EntryTypes
    <2>3. T = [i \in Idx |-> T[i]]
      BY DEF PhysTable
    <2>4. ~NullEntry.present /\ ~NullEntry.huge
      BY DEF NullEntry
    <2> HIDE DEF T
    <2> QED
      BY <2>1, <2>2, <2>3, <2>4, LeafEntries
  <1>3. PhysRoot(n) \in Idx
    <2>1. /\ Entries \in Nat \ {0} /\ PhysSlot \in Nat /\ n \div Entries \in Nat
      BY SizesAssumption
    <2> QED
      BY <2>1 DEF PhysRoot, Idx
  <1>4. PhysicalMap(s, n) = Write(w, Root, PhysRoot(n), Leaf(s.it))
    <2>1. [NewPageTable(s).mem EXCEPT ![s.it] = T] = [s.mem EXCEPT ![s.it] = T]
      BY <1>1 DEF NewPageTable
    <2> QED
      BY <2>1 DEF PhysicalMap, WithTable, Write
  <1> HIDE DEF T
  <1>5. /\ Tree(w, L)
        /\ Tables(w) = Tables(s) \cup {s.it}
        /\ L[s.it] = 3
        /\ \A u \in Tables(s) : L[u] = lvl[u] /\ w.mem[u] = s.mem[u]
        /\ \A u \in Tables(w), k \in Idx :
             L[u] > 1 /\ Pointer(w, u, k) => w.mem[u][k].addr # s.it
    BY <1>2, AddTable
  <1> HIDE DEF w, L
  <1>6. Tree(Write(w, Root, PhysRoot(n), Leaf(s.it)), L)
    BY <1>1, <1>3, <1>5, LeafEntries, WriteTree
  <1> QED
    BY <1>4, <1>6

LEMMA BootTree ==
  ASSUME NEW junk \in Residue
  PROVE  \E L : Tree(BootState(junk), L)
  <1> DEFINE s == BootState(junk)
             L == [p \in Nat |-> IF p \in {1, 2, 3} THEN 5 - p ELSE 1]
  <1>1. Tables(s) = {1, 2, 3, 4}
    BY SizesAssumption DEF Tables, BootState, BootTables
  <1>2. s \in TablesType /\ s.it = FirstTable
    <2>1. junk \in Entry
      BY CallsAssumption
    <2>2. \A p \in BootTables : BootTable(p) \in [Idx -> Entry]
      BY EntryTypes DEF BootTable, BootTables, Idx
    <2> QED
      BY <2>1, <2>2, SizesAssumption DEF BootState, TablesType
  <1>3. \A t \in Tables(s) : s.mem[t] = BootTable(t)
    <2>1. Tables(s) = BootTables /\ BootTables \subseteq TablePages
      BY <1>1 DEF BootTables, TablePages
    <2> QED
      BY <2>1 DEF BootState
  <1>4. /\ L \in [Nat -> 1 .. 4]
        /\ L[1] = 4 /\ L[2] = 3 /\ L[3] = 2 /\ L[4] = 1
    OBVIOUS
  <1> HIDE DEF s, L
  <1>5. \A t \in Tables(s), i \in Idx :
          /\ ~s.mem[t][i].huge
          /\ L[t] > 1 /\ Pointer(s, t, i) =>
                t \in {1, 2, 3} /\ i = 0 /\ s.mem[t][i].addr = t + 1
    <2> TAKE t \in Tables(s), i \in Idx
    <2>1. i \in Nat /\ t \in Nat
      BY <1>1, SizesAssumption DEF Idx
    <2>2. s.mem[t][i] = IF t = 4 THEN Leaf(i)
                        ELSE IF i = 0 THEN Leaf(t + 1) ELSE NullEntry
      BY <1>3 DEF BootTable
    <2>3. ~NullEntry.present /\ ~NullEntry.huge
      BY DEF NullEntry
    <2> QED
      BY <1>1, <1>4, <2>1, <2>2, <2>3, LeafEntries DEF Pointer
  <1>6. CleanEntries(s, L) /\ PointDown(s, L) /\ OneParent(s, L)
    BY <1>1, <1>4, <1>5 DEF CleanEntries, PointDown, OneParent
  <1>7. Tree(s, L)
    BY <1>1, <1>2, <1>4, <1>6, SizesAssumption DEF Tree, Root
  <1> QED
    BY <1>7 DEF s

TreeInv == TypeInv /\ \E L : Tree(pt, L)

LEMMA TreeInvStep == TreeInv /\ [Next]_vars => TreeInv'
  <1> SUFFICES ASSUME TreeInv, [Next]_vars PROVE TreeInv'
    OBVIOUS
  <1>1. TypeInv'
    BY TypeInvStep DEF TreeInv
  <1> PICK L : Tree(pt, L)
    BY DEF TreeInv
  <1>2. /\ pt.it \in Nat /\ StackPage \in Nat
        /\ status # "smashed" => pt.it <= StackPage
    BY SizesAssumption DEF TreeInv, TypeInv, TypeOK, Tree, TablesType
  <1>3. ASSUME NEW n \in Gigs, SetupPhysicalMap(n) PROVE \E M : Tree(pt', M)
    BY <1>2, <1>3, PhysicalMapTree, CallsAssumption DEF SetupPhysicalMap
  <1>4. ASSUME NEW v \in PageCalls, NEW f \in Frames, MapPage(v, f)
        PROVE  \E M : Tree(pt', M)
    BY <1>2, <1>4, Map4KBTree, CallsAssumption DEF MapPage
  <1>5. ASSUME NEW v \in BlockCalls, NEW f \in BlockFrames, MapBlock(v, f)
        PROVE  \E M : Tree(pt', M)
    BY <1>2, <1>5, Map2MBTree, CallsAssumption DEF MapBlock
  <1>6. CASE UNCHANGED pt
    BY <1>1, <1>6 DEF TreeInv
  <1> QED
    BY <1>1, <1>3, <1>4, <1>5, <1>6 DEF Next, vars, MapUnderHuge, TreeInv

LEMMA TreeInvImplies == TreeInv => TableTree
  <1> SUFFICES ASSUME TreeInv PROVE TableTree
    OBVIOUS
  <1> PICK L : Tree(pt, L)
    BY DEF TreeInv
  <1>1. Allocated = Tables(pt) /\ Root \in Tables(pt) /\ L[Root] = 4
    BY TablesInMemory DEF Allocated, Tables, Tree
  <1>2. ASSUME NEW T \in SUBSET Tables(pt), NEW k \in 2 .. 4,
               \A t \in T : L[t] = k
        PROVE  /\ Below(T) \subseteq Tables(pt)
               /\ \A p \in Below(T) : L[p] = k - 1
    BY <1>2 DEF Tree, PointDown, Pointer, Below, PointersIn, Target
  <1>3. Level3 \subseteq Tables(pt) /\ \A t \in Level3 : L[t] = 3
    BY <1>1, <1>2 DEF Level3
  <1>4. Level2 \subseteq Tables(pt) /\ \A t \in Level2 : L[t] = 2
    BY <1>2, <1>3 DEF Level2
  <1>5. \A x \in Pointers : /\ x[1] \in Tables(pt) /\ x[2] \in Idx /\ x = <<x[1], x[2]>>
                           /\ L[x[1]] > 1 /\ Pointer(pt, x[1], x[2])
                           /\ Target(x) = pt.mem[x[1]][x[2]].addr
    BY <1>1, <1>3, <1>4 DEF Pointers, PointersIn, Pointer, Target
  <1>6. \A x \in Pointers : Target(x) \in Allocated \ {Root}
    BY <1>1, <1>5, TablesInMemory DEF Tree, PointDown
  <1>7. \A x, y \in Pointers : Target(x) = Target(y) => x = y
    BY <1>5 DEF Tree, OneParent
  <1> QED
    BY <1>6, <1>7 DEF TableTree

(***************************************************************************)
(* The tables of paging.c form a tree, for every size of memory and every  *)
(* sequence of calls of map_4kb_page and map_2mb_page: a slot points to a  *)
(* table new_page_table has handed out, and no other slot points to it.    *)
(***************************************************************************)
THEOREM TreeCorrect == Spec => []TableTree
  <1>1. Init => TreeInv
    BY TypeInvInit, BootTree DEF Init, TreeInv
  <1> QED
    BY <1>1, TreeInvStep, TreeInvImplies, PTL DEF Spec

-----------------------------------------------------------------------------
(* The tables implement AddressSpace.                                      *)

\* The tables that the walk of w reaches in s, and whether it reaches them.
T3(s, w) == s.mem[Root][w.l4].addr
T2(s, w) == s.mem[T3(s, w)][w.l3].addr
T1(s, w) == s.mem[T2(s, w)][w.l2].addr
Open3(s, w) == s.mem[Root][w.l4].present
Open2(s, w) == Open3(s, w) /\ Pointer(s, T3(s, w), w.l3)
Open1(s, w) == Open2(s, w) /\ Pointer(s, T2(s, w), w.l2)

\* The walk looks at slot i of table t.
Passes(s, w, t, i) ==
    \/ t = Root /\ i = w.l4
    \/ Open3(s, w) /\ t = T3(s, w) /\ i = w.l3
    \/ Open2(s, w) /\ t = T2(s, w) /\ i = w.l2
    \/ Open1(s, w) /\ t = T1(s, w) /\ i = w.l1

\* Nothing but slot i of t differs.
Elsewhere(s, n, t, i) ==
    \A u \in Tables(s), k \in Idx : u # t \/ k # i => n.mem[u][k] = s.mem[u][k]

LEMMA PageFacts ==
    ASSUME NEW w \in VirtAddr
    PROVE  /\ w.l4 \in Idx /\ w.l3 \in Idx /\ w.l2 \in Idx /\ w.l1 \in Idx
           /\ Idx \subseteq Nat
  BY SizesAssumption DEF VirtAddr, Idx

LEMMA SamePage ==
    ASSUME NEW v \in VirtAddr, NEW w \in VirtAddr,
           v.l4 = w.l4, v.l3 = w.l3, v.l2 = w.l2, v.l1 = w.l1
    PROVE  v = w
  BY DEF VirtAddr

\* Every table on a walk has its level.
LEMMA WalkLevels ==
    ASSUME NEW s, NEW lvl, Tree(s, lvl), NEW w \in VirtAddr
    PROVE  /\ Root \in Tables(s) /\ lvl[Root] = 4
           /\ ~s.mem[Root][w.l4].huge
           /\ Open3(s, w) => T3(s, w) \in Tables(s) /\ lvl[T3(s, w)] = 3
           /\ Open2(s, w) => T2(s, w) \in Tables(s) /\ lvl[T2(s, w)] = 2
           /\ Open1(s, w) => T1(s, w) \in Tables(s) /\ lvl[T1(s, w)] = 1
  <1>1. Root \in Tables(s) /\ lvl[Root] = 4
    BY TablesInMemory DEF Tree
  <1>2. ~s.mem[Root][w.l4].huge
    BY <1>1, PageFacts DEF Tree, CleanEntries
  <1>3. Open3(s, w) => T3(s, w) \in Tables(s) /\ lvl[T3(s, w)] = 3
    BY <1>1, <1>2, PageFacts DEF Tree, PointDown, Pointer, Open3, T3
  <1>4. Open2(s, w) => T2(s, w) \in Tables(s) /\ lvl[T2(s, w)] = 2
    BY <1>3, PageFacts DEF Tree, PointDown, Open2, T2
  <1>5. Open1(s, w) => T1(s, w) \in Tables(s) /\ lvl[T1(s, w)] = 1
    BY <1>4, PageFacts DEF Tree, PointDown, Open1, Open2, T1
  <1> QED
    BY <1>1, <1>2, <1>3, <1>4, <1>5

\* Translation, by how far the walk goes.
LEMMA Walk ==
    ASSUME NEW s, NEW w
    PROVE  Translate(s.mem, w) =
             IF ~Open3(s, w) THEN Unmapped
             ELSE IF ~s.mem[T3(s, w)][w.l3].present THEN Unmapped
             ELSE IF ~Open2(s, w)
                  THEN s.mem[T3(s, w)][w.l3].addr + w.l2 * Entries + w.l1
             ELSE IF ~s.mem[T2(s, w)][w.l2].present THEN Unmapped
             ELSE IF ~Open1(s, w) THEN s.mem[T2(s, w)][w.l2].addr + w.l1
             ELSE IF ~s.mem[T1(s, w)][w.l1].present THEN Unmapped
             ELSE s.mem[T1(s, w)][w.l1].addr
  BY DEF Translate, Open3, Open2, Open1, Pointer, T3, T2, T1

\* A walk that does not look at what has changed ends where it did.
LEMMA SameWalk ==
    ASSUME NEW s, NEW lvl, Tree(s, lvl), NEW n, NEW t \in Tables(s), NEW i \in Idx,
           Elsewhere(s, n, t, i), NEW w \in VirtAddr, ~Passes(s, w, t, i)
    PROVE  Translate(n.mem, w) = Translate(s.mem, w)
  <1>1. /\ w.l4 \in Idx /\ w.l3 \in Idx /\ w.l2 \in Idx /\ w.l1 \in Idx
        /\ Root \in Tables(s)
    BY PageFacts, WalkLevels
  <1>2. n.mem[Root][w.l4] = s.mem[Root][w.l4]
    BY <1>1 DEF Elsewhere, Passes
  <1>3. (Open3(n, w) <=> Open3(s, w)) /\ T3(n, w) = T3(s, w)
    BY <1>2 DEF Open3, T3
  <1>4. Open3(s, w) =>
          n.mem[T3(s, w)][w.l3] = s.mem[T3(s, w)][w.l3]
    BY <1>1, WalkLevels DEF Elsewhere, Passes
  <1>5. /\ Open2(n, w) <=> Open2(s, w)
        /\ Open2(s, w) => T2(n, w) = T2(s, w)
    BY <1>3, <1>4 DEF Open2, T2, Pointer
  <1>6. Open2(s, w) =>
          n.mem[T2(s, w)][w.l2] = s.mem[T2(s, w)][w.l2]
    BY <1>1, WalkLevels DEF Elsewhere, Passes
  <1>7. /\ Open1(n, w) <=> Open1(s, w)
        /\ Open1(s, w) => T1(n, w) = T1(s, w)
    BY <1>5, <1>6 DEF Open1, T1, Pointer
  <1>8. Open1(s, w) =>
          n.mem[T1(s, w)][w.l1] = s.mem[T1(s, w)][w.l1]
    BY <1>1, WalkLevels DEF Elsewhere, Passes
  <1>9. Open2(s, w) => Open3(s, w)
    BY DEF Open2
  <1>10. Open1(s, w) => Open2(s, w)
    BY DEF Open1
  <1> QED
    BY <1>3, <1>4, <1>5, <1>6, <1>7, <1>8, <1>9, <1>10, Walk

-----------------------------------------------------------------------------
(* The walk of the map functions: making tables changes no translation.    *)

\* A slot that was not present gets an empty table.
Fresh(s, n, t, i) ==
    /\ Elsewhere(s, n, t, i)
    /\ ~s.mem[t][i].present
    /\ Pointer(n, t, i)
    /\ \A k \in Idx : ~n.mem[Child(n, t, i)][k].present

LEMMA FreshTable ==
    ASSUME NEW s, NEW lvl, Tree(s, lvl), NEW n,
           NEW t \in Tables(s), lvl[t] > 1, NEW i \in Idx,
           Fresh(s, n, t, i), NEW w \in VirtAddr
    PROVE  Translate(n.mem, w) = Translate(s.mem, w)
  <1>0. /\ Elsewhere(s, n, t, i)
        /\ ~s.mem[t][i].present
        /\ Pointer(n, t, i)
        /\ \A k \in Idx : ~n.mem[Child(n, t, i)][k].present
    BY DEF Fresh
  <1>1. /\ w.l4 \in Idx /\ w.l3 \in Idx /\ w.l2 \in Idx /\ w.l1 \in Idx
        /\ Root \in Tables(s) /\ lvl[Root] = 4
    BY PageFacts, WalkLevels
  <1>2. CASE ~Passes(s, w, t, i)
    BY <1>0, <1>2, SameWalk
  <1>3. CASE t = Root /\ i = w.l4
    <2>1. Translate(s.mem, w) = Unmapped
      BY <1>0, <1>3, Walk DEF Open3
    <2>2. Open3(n, w) /\ T3(n, w) = Child(n, t, i)
      BY <1>0, <1>3 DEF Open3, T3, Pointer, Child
    <2> QED
      BY <1>0, <1>1, <2>1, <2>2, Walk
  <1>4. CASE Open3(s, w) /\ t = T3(s, w) /\ i = w.l3
    <2>1. t # Root
      BY <1>1, <1>4, WalkLevels
    <2>2. n.mem[Root][w.l4] = s.mem[Root][w.l4]
      BY <1>0, <1>1, <2>1 DEF Elsewhere
    <2>3. Open3(n, w) /\ T3(n, w) = t
      BY <1>0, <1>4, <2>2 DEF Open3, T3
    <2>4. Open2(n, w) /\ T2(n, w) = Child(n, t, i)
      BY <1>0, <1>4, <2>3 DEF Open2, T2, Child
    <2>5. Translate(n.mem, w) = Unmapped
      BY <1>0, <1>1, <2>3, <2>4, Walk
    <2> QED
      BY <1>0, <1>4, <2>5, Walk
  <1>5. CASE Open2(s, w) /\ t = T2(s, w) /\ i = w.l2
    <2>1. Open3(s, w)
      BY <1>5 DEF Open2
    <2>2. /\ T3(s, w) \in Tables(s) /\ lvl[T3(s, w)] = 3 /\ lvl[t] = 2
      BY <1>5, <2>1, WalkLevels
    <2>3. /\ n.mem[Root][w.l4] = s.mem[Root][w.l4]
          /\ n.mem[T3(s, w)][w.l3] = s.mem[T3(s, w)][w.l3]
      BY <1>0, <1>1, <2>2 DEF Elsewhere
    <2>4. Open3(n, w) /\ T3(n, w) = T3(s, w)
      BY <2>1, <2>3 DEF Open3, T3
    <2>5. Open2(n, w) /\ T2(n, w) = t
      BY <1>0, <1>5, <2>3, <2>4 DEF Open2, T2, Pointer
    <2>6. Open1(n, w) /\ T1(n, w) = Child(n, t, i)
      BY <1>0, <1>5, <2>5 DEF Open1, T1, Child
    <2>7. n.mem[T3(n, w)][w.l3].present /\ n.mem[T2(n, w)][w.l2].present
      BY <1>0, <1>5, <2>5 DEF Open2, Pointer
    <2>8. Translate(n.mem, w) = Unmapped
      BY <1>0, <1>1, <2>4, <2>5, <2>6, <2>7, Walk
    <2>9. s.mem[T3(s, w)][w.l3].present
      BY <1>5 DEF Open2, Pointer
    <2> QED
      BY <1>0, <1>5, <2>1, <2>8, <2>9, Walk
  <1>6. ~(Open1(s, w) /\ t = T1(s, w) /\ i = w.l1)
    BY WalkLevels
  <1> QED
    BY <1>2, <1>3, <1>4, <1>5, <1>6 DEF Passes

LEMMA DescendTranslate ==
    ASSUME NEW s, NEW lvl, Tree(s, lvl), NEW t \in Tables(s), lvl[t] > 1,
           NEW i \in Idx, NEW d, NEW L, Descended(s, lvl, t, i, d, L),
           NEW w \in VirtAddr
    PROVE  Translate(d.mem, w) = Translate(s.mem, w)
  <1>1. CASE s.mem[t][i].present
    BY <1>1 DEF Descended
  <1>2. CASE ~s.mem[t][i].present
    <2>1. Fresh(s, d, t, i)
      BY <1>2 DEF Descended, Elsewhere, Fresh
    <2> QED
      BY <2>1, FreshTable
  <1> QED
    BY <1>1, <1>2

\* The tables on the way of v are there, down to the one the map functions
\* write to, and no page has moved since s.
Ready2(s, v, d, L) ==
    /\ Tree(d, L) /\ Open2(d, v) /\ T2(d, v) = P2(s, v)
    /\ d.it <= StackPage + 2
    /\ \A w \in VirtAddr : Translate(d.mem, w) = Translate(s.mem, w)
Ready1(s, v, d, L) ==
    /\ Tree(d, L) /\ Open1(d, v) /\ T1(d, v) = P1(s, v)
    /\ \A w \in VirtAddr : Translate(d.mem, w) = Translate(s.mem, w)

LEMMA ReadyAtP2 ==
    ASSUME NEW s, NEW lvl, Tree(s, lvl), s.it <= StackPage,
           NEW v \in VirtAddr, ~Huge1GB(s, v)
    PROVE  \E L : Ready2(s, v, WithP2(s, v), L)
  <1> DEFINE d3 == WithP3(s, v)
             d2 == WithP2(s, v)
             p3 == P3(s, v)
  <1>1. /\ s.it \in Nat /\ StackPage \in Nat
        /\ Root \in Tables(s) /\ lvl[Root] = 4
        /\ v.l4 \in Idx /\ v.l3 \in Idx
    BY WalkLevels, PageFacts, SizesAssumption DEF Tree, TablesType
  <1>2. ~s.mem[Root][v.l4].huge
    BY WalkLevels
  <1>3. /\ d3.it \in s.it .. s.it + 1
        /\ \E L : Descended(s, lvl, Root, v.l4, d3, L)
    BY <1>1, <1>2, DescendTree DEF WithP3
  <1> PICK L3 : Descended(s, lvl, Root, v.l4, d3, L3)
    BY <1>3
  <1>4. /\ Tree(d3, L3) /\ p3 \in Tables(d3) /\ L3[p3] = 3
        /\ Root \in Tables(d3) /\ L3[Root] = 4
        /\ Pointer(d3, Root, v.l4)
        /\ d3.mem[Root][v.l4].addr = p3
    BY <1>1 DEF Descended, P3, Child
  <1>5. d3.mem[p3][v.l3].present => ~d3.mem[p3][v.l3].huge
    BY DEF Huge1GB
  <1>6. d3.it < StackPage + 3 /\ d3.it \in Nat
    BY <1>1, <1>3
  <1>7. d2 = Descend(d3, p3, v.l3)
    BY DEF WithP2
  <1> HIDE DEF d3, d2, p3
  <1>8. /\ d2.it \in d3.it .. d3.it + 1
        /\ \E L : Descended(d3, L3, p3, v.l3, d2, L)
    BY <1>1, <1>4, <1>5, <1>6, <1>7, DescendTree
  <1> PICK L2 : Descended(d3, L3, p3, v.l3, d2, L2)
    BY <1>8
  <1>9. d2.mem[Root][v.l4] = d3.mem[Root][v.l4]
    BY <1>1, <1>4 DEF Descended
  <1>10. Open3(d2, v) /\ T3(d2, v) = p3
    BY <1>4, <1>9 DEF Open3, T3, Pointer
  <1>11. Open2(d2, v) /\ T2(d2, v) = Child(d2, p3, v.l3)
    BY <1>10 DEF Open2, T2, Child, Descended
  <1>12. Child(d2, p3, v.l3) = P2(s, v)
    BY DEF d2, p3, P2
  <1>13. \A w \in VirtAddr : Translate(d3.mem, w) = Translate(s.mem, w)
    BY <1>1, DescendTranslate
  <1>14. \A w \in VirtAddr : Translate(d2.mem, w) = Translate(d3.mem, w)
    BY <1>1, <1>4, DescendTranslate
  <1>15. d2.it <= StackPage + 2
    BY <1>1, <1>3, <1>6, <1>8
  <1>16. Ready2(s, v, d2, L2)
    BY <1>11, <1>12, <1>13, <1>14, <1>15 DEF Ready2, Descended
  <1> QED
    BY <1>16 DEF d2

LEMMA ReadyAtP1 ==
    ASSUME NEW s, NEW lvl, Tree(s, lvl), s.it <= StackPage,
           NEW v \in VirtAddr, ~Huge1GB(s, v), ~Huge2MB(s, v)
    PROVE  \E L : Ready1(s, v, WithP1(s, v), L)
  <1> DEFINE d2 == WithP2(s, v)
             d1 == WithP1(s, v)
             p2 == P2(s, v)
  <1> PICK L2 : Ready2(s, v, d2, L2)
    BY ReadyAtP2
  <1>1. /\ Tree(d2, L2) /\ Open3(d2, v) /\ Open2(d2, v) /\ T2(d2, v) = p2
        /\ d2.it <= StackPage + 2
        /\ d2.it \in Nat /\ StackPage \in Nat
    BY SizesAssumption DEF Ready2, Open2, Tree, TablesType
  <1>2. /\ v.l4 \in Idx /\ v.l3 \in Idx /\ v.l2 \in Idx
        /\ Root \in Tables(d2) /\ L2[Root] = 4
        /\ T3(d2, v) \in Tables(d2) /\ L2[T3(d2, v)] = 3
        /\ p2 \in Tables(d2) /\ L2[p2] = 2
    BY <1>1, WalkLevels, PageFacts
  <1>3. d2.mem[p2][v.l2].present => ~d2.mem[p2][v.l2].huge
    BY DEF Huge2MB
  <1>4. d1 = Descend(d2, p2, v.l2)
    BY DEF WithP1
  <1>5. Child(d1, p2, v.l2) = P1(s, v)
    BY DEF P1
  <1> HIDE DEF d2, d1, p2
  <1>6. \E L : Descended(d2, L2, p2, v.l2, d1, L)
    BY <1>1, <1>2, <1>3, <1>4, DescendTree
  <1> PICK L1 : Descended(d2, L2, p2, v.l2, d1, L1)
    BY <1>6
  <1>7. /\ d1.mem[Root][v.l4] = d2.mem[Root][v.l4]
        /\ d1.mem[T3(d2, v)][v.l3] = d2.mem[T3(d2, v)][v.l3]
    BY <1>2 DEF Descended
  <1>8. Open3(d1, v) /\ T3(d1, v) = T3(d2, v)
    BY <1>1, <1>7 DEF Open3, T3
  <1>9. Open2(d1, v) /\ T2(d1, v) = p2
    BY <1>1, <1>7, <1>8 DEF Open2, T2, Pointer
  <1>10. Open1(d1, v) /\ T1(d1, v) = P1(s, v)
    BY <1>5, <1>9 DEF Open1, T1, Child, Descended
  <1>11. \A w \in VirtAddr : Translate(d1.mem, w) = Translate(d2.mem, w)
    BY <1>1, <1>2, DescendTranslate
  <1>12. Ready1(s, v, d1, L1)
    BY <1>10, <1>11 DEF Ready1, Ready2, Descended
  <1> QED
    BY <1>12 DEF d1

-----------------------------------------------------------------------------
(* The store that ends a map function.  Only the page asked for passes the *)
(* slot it writes: the slots above it are the same, one level at a time.   *)

LEMMA SameSlots ==
    ASSUME NEW s, NEW lvl, Tree(s, lvl), NEW v \in VirtAddr, NEW w \in VirtAddr
    PROVE  /\ Open2(s, v) /\ Open2(s, w) /\ T2(s, v) = T2(s, w) =>
                v.l4 = w.l4 /\ v.l3 = w.l3
           /\ Open1(s, v) /\ Open1(s, w) /\ T1(s, v) = T1(s, w) =>
                AS!SameBlock(w, v)
  <1>1. \A u \in {v, w} :
          /\ u.l4 \in Idx /\ u.l3 \in Idx /\ u.l2 \in Idx
          /\ Open3(s, u) => /\ Pointer(s, Root, u.l4)
                            /\ T3(s, u) \in Tables(s) /\ lvl[T3(s, u)] = 3
          /\ Open2(s, u) => /\ Open3(s, u) /\ Pointer(s, T3(s, u), u.l3)
                            /\ T2(s, u) \in Tables(s) /\ lvl[T2(s, u)] = 2
          /\ Open1(s, u) => Open2(s, u) /\ Pointer(s, T2(s, u), u.l2)
    BY PageFacts, WalkLevels DEF Open3, Open2, Open1, Pointer
  <1>2. Root \in Tables(s) /\ lvl[Root] = 4
    BY WalkLevels
  <1>3. ASSUME Open3(s, v), Open3(s, w), T3(s, v) = T3(s, w)
        PROVE  v.l4 = w.l4
    BY <1>1, <1>2, <1>3 DEF Tree, OneParent, T3
  <1>4. ASSUME Open2(s, v), Open2(s, w), T2(s, v) = T2(s, w)
        PROVE  v.l4 = w.l4 /\ v.l3 = w.l3
    <2>1. T3(s, v) = T3(s, w) /\ v.l3 = w.l3
      BY <1>1, <1>4 DEF Tree, OneParent, T2
    <2> QED
      BY <1>1, <1>3, <1>4, <2>1
  <1>5. ASSUME Open1(s, v), Open1(s, w), T1(s, v) = T1(s, w)
        PROVE  AS!SameBlock(w, v)
    <2>1. T2(s, v) = T2(s, w) /\ v.l2 = w.l2
      BY <1>1, <1>5 DEF Tree, OneParent, T1
    <2> QED
      BY <1>1, <1>4, <1>5, <2>1 DEF AS!SameBlock
  <1> QED
    BY <1>4, <1>5

\* What a store to slot i of table t, one of the tables of s, leaves.
LEMMA WriteElsewhere ==
    ASSUME NEW s, NEW lvl, Tree(s, lvl), NEW t \in Tables(s), NEW i \in Idx, NEW e
    PROVE  /\ Elsewhere(s, Write(s, t, i, e), t, i)
           /\ Write(s, t, i, e).mem[t][i] = e
  <1>1. s \in TablesType /\ Tables(s) \subseteq TablePages
    BY TablesInMemory DEF Tree
  <1> QED
    BY <1>1, ReadAfterWrite DEF Elsewhere

LEMMA LeafWrite ==
    ASSUME NEW s, NEW lvl, Tree(s, lvl), NEW v \in VirtAddr, Open1(s, v),
           NEW f, NEW w \in VirtAddr
    PROVE  Translate(Write(s, T1(s, v), v.l1, Leaf(f)).mem, w)
             = IF w = v THEN f ELSE Translate(s.mem, w)
  <1> DEFINE n == Write(s, T1(s, v), v.l1, Leaf(f))
  <1>1. /\ v.l4 \in Idx /\ v.l3 \in Idx /\ v.l2 \in Idx /\ v.l1 \in Idx
        /\ Open3(s, v) /\ Open2(s, v)
        /\ Root \in Tables(s) /\ lvl[Root] = 4
    BY PageFacts, WalkLevels DEF Open2, Open1
  <1>2. /\ T3(s, v) \in Tables(s) /\ lvl[T3(s, v)] = 3
        /\ T2(s, v) \in Tables(s) /\ lvl[T2(s, v)] = 2
        /\ T1(s, v) \in Tables(s) /\ lvl[T1(s, v)] = 1
    BY <1>1, WalkLevels
  <1>3. Elsewhere(s, n, T1(s, v), v.l1) /\ n.mem[T1(s, v)][v.l1] = Leaf(f)
    BY <1>1, <1>2, WriteElsewhere
  <1> HIDE DEF n
  <1>4. CASE w = v
    <2>1. /\ n.mem[Root][v.l4] = s.mem[Root][v.l4]
          /\ n.mem[T3(s, v)][v.l3] = s.mem[T3(s, v)][v.l3]
          /\ n.mem[T2(s, v)][v.l2] = s.mem[T2(s, v)][v.l2]
      BY <1>1, <1>2, <1>3 DEF Elsewhere
    <2>2. Open3(n, v) /\ T3(n, v) = T3(s, v)
      BY <1>1, <2>1 DEF Open3, T3
    <2>3. Open2(n, v) /\ T2(n, v) = T2(s, v)
      BY <1>1, <2>1, <2>2 DEF Open2, T2, Pointer
    <2>4. Open1(n, v) /\ T1(n, v) = T1(s, v)
      BY <2>1, <2>3 DEF Open1, T1, Pointer
    <2>5. Leaf(f).present /\ Leaf(f).addr = f
      BY DEF Leaf, Point, NullEntry
    <2>6. n.mem[T3(n, v)][v.l3].present /\ n.mem[T2(n, v)][v.l2].present
      BY <2>3, <2>4 DEF Open2, Open1, Pointer
    <2> QED
      BY <1>3, <1>4, <2>2, <2>3, <2>4, <2>5, <2>6, Walk DEF n
  <1>5. CASE w # v
    <2>1. ~Passes(s, w, T1(s, v), v.l1)
      <3>1. SUFFICES ASSUME Passes(s, w, T1(s, v), v.l1) PROVE FALSE
        OBVIOUS
      <3>2. Open1(s, w) /\ T1(s, w) = T1(s, v) /\ w.l1 = v.l1
        BY <1>1, <1>2, <3>1, WalkLevels DEF Passes
      <3>3. AS!SameBlock(w, v)
        BY <3>2, SameSlots
      <3> QED
        BY <1>5, <3>2, <3>3, SamePage DEF AS!SameBlock
    <2>2. Translate(n.mem, w) = Translate(s.mem, w)
      BY <1>1, <1>2, <1>3, <2>1, SameWalk
    <2> QED
      BY <1>5, <2>2 DEF n
  <1> QED
    BY <1>4, <1>5

LEMMA HugeWrite ==
    ASSUME NEW s, NEW lvl, Tree(s, lvl), NEW v \in VirtAddr, Open2(s, v),
           NEW f, NEW w \in VirtAddr
    PROVE  Translate(Write(s, T2(s, v), v.l2, HugeLeaf(f)).mem, w)
             = IF AS!SameBlock(w, v) THEN f + w.l1 ELSE Translate(s.mem, w)
  <1> DEFINE n == Write(s, T2(s, v), v.l2, HugeLeaf(f))
  <1>1. /\ v.l4 \in Idx /\ v.l3 \in Idx /\ v.l2 \in Idx
        /\ Open3(s, v)
        /\ Root \in Tables(s) /\ lvl[Root] = 4
    BY PageFacts, WalkLevels DEF Open2
  <1>2. /\ T3(s, v) \in Tables(s) /\ lvl[T3(s, v)] = 3
        /\ T2(s, v) \in Tables(s) /\ lvl[T2(s, v)] = 2
    BY <1>1, WalkLevels
  <1>3. Elsewhere(s, n, T2(s, v), v.l2) /\ n.mem[T2(s, v)][v.l2] = HugeLeaf(f)
    BY <1>1, <1>2, WriteElsewhere
  <1> HIDE DEF n
  <1>4. CASE AS!SameBlock(w, v)
    <2>1. /\ n.mem[Root][v.l4] = s.mem[Root][v.l4]
          /\ n.mem[T3(s, v)][v.l3] = s.mem[T3(s, v)][v.l3]
          /\ w.l4 = v.l4 /\ w.l3 = v.l3 /\ w.l2 = v.l2
      BY <1>1, <1>2, <1>3, <1>4 DEF Elsewhere, AS!SameBlock
    <2>2. Open3(n, w) /\ T3(n, w) = T3(s, v)
      BY <1>1, <2>1 DEF Open3, T3
    <2>3. Open2(n, w) /\ T2(n, w) = T2(s, v)
      BY <1>1, <2>1, <2>2 DEF Open2, T2, Pointer
    <2>4. HugeLeaf(f).present /\ HugeLeaf(f).huge /\ HugeLeaf(f).addr = f
      BY DEF HugeLeaf, Leaf, Point, NullEntry
    <2>5. ~Open1(n, w)
      BY <1>3, <2>1, <2>3, <2>4 DEF Open1, Pointer
    <2>6. n.mem[T3(n, w)][w.l3].present
      BY <2>3 DEF Open2, Pointer
    <2> QED
      BY <1>3, <1>4, <2>1, <2>2, <2>3, <2>4, <2>5, <2>6, Walk DEF n
  <1>5. CASE ~AS!SameBlock(w, v)
    <2>1. ~Passes(s, w, T2(s, v), v.l2)
      <3>1. SUFFICES ASSUME Passes(s, w, T2(s, v), v.l2) PROVE FALSE
        OBVIOUS
      <3>2. Open2(s, w) /\ T2(s, w) = T2(s, v) /\ w.l2 = v.l2
        BY <1>1, <1>2, <3>1, WalkLevels DEF Passes
      <3>3. v.l4 = w.l4 /\ v.l3 = w.l3
        BY <3>2, SameSlots
      <3> QED
        BY <1>5, <3>2, <3>3 DEF AS!SameBlock
    <2>2. Translate(n.mem, w) = Translate(s.mem, w)
      BY <1>1, <1>2, <1>3, <2>1, SameWalk
    <2> QED
      BY <1>5, <2>2 DEF n
  <1> QED
    BY <1>4, <1>5

-----------------------------------------------------------------------------
(* The tables of start.asm, and the map of physical memory on top of them. *)

\* Less than 512GB: one level 3 table holds the map of physical memory.
SmallMemory == \A n \in Gigs : n < Entries

LEMMA BootEntries ==
    ASSUME NEW junk \in Residue, NEW p \in 1 .. 4, NEW i \in Idx
    PROVE  BootState(junk).mem[p][i]
             = IF p = 4 THEN Leaf(i) ELSE IF i = 0 THEN Leaf(p + 1) ELSE NullEntry
  BY DEF BootState, BootTables, BootTable, TablePages

LEMMA BootTranslate ==
    ASSUME NEW junk \in Residue, NEW w \in VirtAddr
    PROVE  Translate(BootState(junk).mem, w)
             = IF AS!IdentityPage(w) THEN w.l1 ELSE Unmapped
  <1> DEFINE s == BootState(junk)
  <1>1. /\ w.l4 \in Idx /\ w.l3 \in Idx /\ w.l2 \in Idx /\ w.l1 \in Idx
    BY PageFacts
  <1>2. /\ s.mem[1][w.l4] = IF w.l4 = 0 THEN Leaf(2) ELSE NullEntry
        /\ s.mem[2][w.l3] = IF w.l3 = 0 THEN Leaf(3) ELSE NullEntry
        /\ s.mem[3][w.l2] = IF w.l2 = 0 THEN Leaf(4) ELSE NullEntry
        /\ s.mem[4][w.l1] = Leaf(w.l1)
    BY <1>1, BootEntries
  <1>3. /\ ~NullEntry.present
        /\ \A p : Leaf(p).present /\ ~Leaf(p).huge /\ Leaf(p).addr = p
    BY DEF NullEntry, Leaf, Point
  <1> HIDE DEF s
  <1>4. w.l4 = 0 => Open3(s, w) /\ T3(s, w) = 2
    BY <1>2, <1>3 DEF Open3, T3, Root
  <1>5. w.l4 # 0 => ~Open3(s, w)
    BY <1>2, <1>3 DEF Open3, Root
  <1>6. w.l4 = 0 /\ w.l3 = 0 => Open2(s, w) /\ T2(s, w) = 3
    BY <1>2, <1>3, <1>4 DEF Open2, T2, Pointer
  <1>7. w.l4 = 0 /\ w.l3 # 0 => ~s.mem[T3(s, w)][w.l3].present
    BY <1>2, <1>3, <1>4
  <1>8. w.l4 = 0 /\ w.l3 = 0 /\ w.l2 = 0 => Open1(s, w) /\ T1(s, w) = 4
    BY <1>2, <1>3, <1>6 DEF Open1, T1, Pointer
  <1>9. w.l4 = 0 /\ w.l3 = 0 /\ w.l2 # 0 => ~s.mem[T2(s, w)][w.l2].present
    BY <1>2, <1>3, <1>6
  <1>10. CASE AS!IdentityPage(w)
    <2>1. w.l4 = 0 /\ w.l3 = 0 /\ w.l2 = 0
      BY <1>10 DEF AS!IdentityPage
    <2>2. s.mem[T3(s, w)][w.l3].present /\ s.mem[T2(s, w)][w.l2].present
      BY <1>6, <1>8, <2>1 DEF Open2, Open1, Pointer
    <2> QED
      BY <1>2, <1>3, <1>4, <1>6, <1>8, <1>10, <2>1, <2>2, Walk DEF s
  <1>11. CASE ~AS!IdentityPage(w)
    <2>1. ~(w.l4 = 0 /\ w.l3 = 0 /\ w.l2 = 0)
      BY <1>11 DEF AS!IdentityPage
    <2>2. Translate(s.mem, w) = Unmapped
      BY <1>4, <1>5, <1>6, <1>7, <1>9, <2>1, Walk
    <2> QED
      BY <1>11, <2>2 DEF s
  <1> QED
    BY <1>10, <1>11

LEMMA SmallPhysTable ==
    ASSUME NEW n \in Nat, n < Entries
    PROVE  /\ PhysRoot(n) = PhysSlot
           /\ PhysTable(n) = [i \in Idx |-> IF i < n THEN HugeLeaf(Gig * i)
                                            ELSE NullEntry]
  <1>1. /\ Entries \in Nat \ {0} /\ PhysSlot \in 1 .. Entries - 1
        /\ Gig \in Nat
    BY SizesAssumption DEF Gig
  <1>2. \A k \in Nat : k < Entries => k \div Entries = 0 /\ k % Entries = k
    BY <1>1
  <1>3. PhysRoot(n) = PhysSlot
    BY <1>1, <1>2 DEF PhysRoot
  <1>4. ASSUME NEW i \in Idx, i < n
        PROVE  Gig * (i + Entries * ((n - 1 - i) \div Entries)) = Gig * i
    <2>1. i \in Nat /\ n - 1 - i \in Nat /\ n - 1 - i < Entries
      BY <1>1, <1>4 DEF Idx
    <2>2. (n - 1 - i) \div Entries = 0
      BY <1>2, <2>1
    <2> QED
      BY <1>1, <2>1, <2>2
  <1> QED
    BY <1>3, <1>4 DEF PhysTable

\* setup_physical_map moves the pages of its slot, and no other.
LEMMA PhysicalMapTranslate ==
    ASSUME NEW junk \in Residue, NEW n \in Nat, n < Entries, NEW w \in VirtAddr
    PROVE  Translate(PhysicalMap(BootState(junk), n).mem, w)
             = IF w.l4 = PhysSlot /\ w.l3 < n THEN AS!LinearPage(w)
               ELSE Translate(BootState(junk).mem, w)
  <1> DEFINE s == BootState(junk)
             T == PhysTable(n)
             x == WithTable(s, T)
             m == PhysicalMap(s, n)
  <1>1. /\ w.l4 \in Idx /\ w.l3 \in Idx /\ w.l2 \in Idx /\ w.l1 \in Idx
        /\ PhysSlot \in Idx /\ PhysSlot # 0 /\ s.it = FirstTable
    BY PageFacts, SizesAssumption DEF Idx, BootState
  <1>2. PICK L : Tree(s, L)
    BY BootTree
  <1>3. /\ s \in TablesType /\ s.mem \in [TablePages -> [Idx -> Entry]]
        /\ FirstTable \in TablePages /\ FirstTable \notin Tables(s)
        /\ Root \in Tables(s) /\ Tables(s) \subseteq TablePages
        /\ FirstTable # Root
    BY <1>1, <1>2, TablesInMemory, SizesAssumption
    DEF Tree, TablesType, Tables, TablePages, BootTables, Root
  <1>4. /\ \A u \in Tables(s) : x.mem[u] = s.mem[u]
        /\ x.mem[FirstTable] = T
    BY <1>1, <1>3 DEF WithTable
  <1>5. x \in TablesType
    <2>1. T \in [Idx -> Entry]
      BY PhysEntries, EntryTypes DEF PhysTable
    <2>2. [s.mem EXCEPT ![s.it] = T] \in [TablePages -> [Idx -> Entry]]
      BY <1>3, <2>1
    <2>3. s.it + 1 \in Nat
      BY <1>1, SizesAssumption
    <2> QED
      BY <2>2, <2>3 DEF WithTable, TablesType
  <1>6. m = Write(x, Root, PhysSlot, Leaf(FirstTable))
    <2>1. [NewPageTable(s).mem EXCEPT ![s.it] = T] = [s.mem EXCEPT ![s.it] = T]
      BY <1>3 DEF NewPageTable
    <2>2. PhysRoot(n) = PhysSlot
      BY SmallPhysTable
    <2> QED
      BY <1>1, <2>1, <2>2 DEF PhysicalMap, WithTable, Write
  <1>7. T = [i \in Idx |-> IF i < n THEN HugeLeaf(Gig * i) ELSE NullEntry]
    BY SmallPhysTable
  <1>8. s.mem[Root][PhysSlot] = NullEntry
    BY <1>1, BootEntries DEF Root
  <1>9. ~NullEntry.present
    BY DEF NullEntry
  <1> HIDE DEF s, T, x, m
  <1>10. /\ \A u \in TablePages, k \in Idx :
              u # Root \/ k # PhysSlot => m.mem[u][k] = x.mem[u][k]
         /\ m.mem[Root][PhysSlot] = Leaf(FirstTable)
    BY <1>1, <1>3, <1>5, <1>6, ReadAfterWrite
  <1>11. CASE w.l4 # PhysSlot
    <2>1. Elsewhere(s, m, Root, PhysSlot)
      BY <1>3, <1>4, <1>10 DEF Elsewhere
    <2>2. ~Passes(s, w, Root, PhysSlot)
      BY <1>2, <1>11, WalkLevels DEF Passes, Open2, Open1
    <2>3. Translate(m.mem, w) = Translate(s.mem, w)
      BY <1>1, <1>2, <1>3, <2>1, <2>2, SameWalk
    <2> QED
      BY <1>11, <2>3 DEF s, m
  <1>12. CASE w.l4 = PhysSlot
    <2>1. Open3(m, w) /\ T3(m, w) = FirstTable
      BY <1>10, <1>12 DEF Open3, T3, Leaf, Point, NullEntry
    <2>2. m.mem[FirstTable][w.l3] = T[w.l3]
      BY <1>1, <1>3, <1>4, <1>10
    <2>3. Translate(s.mem, w) = Unmapped
      BY <1>8, <1>9, <1>12, Walk DEF Open3
    <2>4. CASE w.l3 < n
      <3>1. T[w.l3] = HugeLeaf(Gig * w.l3)
        BY <1>1, <1>7, <2>4
      <3>2. /\ m.mem[FirstTable][w.l3].present /\ m.mem[FirstTable][w.l3].huge
            /\ m.mem[FirstTable][w.l3].addr = Gig * w.l3
        BY <2>2, <3>1 DEF HugeLeaf, Leaf, Point, NullEntry
      <3>3. Translate(m.mem, w) = Gig * w.l3 + w.l2 * Entries + w.l1
        BY <2>1, <3>2, Walk DEF Open2, Pointer
      <3>4. Gig * w.l3 = w.l3 * AS!Gig
        <4>1. Entries \in Nat /\ w.l3 \in Nat
          BY <1>1, SizesAssumption DEF Idx
        <4>2. Gig = AS!Gig /\ Gig \in Nat
          BY <4>1 DEF Gig, AS!Gig
        <4> QED
          BY <4>1, <4>2
      <3> QED
        BY <1>12, <2>4, <3>3, <3>4 DEF AS!LinearPage, s, m
    <2>5. CASE ~(w.l3 < n)
      <3>1. T[w.l3] = NullEntry
        BY <1>1, <1>7, <2>5
      <3>2. Translate(m.mem, w) = Unmapped
        BY <1>9, <2>1, <2>2, <3>1, Walk
      <3> QED
        BY <2>3, <2>5, <3>2 DEF s, m
    <2> QED
      BY <2>4, <2>5
  <1> QED
    BY <1>11, <1>12

-----------------------------------------------------------------------------
(* Every step of the tables is a step of the address space, or none.       *)

LEMMA Map4KBTranslate ==
    ASSUME NEW s, NEW lvl, Tree(s, lvl), s.it <= StackPage,
           NEW v \in VirtAddr, ~Huge1GB(s, v), ~Huge2MB(s, v),
           NEW f, NEW w \in VirtAddr
    PROVE  Translate(Map4KB(s, v, f).mem, w)
             = IF w = v THEN f ELSE Translate(s.mem, w)
  <1> PICK L : Ready1(s, v, WithP1(s, v), L)
    BY ReadyAtP1
  <1> QED
    BY MapsWrite, LeafWrite DEF Ready1

LEMMA Map2MBTranslate ==
    ASSUME NEW s, NEW lvl, Tree(s, lvl), s.it <= StackPage,
           NEW v \in VirtAddr, ~Huge1GB(s, v),
           NEW f, NEW w \in VirtAddr
    PROVE  Translate(Map2MB(s, v, f).mem, w)
             = IF AS!SameBlock(w, v) THEN f + w.l1 ELSE Translate(s.mem, w)
  <1> PICK L : Ready2(s, v, WithP2(s, v), L)
    BY ReadyAtP2
  <1> QED
    BY MapsWrite, HugeWrite DEF Ready2

\* The map of physical memory is the first thing put on top of the boot tables.
RefInv ==
    /\ TreeInv
    /\ status = "boot" => pt \in {BootState(junk) : junk \in Residue}

LEMMA RefInvInit == Init => RefInv /\ AS!Init
  <1> SUFFICES ASSUME Init PROVE RefInv /\ AS!Init
    OBVIOUS
  <1>1. RefInv
    BY TypeInvInit, BootTree DEF Init, TreeInv, RefInv
  <1> PICK junk \in Residue : pt = BootState(junk)
    BY DEF Init
  <1>2. \A v \in Watched :
          Translate(pt.mem, v) = IF AS!IdentityPage(v) THEN v.l1 ELSE Unmapped
    BY BootTranslate, CallsAssumption
  <1> QED
    BY <1>1, <1>2 DEF AS!Init, Mapping

LEMMA RefInvStep == RefInv /\ [Next]_vars => RefInv'
  <1> SUFFICES ASSUME RefInv, [Next]_vars PROVE RefInv'
    OBVIOUS
  <1>1. TreeInv'
    BY TreeInvStep DEF RefInv
  <1>2. status' = "boot" => status = "boot" /\ UNCHANGED vars
    BY DEF Next, SetupPhysicalMap, MapPage, MapBlock, MapUnderHuge, StatusAfter,
           vars
  <1> QED
    BY <1>1, <1>2 DEF RefInv, vars

LEMMA StepImplements ==
    ASSUME SmallMemory, RefInv, [Next]_vars
    PROVE  [AS!Next]_Mapping
  <1> PICK L : Tree(pt, L)
    BY DEF RefInv, TreeInv
  <1>1. status = "running" => pt.it <= StackPage
    BY DEF RefInv, TreeInv, TypeInv, TypeOK
  <1>2. ASSUME NEW n \in Gigs, SetupPhysicalMap(n) PROVE AS!MapPhysical(n)
    <2> PICK junk \in Residue : pt = BootState(junk)
      BY <1>2 DEF RefInv, SetupPhysicalMap
    <2>1. n \in Nat /\ n < Entries
      BY CallsAssumption DEF SmallMemory
    <2>2. \A u \in Watched :
            Translate(pt'.mem, u)
              = IF u.l4 = PhysSlot /\ u.l3 < n THEN AS!LinearPage(u)
                ELSE Translate(pt.mem, u)
      BY <1>2, <2>1, PhysicalMapTranslate, CallsAssumption DEF SetupPhysicalMap
    <2> QED
      BY <2>2 DEF AS!MapPhysical, Mapping
  <1>3. ASSUME NEW v \in PageCalls, NEW f \in Frames, MapPage(v, f)
        PROVE  AS!MapPage(v, f)
    <2>1. \A u \in Watched :
            Translate(pt'.mem, u) = IF u = v THEN f ELSE Translate(pt.mem, u)
      BY <1>1, <1>3, Map4KBTranslate, CallsAssumption DEF MapPage
    <2> QED
      BY <2>1 DEF AS!MapPage, Mapping
  <1>4. ASSUME NEW v \in BlockCalls, NEW f \in BlockFrames, MapBlock(v, f)
        PROVE  AS!MapBlock(v, f)
    <2>1. \A u \in Watched :
            Translate(pt'.mem, u)
              = IF AS!SameBlock(u, v) THEN f + u.l1 ELSE Translate(pt.mem, u)
      BY <1>1, <1>4, Map2MBTranslate, CallsAssumption DEF MapBlock
    <2> QED
      BY <2>1 DEF AS!MapBlock, Mapping
  <1>5. CASE UNCHANGED pt
    BY <1>5 DEF Mapping
  <1> QED
    BY <1>2, <1>3, <1>4, <1>5 DEF Next, AS!Next, MapUnderHuge, vars

(***************************************************************************)
(* paging.c implements an address space: whatever the number of entries,   *)
(* the place of the tables, the size of memory below 512GB and the calls   *)
(* made, setup_physical_map, map_4kb_page and map_2mb_page change the      *)
(* translation of the pages they are asked to map and of no other, until   *)
(* a table has been put over the stack.                                    *)
(***************************************************************************)
THEOREM RefinementCorrect ==
    ASSUME SmallMemory
    PROVE  Spec => Implements
  <1>1. RefInv /\ [Next]_vars => [AS!Next]_Mapping
    BY StepImplements
  <1> QED
    BY <1>1, RefInvInit, RefInvStep, PTL DEF Spec, Implements, AS!Spec

-----------------------------------------------------------------------------
(* What the code of paging.c relies on itself.                             *)

\* From 1GB to less than 512GB.
TestedSizes == Gigs \subseteq 1 .. Entries - 1

LowPage(p) == [l4 |-> 0, l3 |-> 0, l2 |-> 0, l1 |-> p]

LEMMA LowPages ==
    ASSUME NEW p \in Idx
    PROVE  LowPage(p) \in VirtAddr /\ AS!IdentityPage(LowPage(p))
  BY SizesAssumption DEF LowPage, VirtAddr, Idx, AS!IdentityPage

LEMMA SelfTestHolds ==
    ASSUME NEW junk \in Residue, NEW n \in 1 .. Entries - 1
    PROVE  SelfTest(PhysicalMap(BootState(junk), n).mem)
  <1> DEFINE m == PhysicalMap(BootState(junk), n).mem
             high(p) == [l4 |-> PhysSlot, l3 |-> 0, l2 |-> 0, l1 |-> p]
  <1>1. n \in Nat /\ 0 < n /\ n < Entries
    BY SizesAssumption
  <1>2. \A w \in VirtAddr :
          Translate(m, w)
            = IF w.l4 = PhysSlot /\ w.l3 < n THEN AS!LinearPage(w)
              ELSE IF AS!IdentityPage(w) THEN w.l1 ELSE Unmapped
    BY <1>1, PhysicalMapTranslate, BootTranslate
  <1> HIDE DEF m
  <1> SUFFICES ASSUME NEW p \in 0 .. TestPages - 1
               PROVE  /\ Translate(m, high(p)) # Unmapped
                      /\ Translate(m, high(p)) = Translate(m, LowPage(p))
    BY DEF SelfTest, LowPage, m
  <1>3. /\ p \in Idx /\ p \in Nat /\ 0 \in Idx /\ PhysSlot \in Idx
        /\ PhysSlot # 0
    BY SizesAssumption DEF Idx
  <1>4. high(p) \in VirtAddr /\ AS!LinearPage(high(p)) = p
    <2>1. AS!Gig \in Nat /\ Entries \in Nat
      BY SizesAssumption DEF AS!Gig
    <2>2. 0 * AS!Gig + 0 * Entries + p = p
      BY <1>3, <2>1
    <2> QED
      BY <1>3, <2>2 DEF VirtAddr, AS!LinearPage
  <1>5. Translate(m, high(p)) = p
    BY <1>1, <1>2, <1>4
  <1>6. Translate(m, LowPage(p)) = p
    <2>1. LowPage(p).l4 = 0 /\ LowPage(p).l1 = p
      BY DEF LowPage
    <2> QED
      BY <1>2, <1>3, <2>1, LowPages
  <1> QED
    BY <1>3, <1>5, <1>6, CallsAssumption

(***************************************************************************)
(* The self test of setup_physical_map, which compares the first megabyte  *)
(* through both maps, never stops the machine: whatever the number of      *)
(* entries and for every size of memory from 1GB to less than 512GB.       *)
(***************************************************************************)
THEOREM SelfTestAlwaysPasses ==
    ASSUME TestedSizes
    PROVE  Spec => []SelfTestPasses
  <1> DEFINE Inv == RefInv /\ SelfTestPasses
  <1>1. Init => Inv
    BY RefInvInit DEF Init, SelfTestPasses
  <1>2. Inv /\ [Next]_vars => Inv'
    <2> SUFFICES ASSUME Inv, [Next]_vars PROVE Inv'
      OBVIOUS
    <2>1. RefInv'
      BY RefInvStep
    <2>2. ASSUME NEW n \in Gigs, SetupPhysicalMap(n) PROVE SelfTestPasses'
      <3> PICK junk \in Residue : pt = BootState(junk)
        BY <2>2 DEF RefInv, SetupPhysicalMap
      <3>1. SelfTest(pt'.mem)
        BY <2>2, SelfTestHolds DEF SetupPhysicalMap, TestedSizes
      <3> QED
        BY <2>2, <3>1 DEF SetupPhysicalMap, SelfTestPasses
    <2> QED
      BY <2>1, <2>2
      DEF Next, MapPage, MapBlock, MapUnderHuge, StatusAfter, SelfTestPasses, vars
  <1> QED
    BY <1>1, <1>2, PTL DEF Spec

\* The callers leave the identity map alone, and the tables lie within it.
LowMemoryLeft ==
    /\ StackPage + 3 <= Entries
    /\ \A v \in PageCalls \cup BlockCalls : ~AS!IdentityPage(v)

IdentityKept == \A p \in Idx : Translate(pt.mem, LowPage(p)) = p

LEMMA IdentityKeptStep ==
    ASSUME SmallMemory, LowMemoryLeft, RefInv, IdentityKept, [Next]_vars
    PROVE  IdentityKept'
  <1> PICK L : Tree(pt, L)
    BY DEF RefInv, TreeInv
  <1>1. status = "running" => pt.it <= StackPage
    BY DEF RefInv, TreeInv, TypeInv, TypeOK
  <1>2. ASSUME NEW p \in Idx
        PROVE  /\ LowPage(p) \in VirtAddr /\ AS!IdentityPage(LowPage(p))
               /\ LowPage(p).l4 # PhysSlot
    BY LowPages, SizesAssumption DEF LowPage
  <1>3. ASSUME NEW n \in Gigs, SetupPhysicalMap(n) PROVE IdentityKept'
    <2> PICK junk \in Residue : pt = BootState(junk)
      BY <1>3 DEF RefInv, SetupPhysicalMap
    <2>1. n \in Nat /\ n < Entries
      BY CallsAssumption DEF SmallMemory
    <2> QED
      BY <1>2, <1>3, <2>1, PhysicalMapTranslate DEF SetupPhysicalMap, IdentityKept
  <1>4. ASSUME NEW v \in PageCalls, NEW f \in Frames, MapPage(v, f)
        PROVE  IdentityKept'
    <2>1. v \in VirtAddr /\ ~AS!IdentityPage(v)
      BY CallsAssumption DEF LowMemoryLeft
    <2>2. \A w \in VirtAddr : w # v => Translate(pt'.mem, w) = Translate(pt.mem, w)
      BY <1>1, <1>4, <2>1, Map4KBTranslate DEF MapPage
    <2> QED
      BY <1>2, <2>1, <2>2 DEF IdentityKept
  <1>5. ASSUME NEW v \in BlockCalls, NEW f \in BlockFrames, MapBlock(v, f)
        PROVE  IdentityKept'
    <2>1. v \in VirtAddr /\ ~AS!IdentityPage(v)
      BY CallsAssumption DEF LowMemoryLeft
    <2>2. \A w \in VirtAddr :
            ~AS!SameBlock(w, v) => Translate(pt'.mem, w) = Translate(pt.mem, w)
      BY <1>1, <1>5, <2>1, Map2MBTranslate DEF MapBlock
    <2>3. \A p \in Idx : ~AS!SameBlock(LowPage(p), v)
      BY <1>2, <2>1 DEF AS!SameBlock, AS!IdentityPage
    <2> QED
      BY <1>2, <2>2, <2>3 DEF IdentityKept
  <1>6. CASE UNCHANGED pt
    BY <1>6 DEF IdentityKept
  <1> QED
    BY <1>3, <1>4, <1>5, <1>6 DEF Next, MapUnderHuge, vars

(***************************************************************************)
(* paging.c can reach every table at its physical address, as its casts of *)
(* physical addresses to pointers assume: no call that leaves the first    *)
(* 2MB alone disturbs the identity map the tables lie in.                  *)
(***************************************************************************)
THEOREM TablesStayAddressable ==
    ASSUME SmallMemory, LowMemoryLeft
    PROVE  Spec => []TablesAddressable
  <1> DEFINE Inv == RefInv /\ IdentityKept
  <1>1. Init => Inv
    <2> SUFFICES ASSUME Init PROVE IdentityKept
      BY RefInvInit
    <2> PICK junk \in Residue : pt = BootState(junk)
      BY DEF Init
    <2> QED
      BY BootTranslate, LowPages DEF IdentityKept, LowPage
  <1>2. Inv /\ [Next]_vars => Inv'
    BY RefInvStep, IdentityKeptStep
  <1>3. Inv => TablesAddressable
    <2> SUFFICES ASSUME Inv, NEW p \in Allocated
                 PROVE  Translate(pt.mem, LowPage(p)) = p
      BY DEF TablesAddressable, LowPage
    <2>1. p \in Idx
      BY SizesAssumption
      DEF LowMemoryLeft, RefInv, TreeInv, TypeInv, TypeOK, Allocated, BootTables, Idx
    <2> QED
      BY <2>1 DEF IdentityKept
  <1> QED
    BY <1>1, <1>2, <1>3, PTL DEF Spec

-----------------------------------------------------------------------------
(* What the allocator loses.                                               *)

HasParent(s, lvl, x) ==
    \E t \in Tables(s), i \in Idx :
        lvl[t] > 1 /\ Pointer(s, t, i) /\ s.mem[t][i].addr = x

Orphans(s, lvl) == {x \in Tables(s) : x # Root /\ ~HasParent(s, lvl, x)}

Blocks(s, lvl) ==
    {y \in Tables(s) \X Idx :
        lvl[y[1]] = 2 /\ s.mem[y[1]][y[2]].present /\ s.mem[y[1]][y[2]].huge}

\* Only tables of level 1 are lost, and g names for each of them the 2MB
\* mapping that took its place.
Replaced(s, lvl, g) ==
    /\ Tree(s, lvl)
    /\ g \in [Nat -> Nat \X Idx]
    /\ \A x \in Orphans(s, lvl) : lvl[x] = 1 /\ g[x] \in Blocks(s, lvl)
    /\ \A x, y \in Orphans(s, lvl) : g[x] = g[y] => x = y

\* Tables that keep their parents and blocks lose nothing.
LEMMA ReplacedBy ==
    ASSUME NEW s, NEW lvl, NEW g, Replaced(s, lvl, g), NEW d, NEW L, Tree(d, L),
           Orphans(d, L) \subseteq Orphans(s, lvl),
           \A x \in Orphans(d, L) : L[x] = lvl[x],
           Blocks(s, lvl) \subseteq Blocks(d, L)
    PROVE  Replaced(d, L, g)
  BY DEF Replaced

\* A level of a walk takes a table only to link it.
LEMMA DescendKeeps ==
    ASSUME NEW s, NEW lvl, NEW g, Replaced(s, lvl, g), s.it < StackPage + 3,
           NEW t \in Tables(s), lvl[t] > 1, NEW i \in Idx,
           s.mem[t][i].present => ~s.mem[t][i].huge
    PROVE  LET d == Descend(s, t, i)
           IN  /\ d.it \in s.it .. s.it + 1
               /\ \E L : /\ Replaced(d, L, g)
                         /\ Child(d, t, i) \in Tables(d)
                         /\ L[Child(d, t, i)] = lvl[t] - 1
  <1> DEFINE d == Descend(s, t, i)
  <1>1. Tree(s, lvl) /\ lvl[t] \in 1 .. 4
    BY TablesInMemory DEF Replaced, Tree
  <1>2. d.it \in s.it .. s.it + 1 /\ \E L : Descended(s, lvl, t, i, d, L)
    BY <1>1, DescendTree
  <1> PICK L : Descended(s, lvl, t, i, d, L)
    BY <1>2
  <1>3. CASE s.mem[t][i].present
    <2>1. d = s
      BY <1>3 DEF Descend
    <2>2. Pointer(s, t, i)
      BY <1>3 DEF Pointer
    <2>3. Child(s, t, i) \in Tables(s) /\ lvl[Child(s, t, i)] = lvl[t] - 1
      BY <1>1, <2>2 DEF Tree, PointDown, Child
    <2> QED
      BY <1>2, <2>1, <2>3
  <1>4. CASE ~s.mem[t][i].present
    <2> DEFINE c == Child(d, t, i)
    <2>1. /\ Tree(d, L) /\ Pointer(d, t, i) /\ c \in Tables(d) /\ L[c] = lvl[t] - 1
          /\ \A u \in Tables(s) : u \in Tables(d) /\ L[u] = lvl[u]
          /\ \A u \in Tables(s), k \in Idx :
               u # t \/ k # i => d.mem[u][k] = s.mem[u][k]
      BY DEF Descended
    <2>2. Tables(d) \subseteq Tables(s) \cup {c}
      <3>1. /\ s.it \in Nat /\ t \in TablePages
            /\ s.mem \in [TablePages -> [Idx -> Entry]]
        BY <1>1, TablesInMemory DEF Tree, TablesType
      <3>2. t # s.it /\ NewPageTable(s) \in TablesType /\ NewPageTable(s).it = s.it + 1
        BY <1>1, <3>1, NewPageTableType, SizesAssumption
        DEF Tree, Tables, BootTables
      <3>3. Point(s.mem[t][i], s.it).addr = s.it
        BY <3>1 DEF Point, Entry
      <3>4. d = Write(NewPageTable(s), t, i, Point(s.mem[t][i], s.it))
        BY <1>4 DEF Descend, Write
      <3>5. d.it = s.it + 1 /\ d.mem[t][i] = Point(s.mem[t][i], s.it)
        <4>1. Point(s.mem[t][i], s.it) \in Entry
          BY <3>1, EntryTypes
        <4> QED
          BY <3>1, <3>2, <3>4, <4>1, WriteType, ReadAfterWrite
      <3>6. c = s.it
        BY <3>3, <3>5 DEF Child
      <3> HIDE DEF d, c
      <3>7. FirstTable .. d.it - 1 \subseteq (FirstTable .. s.it - 1) \cup {s.it}
        BY <3>1, <3>5, SizesAssumption
      <3> QED
        BY <3>6, <3>7 DEF Tables
    <2>3. HasParent(d, L, c)
      BY <1>1, <2>1 DEF HasParent, Child
    <2>4. \A x : HasParent(s, lvl, x) => HasParent(d, L, x)
      <3> SUFFICES ASSUME NEW x, NEW u \in Tables(s), NEW k \in Idx,
                          lvl[u] > 1, Pointer(s, u, k), s.mem[u][k].addr = x
                   PROVE  HasParent(d, L, x)
        BY DEF HasParent
      <3>1. u # t \/ k # i
        BY <1>4 DEF Pointer
      <3> QED
        BY <2>1, <3>1 DEF HasParent, Pointer
    <2> HIDE DEF c, d
    <2>5. Orphans(d, L) \subseteq Orphans(s, lvl)
      BY <2>2, <2>3, <2>4 DEF Orphans
    <2>6. \A x \in Orphans(d, L) : L[x] = lvl[x]
      BY <2>1, <2>5 DEF Orphans
    <2>7. Blocks(s, lvl) \subseteq Blocks(d, L)
      <3> SUFFICES ASSUME NEW u \in Tables(s), NEW k \in Idx, lvl[u] = 2,
                          s.mem[u][k].present, s.mem[u][k].huge
                   PROVE  /\ u \in Tables(d) /\ L[u] = 2
                          /\ d.mem[u][k].present /\ d.mem[u][k].huge
        BY DEF Blocks
      <3> QED
        BY <1>4, <2>1
    <2>8. Replaced(d, L, g)
      BY <2>1, <2>5, <2>6, <2>7, ReplacedBy
    <2> QED
      BY <1>2, <2>1, <2>8 DEF c, d
  <1> QED
    BY <1>3, <1>4

LEMMA WalkKeepsP2 ==
    ASSUME NEW s, NEW lvl, NEW g, Replaced(s, lvl, g), s.it <= StackPage,
           NEW v \in VirtAddr, ~Huge1GB(s, v)
    PROVE  /\ WithP2(s, v).it \in s.it .. s.it + 2
           /\ \E L : /\ Replaced(WithP2(s, v), L, g)
                     /\ P2(s, v) \in Tables(WithP2(s, v))
                     /\ L[P2(s, v)] = 2
  <1>1. /\ s.it \in Nat /\ StackPage \in Nat
        /\ Root \in Tables(s) /\ lvl[Root] = 4
        /\ v.l4 \in Idx /\ v.l3 \in Idx
    BY TablesInMemory, SizesAssumption DEF Replaced, Tree, TablesType, VirtAddr
  <1>2. ~s.mem[Root][v.l4].huge
    BY <1>1 DEF Replaced, Tree, CleanEntries
  <1>3. /\ WithP3(s, v).it \in s.it .. s.it + 1
        /\ \E L : /\ Replaced(WithP3(s, v), L, g)
                  /\ P3(s, v) \in Tables(WithP3(s, v))
                  /\ L[P3(s, v)] = 3
    BY <1>1, <1>2, DescendKeeps DEF WithP3, P3
  <1> PICK L3 : /\ Replaced(WithP3(s, v), L3, g)
                /\ P3(s, v) \in Tables(WithP3(s, v))
                /\ L3[P3(s, v)] = 3
    BY <1>3
  <1>4. LET e == WithP3(s, v).mem[P3(s, v)][v.l3] IN e.present => ~e.huge
    BY DEF Huge1GB
  <1>5. WithP3(s, v).it < StackPage + 3
    BY <1>1, <1>3
  <1>6. /\ WithP2(s, v).it \in WithP3(s, v).it .. WithP3(s, v).it + 1
        /\ \E L : /\ Replaced(WithP2(s, v), L, g)
                  /\ P2(s, v) \in Tables(WithP2(s, v))
                  /\ L[P2(s, v)] = 2
    BY <1>1, <1>4, <1>5, DescendKeeps DEF WithP2, P2
  <1> QED
    BY <1>1, <1>3, <1>6

\* map_4kb_page loses nothing: it stores no pointer over another.
LEMMA Map4KBKeeps ==
    ASSUME NEW s, NEW lvl, NEW g, Replaced(s, lvl, g), s.it <= StackPage,
           NEW f \in Nat, NEW v \in VirtAddr, ~Huge1GB(s, v), ~Huge2MB(s, v)
    PROVE  \E L : Replaced(Map4KB(s, v, f), L, g)
  <1> DEFINE a == WithP1(s, v)
             p == P1(s, v)
             w == Write(a, p, v.l1, Leaf(f))
  <1>1. s.it \in Nat /\ StackPage \in Nat /\ v.l2 \in Idx /\ v.l1 \in Idx
    BY SizesAssumption DEF Replaced, Tree, TablesType, VirtAddr
  <1>2. /\ WithP2(s, v).it \in s.it .. s.it + 2
        /\ \E L : /\ Replaced(WithP2(s, v), L, g)
                  /\ P2(s, v) \in Tables(WithP2(s, v))
                  /\ L[P2(s, v)] = 2
    BY WalkKeepsP2
  <1> PICK L2 : /\ Replaced(WithP2(s, v), L2, g)
                /\ P2(s, v) \in Tables(WithP2(s, v))
                /\ L2[P2(s, v)] = 2
    BY <1>2
  <1>3. LET e == WithP2(s, v).mem[P2(s, v)][v.l2] IN e.present => ~e.huge
    BY DEF Huge2MB
  <1>4. WithP2(s, v).it < StackPage + 3
    BY <1>1, <1>2
  <1>5. \E L : Replaced(a, L, g) /\ p \in Tables(a) /\ L[p] = 1
    BY <1>1, <1>3, <1>4, DescendKeeps DEF WithP1, P1
  <1> HIDE DEF a, p
  <1> PICK L : Replaced(a, L, g) /\ p \in Tables(a) /\ L[p] = 1
    BY <1>5
  <1>6. Tree(a, L) /\ Tree(w, L)
    BY <1>1, LeafEntries, WriteTree DEF Replaced
  <1>7. /\ Tables(w) = Tables(a)
        /\ \A u \in Tables(a), k \in Idx : L[u] > 1 => w.mem[u][k] = a.mem[u][k]
    <2>1. a \in TablesType /\ Tables(a) \subseteq TablePages
      BY <1>6, TablesInMemory DEF Tree
    <2>2. w.it = a.it
      BY <2>1, LeafEntries, WriteType
    <2> QED
      BY <2>1, <2>2, ReadAfterWrite DEF Tables
  <1> HIDE DEF w
  <1>8. \A x : HasParent(a, L, x) => HasParent(w, L, x)
    BY <1>7 DEF HasParent, Pointer
  <1>9. Orphans(w, L) \subseteq Orphans(a, L)
    BY <1>7, <1>8 DEF Orphans
  <1>10. Blocks(a, L) \subseteq Blocks(w, L)
    BY <1>7 DEF Blocks
  <1>11. Replaced(w, L, g)
    BY <1>6, <1>9, <1>10, ReplacedBy
  <1> QED
    BY <1>11, MapsWrite DEF a, p, w

\* map_2mb_page loses the table that its slot pointed to, if any.
LEMMA Map2MBKeeps ==
    ASSUME NEW s, NEW lvl, NEW g, Replaced(s, lvl, g), s.it <= StackPage,
           NEW f \in Nat, NEW v \in VirtAddr, ~Huge1GB(s, v)
    PROVE  \E L, h : Replaced(Map2MB(s, v, f), L, h)
  <1> DEFINE a == WithP2(s, v)
             p == P2(s, v)
             i == v.l2
             x == a.mem[p][i].addr
             w == Write(a, p, i, HugeLeaf(f))
  <1>1. i \in Idx
    BY DEF VirtAddr
  <1>2. \E L : Replaced(a, L, g) /\ p \in Tables(a) /\ L[p] = 2
    BY WalkKeepsP2
  <1> HIDE DEF a, p, i
  <1> PICK L : Replaced(a, L, g) /\ p \in Tables(a) /\ L[p] = 2
    BY <1>2
  <1>3. Tree(a, L) /\ Tree(w, L)
    <2>1. Tree(a, L)
      BY DEF Replaced
    <2>2. /\ HugeLeaf(f) \in Entry /\ HugeLeaf(f).present /\ HugeLeaf(f).huge
          /\ p \in Tables(a) /\ L[p] = 2
      BY LeafEntries
    <2> QED
      BY <1>1, <2>1, <2>2, WriteTree
  <1>4. /\ Tables(w) = Tables(a) /\ Tables(a) \subseteq Nat
        /\ \A u \in Tables(a), k \in Idx :
             w.mem[u][k] = IF u = p /\ k = i THEN HugeLeaf(f) ELSE a.mem[u][k]
    <2>1. a \in TablesType /\ Tables(a) \subseteq TablePages /\ Tables(a) \subseteq Nat
      BY <1>3, TablesInMemory DEF Tree
    <2>2. w.it = a.it
      BY <2>1, LeafEntries, WriteType
    <2> QED
      BY <2>1, <2>2, ReadAfterWrite DEF Tables
  <1> HIDE DEF w
  <1>5. <<p, i>> \in Blocks(w, L)
    BY <1>1, <1>4, LeafEntries DEF Blocks
  <1>6. Blocks(a, L) \subseteq Blocks(w, L)
    <2> SUFFICES ASSUME NEW u \in Tables(a), NEW k \in Idx, L[u] = 2,
                        a.mem[u][k].present, a.mem[u][k].huge
                 PROVE  w.mem[u][k].present /\ w.mem[u][k].huge
      BY <1>4 DEF Blocks
    <2> QED
      BY <1>4, LeafEntries
  <1>7. \A y : HasParent(a, L, y) =>
                 HasParent(w, L, y) \/ (Pointer(a, p, i) /\ y = x)
    <2> SUFFICES ASSUME NEW y, NEW u \in Tables(a), NEW k \in Idx,
                        L[u] > 1, Pointer(a, u, k), a.mem[u][k].addr = y
                 PROVE  HasParent(w, L, y) \/ (Pointer(a, p, i) /\ y = x)
      BY DEF HasParent
    <2> QED
      BY <1>4 DEF HasParent, Pointer
  <1>8. CASE ~Pointer(a, p, i)
    <2>1. Orphans(w, L) \subseteq Orphans(a, L)
      BY <1>4, <1>7, <1>8 DEF Orphans
    <2>2. Replaced(w, L, g)
      BY <1>3, <1>6, <2>1, ReplacedBy
    <2> QED
      BY <2>2, MapsWrite DEF a, p, i, w
  <1>9. CASE Pointer(a, p, i)
    <2> DEFINE h == [g EXCEPT ![x] = <<p, i>>]
    <2>1. x \in Tables(a) /\ L[x] = 1 /\ x \in Nat /\ HasParent(a, L, x)
      <3>1. x \in Tables(a) /\ L[x] = L[p] - 1
        BY <1>1, <1>3, <1>9 DEF Tree, PointDown
      <3> QED
        BY <1>1, <1>4, <1>9, <3>1 DEF HasParent
    <2>2. h \in [Nat -> Nat \X Idx] /\ h[x] = <<p, i>>
          /\ \A y \in Tables(a) : y # x => h[y] = g[y]
      BY <1>1, <1>4, <2>1 DEF Replaced
    <2>3. Orphans(w, L) \subseteq Orphans(a, L) \cup {x}
      BY <1>4, <1>7 DEF Orphans
    <2>4. x \notin Orphans(a, L) /\ Orphans(a, L) \subseteq Tables(a)
      BY <2>1 DEF Orphans
    <2>5. <<p, i>> \notin Blocks(a, L)
      BY <1>9 DEF Blocks, Pointer
    <2> HIDE DEF h, x
    <2>6. \A y \in Orphans(w, L) : L[y] = 1 /\ h[y] \in Blocks(w, L)
      BY <1>5, <1>6, <2>1, <2>2, <2>3, <2>4 DEF Replaced
    <2>7. \A y, z \in Orphans(w, L) : h[y] = h[z] => y = z
      <3>1. \A y \in Orphans(a, L) : g[y] \in Blocks(a, L)
        BY DEF Replaced
      <3>2. \A y \in Orphans(a, L) : h[y] = g[y] /\ g[y] # <<p, i>>
        BY <2>2, <2>4, <2>5, <3>1
      <3>3. \A y, z \in Orphans(a, L) : g[y] = g[z] => y = z
        BY DEF Replaced
      <3> QED
        BY <2>2, <2>3, <3>2, <3>3
    <2>8. Replaced(w, L, h)
      BY <1>3, <2>2, <2>6, <2>7 DEF Replaced
    <2> QED
      BY <2>8, MapsWrite DEF a, p, i, w
  <1> QED
    BY <1>8, <1>9

\* While nothing has been replaced, all tables are reached.
LEMMA AllReached ==
    ASSUME NEW s, NEW lvl, Tree(s, lvl),
           \A p \in {1, 2, 3} : s.mem[p][0] = Leaf(p + 1),
           \A x \in Tables(s) : x \in 1 .. 4 \/ \E i \in Idx : s.mem[1][i] = Leaf(x)
    PROVE  \E g : Replaced(s, lvl, g)
  <1>1. /\ 0 \in Idx /\ {1, 2, 3} \subseteq Tables(s) /\ lvl[1] = 4
        /\ Tables(s) \subseteq Nat
    BY TablesInMemory, SizesAssumption DEF Tree, Tables, BootTables, Idx, Root
  <1>2. \A f \in Nat : Leaf(f).present /\ ~Leaf(f).huge /\ Leaf(f).addr = f
    BY LeafEntries
  <1>3. \A p \in {1, 2, 3} : Pointer(s, p, 0) /\ s.mem[p][0].addr = p + 1
    BY <1>2 DEF Pointer
  <1>4. lvl[2] = 3
    <2>1. lvl[2] = lvl[1] - 1
      BY <1>1, <1>3 DEF Tree, PointDown
    <2> QED
      BY <1>1, <2>1
  <1>5. lvl[3] = 2
    <2>1. lvl[3] = lvl[2] - 1
      BY <1>1, <1>3, <1>4 DEF Tree, PointDown
    <2> QED
      BY <1>4, <2>1
  <1>6. \A x \in {2, 3, 4} : HasParent(s, lvl, x)
    <2>1. HasParent(s, lvl, 2) /\ HasParent(s, lvl, 3) /\ HasParent(s, lvl, 4)
      BY <1>1, <1>3, <1>4, <1>5 DEF HasParent
    <2> QED
      BY <2>1
  <1>7. \A x \in Tables(s) : (\E i \in Idx : s.mem[1][i] = Leaf(x)) => HasParent(s, lvl, x)
    BY <1>1, <1>2 DEF HasParent, Pointer
  <1>8. Orphans(s, lvl) = {}
    BY <1>1, <1>6, <1>7 DEF Orphans, Root
  <1>9. [x \in Nat |-> <<0, 0>>] \in [Nat -> Nat \X Idx]
    BY <1>1
  <1> QED
    BY <1>8, <1>9 DEF Replaced

LEMMA BootReached ==
    ASSUME NEW junk \in Residue
    PROVE  \E lvl, g : Replaced(BootState(junk), lvl, g)
  <1> DEFINE s == BootState(junk)
  <1> PICK lvl : Tree(s, lvl)
    BY BootTree
  <1>1. \A x \in Tables(s) : x \in 1 .. 4
    BY SizesAssumption DEF Tables, BootTables, BootState
  <1>2. \A p \in {1, 2, 3} : s.mem[p][0] = Leaf(p + 1)
    BY BootEntries, SizesAssumption DEF Idx
  <1> QED
    BY <1>1, <1>2, AllReached

LEMMA PhysicalMapReached ==
    ASSUME NEW junk \in Residue, NEW n \in Nat, n < Entries
    PROVE  \E lvl, g : Replaced(PhysicalMap(BootState(junk), n), lvl, g)
  <1> DEFINE s == BootState(junk)
             d == PhysicalMap(s, n)
             x == WithTable(s, PhysTable(n))
  <1>1. /\ PhysSlot \in Idx /\ 0 \in Idx /\ PhysSlot # 0 /\ s.it = FirstTable
    BY SizesAssumption DEF Idx, BootState
  <1>2. PICK L : Tree(s, L)
    BY BootTree
  <1>3. /\ s \in TablesType /\ s.mem \in [TablePages -> [Idx -> Entry]]
        /\ FirstTable \in TablePages /\ {1, 2, 3} \subseteq TablePages
        /\ FirstTable \notin {1, 2, 3} /\ s.it < StackPage + 3
    BY <1>1, <1>2, SizesAssumption DEF Tree, TablesType, TablePages, BootTables
  <1>4. PICK lvl : Tree(d, lvl)
    BY <1>2, <1>3, PhysicalMapTree
  <1>5. d = Write(x, Root, PhysSlot, Leaf(FirstTable)) /\ d.it = FirstTable + 1
    <2>1. [NewPageTable(s).mem EXCEPT ![s.it] = PhysTable(n)]
            = [s.mem EXCEPT ![s.it] = PhysTable(n)]
      BY <1>1, <1>3 DEF NewPageTable
    <2> QED
      BY <1>1, <2>1, SmallPhysTable DEF PhysicalMap, WithTable, Write
  <1>6. \A p \in {1, 2, 3} : x.mem[p] = s.mem[p]
    BY <1>1, <1>3 DEF WithTable
  <1>7. x \in TablesType
    <2>1. PhysTable(n) \in [Idx -> Entry]
      BY PhysEntries, EntryTypes DEF PhysTable
    <2> HIDE DEF s
    <2>2. [s.mem EXCEPT ![s.it] = PhysTable(n)] \in [TablePages -> [Idx -> Entry]]
      BY <1>3, <2>1
    <2>3. s.it + 1 \in Nat
      BY <1>3 DEF TablesType
    <2> QED
      BY <2>2, <2>3 DEF WithTable, TablesType
  <1> HIDE DEF d, x
  <1>8. \A p \in {1, 2, 3} : d.mem[p][0] = s.mem[p][0]
    BY <1>1, <1>3, <1>5, <1>6, <1>7, ReadAfterWrite
  <1>9. d.mem[1][PhysSlot] = Leaf(FirstTable)
    BY <1>1, <1>3, <1>5, <1>7, ReadAfterWrite DEF Root
  <1>10. \A p \in {1, 2, 3} : d.mem[p][0] = Leaf(p + 1)
    BY <1>1, <1>8, BootEntries
  <1>11. \A t \in Tables(d) : t \in 1 .. 4 \/ t = FirstTable
    BY <1>5, SizesAssumption DEF Tables, BootTables
  <1>12. \A t \in Tables(d) : t \in 1 .. 4 \/ \E i \in Idx : d.mem[1][i] = Leaf(t)
    BY <1>1, <1>9, <1>11
  <1>13. \E g : Replaced(d, lvl, g)
    BY <1>4, <1>10, <1>12, AllReached
  <1> QED
    BY <1>13 DEF d

LeakInv == RefInv /\ \E lvl, g : Replaced(pt, lvl, g)

LEMMA LeakInvStep ==
    ASSUME SmallMemory, LeakInv, [Next]_vars
    PROVE  LeakInv'
  <1> PICK lvl, g : Replaced(pt, lvl, g)
    BY DEF LeakInv
  <1>1. RefInv /\ RefInv'
    BY RefInvStep DEF LeakInv
  <1>2. status = "running" => pt.it <= StackPage
    BY <1>1 DEF RefInv, TreeInv, TypeInv, TypeOK
  <1>3. ASSUME NEW n \in Gigs, SetupPhysicalMap(n)
        PROVE  \E L, h : Replaced(pt', L, h)
    <2> PICK junk \in Residue : pt = BootState(junk)
      BY <1>1, <1>3 DEF RefInv, SetupPhysicalMap
    <2>1. n \in Nat /\ n < Entries
      BY CallsAssumption DEF SmallMemory
    <2> QED
      BY <1>3, <2>1, PhysicalMapReached DEF SetupPhysicalMap
  <1>4. ASSUME NEW v \in PageCalls, NEW f \in Frames, MapPage(v, f)
        PROVE  \E L, h : Replaced(pt', L, h)
    BY <1>2, <1>4, Map4KBKeeps, CallsAssumption DEF MapPage
  <1>5. ASSUME NEW v \in BlockCalls, NEW f \in BlockFrames, MapBlock(v, f)
        PROVE  \E L, h : Replaced(pt', L, h)
    BY <1>2, <1>5, Map2MBKeeps, CallsAssumption DEF MapBlock
  <1>6. ASSUME UNCHANGED pt PROVE \E L, h : Replaced(pt', L, h)
    BY <1>6
  <1>7. \E L, h : Replaced(pt', L, h)
    BY <1>3, <1>4, <1>5, <1>6 DEF Next, MapUnderHuge, vars
  <1> QED
    BY <1>1, <1>7 DEF LeakInv

LEMMA LeakInvImplies == LeakInv => NoLeak
  <1> SUFFICES ASSUME LeakInv PROVE NoLeak
    OBVIOUS
  <1> PICK L, g : Replaced(pt, L, g)
    BY DEF LeakInv
  <1>1. /\ Tree(pt, L) /\ Allocated = Tables(pt) /\ Root \in Tables(pt) /\ L[Root] = 4
        /\ Tables(pt) \subseteq Nat
    BY TablesInMemory DEF Replaced, Allocated, Tables, Tree
  <1>2. \A x \in Tables(pt) : L[x] \in {2, 3} => HasParent(pt, L, x)
    BY <1>1 DEF Replaced, Orphans
  <1>3. ASSUME NEW T \in SUBSET Tables(pt), NEW k \in {1, 2, 3},
               \A t \in Tables(pt) : L[t] = k + 1 => t \in T,
               NEW x \in Tables(pt), L[x] = k, HasParent(pt, L, x)
        PROVE  x \in Below(T)
    <2>1. PICK t \in Tables(pt), i \in Idx :
             L[t] > 1 /\ Pointer(pt, t, i) /\ pt.mem[t][i].addr = x
      BY <1>3 DEF HasParent
    <2>2. L[t] \in 1 .. 4 /\ L[x] = L[t] - 1
      BY <1>1, <2>1 DEF Tree, PointDown
    <2>3. t \in T
      BY <1>3, <2>2
    <2>4. <<t, i>> \in PointersIn(T) /\ Target(<<t, i>>) = x
      BY <2>1, <2>3 DEF PointersIn, Pointer, Target
    <2> QED
      BY <2>4 DEF Below
  <1>4. ASSUME NEW T \in SUBSET Tables(pt), NEW k \in {2, 3, 4}, \A t \in T : L[t] = k
        PROVE  /\ Below(T) \subseteq Tables(pt)
               /\ \A p \in Below(T) : L[p] = k - 1
    BY <1>1, <1>4 DEF Tree, PointDown, Pointer, Below, PointersIn, Target
  <1>5. /\ Level3 \subseteq Tables(pt) /\ \A t \in Level3 : L[t] = 3
        /\ \A t \in Tables(pt) : L[t] = 3 => t \in Level3
    <2>1. \A t \in Tables(pt) : L[t] = 4 => t \in {Root}
      BY <1>1 DEF Tree
    <2>2. Level3 \subseteq Tables(pt) /\ \A t \in Level3 : L[t] = 4 - 1
      BY <1>1, <1>4 DEF Level3
    <2> QED
      BY <1>1, <1>2, <1>3, <2>1, <2>2 DEF Level3
  <1>6. /\ Level2 \subseteq Tables(pt)
        /\ \A t \in Tables(pt) : L[t] = 2 => t \in Level2
    BY <1>2, <1>3, <1>4, <1>5 DEF Level2
  <1>7. \A t \in Tables(pt) : L[t] = 1 /\ HasParent(pt, L, t) => t \in Level1
    BY <1>3, <1>6 DEF Level1
  <1>8. Lost \subseteq Orphans(pt, L)
    <2> SUFFICES ASSUME NEW x \in Lost PROVE x \in Orphans(pt, L)
      OBVIOUS
    <2>1. /\ x \in Tables(pt) /\ x # Root
          /\ x \notin Level3 /\ x \notin Level2 /\ x \notin Level1
      BY <1>1 DEF Lost
    <2>2. L[x] \in 1 .. 4 /\ L[x] # 4 /\ L[x] # 3 /\ L[x] # 2
      BY <1>1, <1>5, <1>6, <2>1 DEF Tree
    <2> QED
      BY <1>7, <2>1, <2>2 DEF Orphans
  <1>9. Blocks(pt, L) \subseteq HugeBlocks
    BY <1>6 DEF Blocks, HugeBlocks
  <1>10. IsFiniteSet(HugeBlocks)
    <2>1. pt.it - 1 \in Int /\ Entries - 1 \in Int
      BY <1>1, SizesAssumption DEF Tree
    <2>2. IsFiniteSet(Tables(pt)) /\ IsFiniteSet(Idx)
      <3>1. Tables(pt) \in SUBSET (1 .. pt.it - 1)
        BY <1>1, SizesAssumption DEF Tree, Tables, BootTables
      <3>2. IsFiniteSet(1 .. pt.it - 1)
        BY <2>1, FS_Interval
      <3>3. IsFiniteSet(0 .. Entries - 1)
        BY <2>1, FS_Interval
      <3> QED
        BY <3>1, <3>2, <3>3, FS_Subset DEF Idx
    <2>3. IsFiniteSet(Tables(pt) \X Idx)
      BY <2>2, FS_Product
    <2>4. HugeBlocks \in SUBSET (Tables(pt) \X Idx)
      BY <1>6 DEF HugeBlocks
    <2> QED
      BY <2>3, <2>4, FS_Subset
  <1>11. [x \in Lost |-> g[x]] \in Injection(Lost, HugeBlocks)
    <2>1. \A x \in Lost : g[x] \in HugeBlocks
      BY <1>8, <1>9 DEF Replaced
    <2>2. \A x, y \in Lost : g[x] = g[y] => x = y
      BY <1>8 DEF Replaced
    <2> QED
      BY <2>1, <2>2 DEF Injection, IsInjective
  <1> QED
    BY <1>10, <1>11, FS_Injection DEF NoLeak

(***************************************************************************)
(* The watermark allocator, which cannot free, hands out no table in vain: *)
(* map_4kb_page loses none, each 2MB mapping at most the one it replaces,  *)
(* for every sequence of calls and memory below 512GB.                     *)
(***************************************************************************)
THEOREM NothingLeaks ==
    ASSUME SmallMemory
    PROVE  Spec => []NoLeak
  <1>1. Init => LeakInv
    BY RefInvInit, BootReached DEF Init, LeakInv
  <1>2. LeakInv /\ [Next]_vars => LeakInv'
    BY LeakInvStep
  <1> QED
    BY <1>1, <1>2, LeakInvImplies, PTL DEF Spec
=============================================================================
