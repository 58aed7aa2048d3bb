----------------------------- MODULE MemProofs ------------------------------
(***************************************************************************)
(* The functions of mem.c do what their names say: the four properties of  *)
(* Mem hold for every size of a word, memory, and set of calls.            *)
(***************************************************************************)
EXTENDS Mem, TLAPS

TypeInv ==
    /\ call \in Cases
    /\ mem \in [Address -> Nat]
    /\ cur \in 0 .. call.size
    /\ pc \in {"running", "returned"}

\* What the comparisons have gone through.
Compared ==
    \A k \in 0 .. cur - 1 :
        /\ call.op = "memcmp" => mem[call.dst + k] = mem[call.src + k]
        /\ call.op = "strncmp" =>
             mem[call.dst + k] = mem[call.src + k] /\ mem[call.dst + k] # 0

\* Neither of them writes.
Untouched == call.op \in {"memcmp", "strncmp"} => mem = call.found

MemInv ==
    TypeInv /\ FillExact /\ CopyExact /\ StringCopyExact
      /\ Compared /\ Untouched /\ CompareExact

\* A call of the set has a type and stays within memory.
LEMMA CaseFacts ==
    ASSUME NEW c \in Cases
    PROVE  /\ c.op \in Functions /\ c.dst \in Nat /\ c.src \in Nat /\ c.size \in Nat
           /\ c.val \in Nat /\ c.found \in [Address -> Nat]
           /\ c.dst + c.size <= Space /\ c.src + c.size <= Space
           /\ Word \in Nat \ {0} /\ Space \in Nat
BY MemAssumption DEF CaseType

\* A byte of a block that fits is an address.
LEMMA BlockFits ==
    ASSUME NEW d \in Nat, NEW n \in Nat, Space \in Nat, d + n <= Space,
           NEW k \in 0 .. n - 1
    PROVE  d + k \in Address
BY DEF Address

\* A store never reaches beyond the end, and a short block has no word.
LEMMA ChunkFits ==
    ASSUME TypeInv, cur < call.size
    PROVE  /\ Chunk \in Nat \ {0} /\ cur + Chunk <= call.size
           /\ call.size <= Word => Chunk = 1
BY CaseFacts DEF TypeInv, Chunk, To, End

\* The first state: nothing is done yet.
LEMMA InitInv == Init => MemInv
BY CaseFacts DEF Init, MemInv, TypeInv, FillExact, CopyExact, CopySafe, StringCopyExact,
   Compared, Untouched, CompareExact, Filled, To, Functions

\* memset keeps the invariant.
LEMMA SetChunkInv == MemInv /\ SetChunk => MemInv'
<1> SUFFICES ASSUME MemInv, SetChunk PROVE MemInv'
    OBVIOUS
<1> USE DEF MemInv
<1>1. /\ Chunk \in Nat \ {0} /\ cur + Chunk <= call.size
      /\ call.size <= Word => Chunk = 1
    BY ChunkFits DEF SetChunk
<1>2. /\ call' = call /\ pc' = pc /\ res' = res /\ cur' = cur + Chunk
      /\ call.op = "memset" /\ pc = "running" /\ call \in Cases
    BY DEF SetChunk, Running, TypeInv
<1>3. /\ \A a \in Address \ Stored : mem'[a] = mem[a]
      /\ \A a \in Address \cap Stored : mem'[a] = IF a = To THEN call.val ELSE 0
    BY DEF SetChunk
<1>4. mem' \in [Address -> Nat]
    BY <1>2, CaseFacts DEF SetChunk, TypeInv
<1>5. TypeInv'
    BY <1>1, <1>2, <1>4, CaseFacts DEF TypeInv
<1>6. Filled' = Filled \cup Stored /\ Filled \cap Stored = {}
    BY <1>1, <1>2, CaseFacts DEF Filled, Stored, To, TypeInv
<1>7. Filled' \subseteq Address
    BY <1>1, <1>2, CaseFacts DEF Filled, To, TypeInv, Address
<1>8. FillExact'
  <2>1. \A a \in Address \ Filled' : mem'[a] = call.found[a]
      BY <1>2, <1>3, <1>6 DEF FillExact
  <2>2. ASSUME call.val = 0 \/ call.size <= Word, NEW a \in Filled'
        PROVE  mem'[a] = call.val
    <3>1. CASE a \in Filled
        BY <3>1, <2>2, <1>2, <1>3, <1>6, <1>7 DEF FillExact
    <3>2. CASE a \in Stored /\ call.val = 0
        BY <3>2, <1>3, <1>6, <1>7
    <3>3. CASE a \in Stored /\ call.size <= Word
      <4>1. a = To
          BY <3>3, <1>1, <1>2, CaseFacts DEF Stored, To, TypeInv
      <4> QED BY <4>1, <3>3, <1>3, <1>6, <1>7
    <3> QED BY <2>2, <3>1, <3>2, <3>3, <1>6
  <2> QED BY <1>1, <1>2, <1>5, <2>1, <2>2 DEF FillExact, TypeInv
<1> QED BY <1>2, <1>5, <1>8 DEF CopyExact, StringCopyExact, Compared, Untouched, CompareExact

\* memcpy keeps the invariant.
LEMMA CopyChunkInv == MemInv /\ CopyChunk => MemInv'
<1> SUFFICES ASSUME MemInv, CopyChunk PROVE MemInv'
    OBVIOUS
<1> USE DEF MemInv
<1>1. Chunk \in Nat \ {0} /\ cur + Chunk <= call.size
    BY ChunkFits DEF CopyChunk
<1>2. /\ call' = call /\ pc' = pc /\ res' = res /\ cur' = cur + Chunk
      /\ call.op = "memcpy" /\ pc = "running" /\ call \in Cases
    BY DEF CopyChunk, Running, TypeInv
<1>3. /\ \A a \in Address \ Stored : mem'[a] = mem[a]
      /\ \A a \in Address \cap Stored : mem'[a] = mem[From + (a - To)]
    BY DEF CopyChunk
<1>4. \A a \in Stored : From + (a - To) \in Address
  <2>1. /\ call.src \in Nat /\ call.dst \in Nat /\ call.size \in Nat /\ cur \in Nat
        /\ Space \in Nat /\ call.src + call.size <= Space
      BY <1>2, CaseFacts DEF TypeInv
  <2> SUFFICES ASSUME NEW a \in Stored PROVE From + (a - To) \in Address
      OBVIOUS
  <2>2. a - To \in 0 .. Chunk - 1
      BY <2>1, <1>1 DEF Stored, To
  <2>3. From \in Nat /\ From + Chunk <= Space
      BY <2>1, <1>1 DEF From
  <2> HIDE DEF MemInv
  <2> QED BY <2>1, <2>2, <2>3, <1>1 DEF Address
<1>5. mem' \in [Address -> Nat]
    BY <1>4 DEF CopyChunk, TypeInv
<1>6. TypeInv'
    BY <1>1, <1>2, <1>5, CaseFacts DEF TypeInv
<1>7. Filled' = Filled \cup Stored /\ Filled \cap Stored = {}
    BY <1>1, <1>2, CaseFacts DEF Filled, Stored, To, TypeInv
<1>8. Filled' \subseteq Address
    BY <1>1, <1>2, CaseFacts DEF Filled, To, TypeInv, Address
<1>9. CopyExact'
  <2>1. \A a \in Address \ Filled' : mem'[a] = call.found[a]
      BY <1>2, <1>3, <1>7 DEF CopyExact
  <2>2. ASSUME CopySafe, NEW a \in Filled'
        PROVE  mem'[a] = call.found[call.src + (a - call.dst)]
    <3>1. CASE a \in Filled
        BY <3>1, <2>2, <1>2, <1>3, <1>7, <1>8 DEF CopyExact
    <3>2. CASE a \in Stored
      <4>1. mem'[a] = mem[From + (a - To)]
          BY <3>2, <1>3, <1>7, <1>8
      <4>2. From + (a - To) = call.src + (a - call.dst)
          BY <3>2, <1>1, <1>2, CaseFacts DEF Stored, From, To, TypeInv
      <4>3. From + (a - To) \in Address \ Filled
          BY <3>2, <2>2, <1>1, <1>2, <1>4, CaseFacts
             DEF Stored, From, To, TypeInv, CopySafe, Filled
      <4> QED BY <4>1, <4>2, <4>3, <1>2 DEF CopyExact
    <3> QED BY <3>1, <3>2, <1>7
  <2>3. CopySafe' = CopySafe
      BY <1>2 DEF CopySafe
  <2> QED BY <1>1, <1>2, <1>6, <2>1, <2>2, <2>3 DEF CopyExact, TypeInv
<1> QED BY <1>2, <1>6, <1>9 DEF FillExact, StringCopyExact, Compared, Untouched, CompareExact

\* The return of memset and memcpy keeps the invariant.
LEMMA DoneInv == MemInv /\ Done => MemInv'
<1> SUFFICES ASSUME MemInv, Done PROVE MemInv'
    OBVIOUS
<1>1. /\ mem' = mem /\ call' = call /\ cur' = cur /\ pc' = "returned"
      /\ call.op \in {"memset", "memcpy"} /\ cur = call.size /\ call \in Cases
    BY CaseFacts DEF Done, Return, Running, MemInv, TypeInv
<1> QED BY <1>1 DEF MemInv, TypeInv, FillExact, CopyExact, CopySafe, StringCopyExact,
    Compared, Untouched, CompareExact, Filled, To

\* memcmp and strncmp keep the invariant; they change no byte.
LEMMA CompareInv == MemInv /\ (CompareByte \/ CompareChar) => MemInv'
<1> SUFFICES ASSUME MemInv, CompareByte \/ CompareChar PROVE MemInv'
    OBVIOUS
<1> USE DEF MemInv
<1>1. /\ mem' = mem /\ call' = call /\ call.op \in {"memcmp", "strncmp"} /\ call \in Cases
      /\ cur \in Nat
    BY CaseFacts DEF CompareByte, CompareChar, Continue, Return, Running, TypeInv
<1>2. Untouched' /\ FillExact' /\ CopyExact' /\ StringCopyExact'
    BY <1>1 DEF Untouched, FillExact, CopyExact, StringCopyExact
<1>3. TypeInv'
    BY <1>1, CaseFacts DEF CompareByte, CompareChar, Continue, Return, Running, TypeInv
<1>4. Compared'
  <2>1. CASE cur' = cur
      BY <2>1, <1>1 DEF Compared
  <2>2. CASE cur' = cur + 1
    <3>1. /\ call.op = "memcmp" => mem[To] = mem[From]
          /\ call.op = "strncmp" => mem[To] = mem[From] /\ mem[To] # 0
        BY <2>2, <1>1 DEF CompareByte, CompareChar, Continue, Return, Running
    <3>2. \A k \in 0 .. cur : k \in 0 .. cur - 1 \/ k = cur
        BY <1>1
    <3> QED BY <3>1, <3>2, <2>2, <1>1 DEF Compared, To, From
  <2> QED BY <2>1, <2>2 DEF CompareByte, CompareChar, Continue, Return
<1>5. CompareExact'
  <2> SUFFICES ASSUME pc' = "returned" PROVE CompareExact'
      BY DEF CompareExact
  <2>1. cur' = cur /\ pc = "running"
      BY DEF CompareByte, CompareChar, Continue, Return, Running
  <2>2. \A k \in 0 .. call.size - 1 :
          call.dst + k \in Address /\ call.src + k \in Address
          /\ mem[call.dst + k] \in Nat /\ mem[call.src + k] \in Nat
    <3>1. /\ call.src \in Nat /\ call.dst \in Nat /\ call.size \in Nat /\ Space \in Nat
          /\ call.src + call.size <= Space /\ call.dst + call.size <= Space
          /\ mem \in [Address -> Nat]
        BY <1>1, CaseFacts DEF TypeInv
    <3>2. \A k \in 0 .. call.size - 1 :
            call.dst + k \in Address /\ call.src + k \in Address
        BY <3>1, BlockFits
    <3> QED BY <3>1, <3>2
  <2>3. CASE call.op = "memcmp"
    <3>1. \/ cur < call.size /\ mem[To] # mem[From] /\ res' = 1
          \/ cur = call.size /\ res' = 0
        BY <2>1, <2>3 DEF CompareByte, CompareChar, Continue, Return, Running
    <3>2. res' = 0 <=> \A k \in 0 .. call.size - 1 : mem[call.dst + k] = mem[call.src + k]
      <4>1. CASE cur < call.size /\ mem[To] # mem[From] /\ res' = 1
        <5>1. cur \in 0 .. call.size - 1
            BY <4>1, <1>1, CaseFacts
        <5> QED BY <4>1, <5>1 DEF To, From
      <4>2. CASE cur = call.size /\ res' = 0
          BY <4>2, <2>3 DEF Compared
      <4> QED BY <3>1, <4>1, <4>2
    <3> QED BY <3>2, <2>3, <1>1, <1>2 DEF CompareExact, Untouched
  <2>4. CASE call.op = "strncmp"
    <3>1. \/ cur < call.size /\ (mem[To] = 0 \/ mem[To] # mem[From]) /\ res' = mem[To] - mem[From]
          \/ cur = call.size /\ res' = 0
        BY <2>1, <2>4 DEF CompareByte, CompareChar, Continue, Return, Running
    <3>2. res' = 0 <=> SameString(call.dst, call.src, call.size)
      <4>1. CASE /\ cur < call.size /\ (mem[To] = 0 \/ mem[To] # mem[From])
                 /\ res' = mem[To] - mem[From]
        <5>1. cur \in 0 .. call.size - 1 /\ mem[To] \in Nat /\ mem[From] \in Nat
            BY <4>1, <1>1, <2>2, CaseFacts DEF To, From
        <5>2. res' = 0 <=> mem[To] = mem[From]
            BY <4>1, <5>1
        <5>3. \A j \in 0 .. cur - 1 : mem[call.dst + j] # 0
            BY <2>4 DEF Compared
        <5>4. CASE mem[To] # mem[From]
            BY <5>1, <5>2, <5>3, <5>4 DEF SameString, To, From
        <5>5. CASE mem[To] = mem[From]
          <6>1. mem[To] = 0
              BY <4>1, <5>5
          <6>2. SUFFICES ASSUME NEW k \in 0 .. call.size - 1,
                                \A j \in 0 .. k - 1 : mem[call.dst + j] # 0
                         PROVE  mem[call.dst + k] = mem[call.src + k]
              BY <5>2, <5>5 DEF SameString
          <6>3. k <= cur
              BY <6>1, <6>2, <5>1, CaseFacts, <1>1 DEF To
          <6>4. CASE k = cur
              BY <6>4, <5>5 DEF To, From
          <6>5. CASE k < cur
              BY <6>5, <2>4, <1>1, CaseFacts DEF Compared
          <6> QED BY <6>3, <6>4, <6>5, <1>1, CaseFacts
        <5> QED BY <5>4, <5>5
      <4>2. CASE cur = call.size /\ res' = 0
          BY <4>2, <2>4 DEF Compared, SameString
      <4> QED BY <3>1, <4>1, <4>2
    <3>3. SameString(call.dst, call.src, call.size)'
            = SameString(call.dst, call.src, call.size)
        BY <1>1 DEF SameString
    <3> QED BY <3>2, <3>3, <2>4, <1>1, <1>2 DEF CompareExact, Untouched
  <2> QED BY <1>1, <2>3, <2>4
<1> QED BY <1>2, <1>3, <1>4, <1>5

\* strncpy keeps the invariant.
LEMMA CopyCharInv == MemInv /\ CopyChar => MemInv'
<1> SUFFICES ASSUME MemInv, CopyChar PROVE MemInv'
    OBVIOUS
<1> USE DEF MemInv
<1>1. call' = call /\ call.op = "strncpy" /\ call \in Cases /\ cur \in 0 .. call.size
    BY DEF CopyChar, Return, Running, TypeInv
<1>2. FillExact' /\ CopyExact' /\ Compared' /\ Untouched' /\ CompareExact'
    BY <1>1 DEF FillExact, CopyExact, Compared, Untouched, CompareExact
<1>3. TypeInv' /\ StringCopyExact'
  <2>1. CASE /\ cur < call.size /\ mem[From] # 0
             /\ mem' = [mem EXCEPT ![To] = mem[From]]
             /\ cur' = cur + 1 /\ UNCHANGED <<call, res, pc>>
    <3>1. To \in Address /\ From \in Address
      <4>1. /\ call.dst \in Nat /\ call.src \in Nat /\ call.size \in Nat
            /\ cur \in Nat /\ cur < call.size /\ Space \in Nat
            /\ call.dst + call.size <= Space /\ call.src + call.size <= Space
          BY <2>1, <1>1, CaseFacts
      <4> QED BY <4>1 DEF To, From, Address
    <3>2. TypeInv'
      <4>1. call.size \in Nat /\ cur \in Nat
          BY <1>1, CaseFacts
      <4>2. mem' \in [Address -> Nat]
          BY <2>1, <3>1 DEF TypeInv
      <4>3. cur' \in 0 .. call'.size
          BY <2>1, <1>1, <4>1
      <4> QED BY <2>1, <1>1, <4>2, <4>3 DEF TypeInv
    <3>3. Filled' = Filled \cup {To} /\ To \notin Filled /\ Filled \subseteq Address
      <4>1. /\ call.dst \in Nat /\ call.size \in Nat /\ cur \in Nat /\ cur < call.size
            /\ Space \in Nat /\ call.dst + call.size <= Space
            /\ call' = call /\ cur' = cur + 1
          BY <2>1, <1>1, CaseFacts
      <4>2. Filled' = call.dst .. call.dst + cur /\ Filled = call.dst .. call.dst + cur - 1
          BY <4>1 DEF Filled, To
      <4> QED BY <4>1, <4>2 DEF To, Address
    <3>4. pc' = "running"
        BY <2>1 DEF CopyChar, Running, Return
    <3>5. ASSUME call.dst + call.size <= call.src
          PROVE  /\ \A a \in Address \ Filled' : mem'[a] = call.found[a]
                 /\ \A a \in Filled' :
                      mem'[a] = call.found[call.src + (a - call.dst)] /\ mem'[a] # 0
      <4>1. From \notin Filled /\ From = call.src + (To - call.dst)
          BY <3>5, <1>1, <2>1, CaseFacts DEF From, To, Filled
      <4>2. mem[From] = call.found[From]
          BY <3>1, <3>5, <4>1, <1>1 DEF StringCopyExact
      <4>3. mem'[To] = call.found[call.src + (To - call.dst)] /\ mem'[To] # 0
          BY <2>1, <3>1, <4>1, <4>2 DEF TypeInv
      <4>4. \A a \in Address \ {To} : mem'[a] = mem[a]
          BY <2>1 DEF TypeInv
      <4> QED BY <3>3, <3>5, <4>3, <4>4, <1>1 DEF StringCopyExact
    <3> QED BY <3>2, <3>4, <3>5, <1>1 DEF StringCopyExact
  <2>2. CASE (cur = call.size \/ mem[From] = 0) /\ Return(cur)
    <3>1. /\ mem' = mem /\ cur' = cur /\ pc' = "returned" /\ res' = cur
          /\ Filled' = Filled
        BY <2>2, <1>1 DEF Return, Filled, To
    <3>2. ASSUME call.dst + call.size <= call.src, cur < call.size
          PROVE  call.found[call.src + cur] = 0
      <4>0. /\ call.dst \in Nat /\ call.src \in Nat /\ call.size \in Nat /\ cur \in Nat
            /\ cur < call.size /\ call.src + call.size <= Space /\ Space \in Nat
          BY <3>2, <1>1, CaseFacts
      <4>1. From \in Address /\ From \notin Filled /\ From = call.src + cur
          BY <4>0, <3>2 DEF From, Address, Filled, To
      <4> QED BY <2>2, <3>2, <4>1, <1>1, CaseFacts DEF StringCopyExact
    <3> QED BY <3>1, <3>2, <1>1, CaseFacts DEF StringCopyExact, TypeInv
  <2> QED BY <2>1, <2>2 DEF CopyChar
<1> QED BY <1>2, <1>3

\* What every function of mem.c keeps, at every step of every call.
LEMMA Invariance == Spec => []MemInv
<1>1. MemInv /\ [Next]_vars => MemInv'
  <2>1. ASSUME MemInv, UNCHANGED vars PROVE MemInv'
      BY <2>1 DEF vars, MemInv, TypeInv, FillExact, CopyExact, CopySafe, StringCopyExact,
         Compared, Untouched, CompareExact, SameString, Filled, To
  <2> QED BY <2>1, SetChunkInv, CopyChunkInv, DoneInv, CompareInv, CopyCharInv DEF Next
<1> QED BY <1>1, InitInv, PTL DEF Spec

(***************************************************************************)
(* memset changes the bytes of its block, all of them, and no other.       *)
(***************************************************************************)
THEOREM MemsetExact == Spec => []FillExact
BY Invariance, PTL DEF MemInv

(***************************************************************************)
(* memcpy copies its block as it was, to where it belongs.                 *)
(***************************************************************************)
THEOREM MemcpyExact == Spec => []CopyExact
BY Invariance, PTL DEF MemInv

(***************************************************************************)
(* memcmp and strncmp return 0 just when what they compare is equal.       *)
(***************************************************************************)
THEOREM ComparisonsExact == Spec => []CompareExact
BY Invariance, PTL DEF MemInv

(***************************************************************************)
(* strncpy copies the string without its end and returns its length.       *)
(***************************************************************************)
THEOREM StrncpyExact == Spec => []StringCopyExact
BY Invariance, PTL DEF MemInv
=============================================================================
