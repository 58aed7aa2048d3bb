-------------------------------- MODULE Mem ---------------------------------
(***************************************************************************)
(* The loops of bootloader/cboot/src/mem.c on a memory of Space bytes.     *)
(* memset and memcpy go byte by byte to a word boundary of dst, then word  *)
(* by word, then byte by byte again; a step is one store or, in the other  *)
(* functions, one comparison.  A behaviour is one call.                    *)
(***************************************************************************)
EXTENDS Integers

CONSTANTS
    Word,   \* bytes of a u64 (8)
    Space,  \* bytes of memory, at addresses from 0, which is word aligned
    Cases   \* calls with the memory they find, see CaseType

VARIABLES
    mem,   \* the memory
    call,  \* the function and its arguments
    cur,   \* bytes done
    res,   \* what the call returned
    pc     \* "running" or "returned"

\* The memory that the call found is kept in call.
vars == <<mem, call, cur, res, pc>>

Address == 0 .. Space - 1
Functions == {"memset", "memcpy", "memcmp", "strncmp", "strncpy"}

\* For memcmp and strncmp s1 is dst and s2 is src; val is of use to memset.
CaseType ==
    [op : Functions, dst : Nat, src : Nat, size : Nat, val : Nat,
     found : [Address -> Nat]]

ASSUME MemAssumption ==
    /\ Word \in Nat \ {0} /\ Space \in Nat
    /\ Cases \subseteq CaseType
    /\ \A c \in Cases : c.dst + c.size <= Space /\ c.src + c.size <= Space

Init ==
    /\ call \in Cases
    /\ mem = call.found
    /\ cur = 0 /\ res = 0
    /\ pc = "running"

Running(op) == pc = "running" /\ call.op = op

Return(value) ==
    /\ pc' = "returned" /\ res' = value
    /\ UNCHANGED <<mem, call, cur>>

-----------------------------------------------------------------------------

To == call.dst + cur
From == call.src + cur
End == call.dst + call.size

\* Fault: the end is not compared with in the word loop.
ChunkPastEnd == IF To % Word # 0 THEN 1 ELSE Word

\* How much the next store of memset or memcpy covers.  The word loop stops
\* at its last whole word already, and leaves that one to the byte loop.
Chunk == IF To % Word # 0 \/ To + Word >= End THEN 1 ELSE Word

Stored == To .. To + Chunk - 1

\* *dst8++ = val, or *dst64++ = val, which clears all but the first byte.
SetChunk ==
    /\ Running("memset") /\ cur < call.size
    /\ mem' = [a \in Address |->
                 IF a \notin Stored THEN mem[a] ELSE IF a = To THEN call.val ELSE 0]
    /\ cur' = cur + Chunk
    /\ UNCHANGED <<call, res, pc>>

\* Fault: src is rounded down like dst for the words.
CopyChunkAligned ==
    /\ Running("memcpy") /\ cur < call.size
    /\ LET from == IF Chunk = Word THEN From - (From % Word) ELSE From
       IN  mem' = [a \in Address |-> IF a \in Stored THEN mem[from + (a - To)] ELSE mem[a]]
    /\ cur' = cur + Chunk
    /\ UNCHANGED <<call, res, pc>>

\* A word is read as a whole before it is stored.
CopyChunk ==
    /\ Running("memcpy") /\ cur < call.size
    /\ mem' = [a \in Address |-> IF a \in Stored THEN mem[From + (a - To)] ELSE mem[a]]
    /\ cur' = cur + Chunk
    /\ UNCHANGED <<call, res, pc>>

Done ==
    /\ Running("memset") \/ Running("memcpy")
    /\ cur >= call.size
    /\ Return(0)

Continue == cur' = cur + 1 /\ UNCHANGED <<mem, call, res, pc>>

CompareByte ==
    /\ Running("memcmp")
    /\ \/ cur < call.size /\ mem[To] = mem[From] /\ Continue
       \/ cur < call.size /\ mem[To] # mem[From] /\ Return(1)
       \/ cur = call.size /\ Return(0)

\* Fault: the end of the string is not looked for.
CompareCharPastNul ==
    /\ Running("strncmp")
    /\ \/ cur < call.size /\ mem[To] = mem[From] /\ Continue
       \/ cur < call.size /\ mem[To] # mem[From] /\ Return(mem[To] - mem[From])
       \/ cur = call.size /\ Return(0)

\* strncmp
CompareChar ==
    /\ Running("strncmp")
    /\ \/ cur < call.size /\ mem[To] # 0 /\ mem[To] = mem[From] /\ Continue
       \/ cur < call.size /\ (mem[To] = 0 \/ mem[To] # mem[From])
            /\ Return(mem[To] - mem[From])
       \/ cur = call.size /\ Return(0)

\* Fault: the end is copied too, over what follows the string in dst.
CopyCharAndNul ==
    /\ Running("strncpy")
    /\ \/ /\ cur < call.size /\ mem[From] # 0
          /\ mem' = [mem EXCEPT ![To] = mem[From], ![To + 1] = 0]
          /\ cur' = cur + 1
          /\ UNCHANGED <<call, res, pc>>
       \/ (cur = call.size \/ mem[From] = 0) /\ Return(cur)

\* strncpy, which ends no string and returns its length.
CopyChar ==
    /\ Running("strncpy")
    /\ \/ /\ cur < call.size /\ mem[From] # 0
          /\ mem' = [mem EXCEPT ![To] = mem[From]]
          /\ cur' = cur + 1
          /\ UNCHANGED <<call, res, pc>>
       \/ (cur = call.size \/ mem[From] = 0) /\ Return(cur)

Next == SetChunk \/ CopyChunk \/ Done \/ CompareByte \/ CompareChar \/ CopyChar

Spec == Init /\ [][Next]_vars /\ WF_vars(Next)

-----------------------------------------------------------------------------
(* Properties.                                                             *)

Filled == call.dst .. To - 1

(***************************************************************************)
(* memset, at any moment: the bytes gone through hold the value and no     *)
(* other byte has changed, whatever the alignment of dst and the size.     *)
(* Words are stored with a byte only, so that this is so of a value other  *)
(* than 0 only up to the size of a word.                                   *)
(***************************************************************************)
FillExact ==
    call.op = "memset" =>
        /\ \A a \in Address \ Filled : mem[a] = call.found[a]
        /\ call.val = 0 \/ call.size <= Word => \A a \in Filled : mem[a] = call.val
        /\ cur <= call.size /\ (pc = "returned" => cur = call.size)

\* src and dst may overlap only when dst comes first.
CopySafe == call.dst <= call.src \/ call.src + call.size <= call.dst

(***************************************************************************)
(* memcpy, at any moment: the bytes gone through are those the source held *)
(* when it was called, and no other byte has changed, whatever the         *)
(* alignment of either, even when dst runs into src from below.            *)
(***************************************************************************)
CopyExact ==
    call.op = "memcpy" =>
        /\ \A a \in Address \ Filled : mem[a] = call.found[a]
        /\ CopySafe => \A a \in Filled : mem[a] = call.found[call.src + (a - call.dst)]
        /\ cur <= call.size /\ (pc = "returned" => cur = call.size)

\* The strings at a and b are the same in their first n characters.
SameString(a, b, n) ==
    \A k \in 0 .. n - 1 :
        (\A j \in 0 .. k - 1 : mem[a + j] # 0) => mem[a + k] = mem[b + k]

(***************************************************************************)
(* "returns 0 if they are equal": memcmp compares bytes, strncmp strings,  *)
(* whatever follows their ends.                                            *)
(***************************************************************************)
CompareExact ==
    pc = "returned" =>
        /\ call.op = "memcmp" =>
             (res = 0 <=> \A k \in 0 .. call.size - 1 : mem[call.dst + k] = mem[call.src + k])
        /\ call.op = "strncmp" => (res = 0 <=> SameString(call.dst, call.src, call.size))
        /\ call.op \in {"memcmp", "strncmp"} => mem = call.found

(***************************************************************************)
(* When all of the destination lies below the source, strncpy returns the  *)
(* length of the source, as far as it was to be copied, and has copied     *)
(* that much and no more, not even an end: it is how the path of a file is *)
(* put together from two fields in a buffer that was cleared.              *)
(***************************************************************************)
StringCopyExact ==
    call.op = "strncpy" /\ call.dst + call.size <= call.src =>
        /\ \A a \in Address \ Filled : mem[a] = call.found[a]
        /\ \A a \in Filled : mem[a] = call.found[call.src + (a - call.dst)] /\ mem[a] # 0
        /\ pc = "returned" =>
             /\ res = cur /\ cur <= call.size
             /\ cur < call.size => call.found[call.src + cur] = 0
=============================================================================
