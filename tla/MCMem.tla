------------------------------- MODULE MCMem --------------------------------
(***************************************************************************)
(* Instances of Mem: words of 4 bytes in 16.  Blocks of every alignment    *)
(* and size for memset and memcpy, overlapping ones too; every two strings *)
(* of up to three characters, ended or not, for the others.                *)
(***************************************************************************)
EXTENDS Mem

Case(op, dst, src, size, val, found) ==
    [op |-> op, dst |-> dst, src |-> src, size |-> size, val |-> val, found |-> found]

Numbered == [a \in Address |-> a + 1]

\* One string from address 0 on, the other from 5 on.
Strings == [0 .. 2 -> 0 .. 2]
TwoStrings(s, t) ==
    [a \in Address |-> IF a <= 2 THEN s[a] ELSE IF a \in 5 .. 7 THEN t[a - 5] ELSE 1]

SetCases ==
    {c \in {Case("memset", d, 0, n, v, Numbered) : d \in Address, n \in 0 .. Space, v \in {0, 9}} :
        c.dst + c.size <= Space}
CopyCases ==
    {c \in {Case("memcpy", d, s, n, 0, Numbered) :
                d \in Address, s \in Address, n \in 0 .. Space} :
        c.dst + c.size <= Space /\ c.src + c.size <= Space}
StringCases ==
    {Case(op, 0, 5, n, 0, TwoStrings(s, t)) :
        op \in {"memcmp", "strncmp", "strncpy"}, n \in 0 .. 3, s \in Strings, t \in Strings}

MCCases == SetCases \cup CopyCases \cup StringCases
=============================================================================
