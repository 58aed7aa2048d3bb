---------------------------- MODULE ConsoleProofs ---------------------------
(***************************************************************************)
(* Proofs about Console, for every size of the screen and all texts: the   *)
(* screen shows the end of what is printed, the serial line carries it,    *)
(* and a handler's message can be read.  Each has an invariant of its own, *)
(* over that of where the thread can be (Begun).                           *)
(*                                                                         *)
(* The paper is a fold over the text; that it is one PutChar for each      *)
(* character (SheetAppend) comes from the definition of FoldLeft and from  *)
(* Least and Induction, which hold of sets of numbers.                     *)
(***************************************************************************)
EXTENDS Console, SequenceTheorems, WellFoundedInduction, TLAPS

\* A set of numbers has a least one.
LEMMA Least ==
    ASSUME NEW S \in SUBSET Nat, S # {}
    PROVE  \E n \in S : \A m \in S : n <= m
  <1> DEFINE R == {ss \in Nat \X Nat : ss[1] < ss[2]}
  <1>1. IsWellFoundedOn(R, Nat)
    BY NatLessThanWellFounded, Zenon DEF OpToRel
  <1> HIDE DEF R
  <1>2. PICK x \in S : \A y \in S : <<y, x>> \notin R
    BY <1>1, WFMin, Zenon
  <1>3. \A y \in S : ~(y < x)
    BY <1>2 DEF R
  <1> QED
    BY <1>3

\* A set has all numbers from low on if it has low and, with each, the next.
LEMMA Induction ==
    ASSUME NEW S, NEW low \in Nat, low \in S,
           \A n \in Nat : low <= n /\ n \in S => n + 1 \in S
    PROVE  \A n \in Nat : low <= n => n \in S
  <1> SUFFICES ASSUME NEW n \in Nat, low <= n, n \notin S
               PROVE  FALSE
    OBVIOUS
  <1> DEFINE Missing == {m \in Nat : low <= m /\ m \notin S}
  <1>1. Missing \in SUBSET Nat /\ n \in Missing
    OBVIOUS
  <1> HIDE DEF Missing
  <1>2. PICK m \in Missing : \A k \in Missing : m <= k
    BY <1>1, Least
  <1>3. m \in Nat /\ low <= m /\ m \notin S /\ m # low
    BY <1>2 DEF Missing
  <1>4. m - 1 \in Nat /\ low <= m - 1 /\ m - 1 \notin Missing
    BY <1>2, <1>3, <1>1
  <1>5. m - 1 \in S
    BY <1>4 DEF Missing
  <1> QED
    BY <1>3, <1>4, <1>5

-----------------------------------------------------------------------------
(* The paper of a text: what FoldLeft computes.                            *)

Char == STRING
Row == [1 .. Cols -> Char]

EmptySheet ==
    [above |-> [r \in 1 .. Rows - 1 |-> OldRow], last |-> OldRow, col |-> 0]

Sheet(text) == FoldLeft(PutChar, EmptySheet, text)

LEMMA PaperOfSheet ==
    ASSUME NEW text
    PROVE  Paper(text) = Append(Sheet(text).above, Sheet(text).last)
  BY Zenon DEF Paper, Sheet, EmptySheet

\* The equation of the fold, for a function on the sets of the first k positions.
Folds(text, k, f) ==
    f = [s \in SUBSET (1 .. k) |->
           IF s = {} THEN EmptySheet ELSE PutChar(f[s \ {Max(s)}], text[Max(s)])]

LEMMA FoldExists ==
    ASSUME NEW text, NEW n \in Nat
    PROVE  \E f : Folds(text, n, f)
  <1> DEFINE S == {k \in Nat : \E f : Folds(text, k, f)}
  <1>1. 0 \in S
    <2> DEFINE f == [s \in SUBSET (1 .. 0) |-> EmptySheet]
    <2>1. \A s \in SUBSET (1 .. 0) : s = {}
      OBVIOUS
    <2>2. Folds(text, 0, f)
      BY <2>1 DEF Folds
    <2> QED
      BY <2>2
  <1>2. ASSUME NEW k \in Nat, 0 <= k, k \in S
        PROVE  k + 1 \in S
    <2>1. PICK f : Folds(text, k, f)
      BY <1>2
    <2> DEFINE new == [s \in SUBSET (1 .. k + 1) |->
                         IF k + 1 \in s THEN PutChar(f[s \ {k + 1}], text[k + 1]) ELSE f[s]]
               next(s) == IF s = {} THEN EmptySheet
                          ELSE PutChar(new[s \ {Max(s)}], text[Max(s)])
    <2>2. ASSUME NEW s \in SUBSET (1 .. k + 1), k + 1 \in s
          PROVE  new[s] = next(s)
      <3>1. Max(s) = k + 1
        <4>1. \A x \in s : x \in Nat /\ k + 1 >= x
          OBVIOUS
        <4>2. \E x \in s : \A y \in s : x >= y
          BY <2>2, <4>1
        <4>3. Max(s) \in s /\ \A y \in s : Max(s) >= y
          BY <4>2, Zenon DEF Max
        <4>4. Max(s) \in Nat /\ k + 1 >= Max(s) /\ Max(s) >= k + 1
          BY <2>2, <4>1, <4>3, Zenon
        <4> QED
          BY <4>4
      <3>2. s \ {k + 1} \in SUBSET (1 .. k + 1) /\ k + 1 \notin s \ {k + 1}
        OBVIOUS
      <3>3. new[s \ {k + 1}] = f[s \ {k + 1}]
        BY <3>2
      <3> QED
        BY <2>2, <3>1, <3>3
    <2>3. ASSUME NEW s \in SUBSET (1 .. k + 1), k + 1 \notin s
          PROVE  new[s] = next(s)
      <3>1. s \in SUBSET (1 .. k)
        BY <2>3
      <3>2. new[s] = f[s]
        BY <2>3
      <3>3. f[s] = IF s = {} THEN EmptySheet ELSE PutChar(f[s \ {Max(s)}], text[Max(s)])
        BY <2>1, <3>1 DEF Folds
      <3>4. s \ {Max(s)} \in SUBSET (1 .. k + 1) /\ k + 1 \notin s \ {Max(s)}
        BY <2>3
      <3>5. new[s \ {Max(s)}] = f[s \ {Max(s)}]
        BY <3>4
      <3> QED
        BY <3>2, <3>3, <3>5
    <2>4. Folds(text, k + 1, new)
      <3>1. \A s \in SUBSET (1 .. k + 1) : new[s] = next(s)
        BY <2>2, <2>3
      <3>2. new = [s \in SUBSET (1 .. k + 1) |-> next(s)]
        <4> HIDE DEF next
        <4> QED
          BY <3>1
      <3> QED
        BY <3>2, Zenon DEF Folds
    <2> QED
      BY <2>4
  <1> HIDE DEF S
  <1>3. n \in S
    BY <1>1, <1>2, Induction
  <1> QED
    BY <1>3 DEF S

LEMMA SheetFolds ==
    ASSUME NEW text \in Seq(Char)
    PROVE  \E f : Folds(text, Len(text), f) /\ Sheet(text) = f[1 .. Len(text)]
  <1> DEFINE it == CHOOSE f :
               f = [s \in SUBSET DOMAIN text |->
                      IF s = {} THEN EmptySheet ELSE PutChar(f[s \ {Max(s)}], text[Max(s)])]
  <1>1. Sheet(text) = it[DOMAIN text]
    BY Zenon DEF Sheet, FoldLeft, MapThenFoldSet
  <1>2. DOMAIN text = 1 .. Len(text) /\ Len(text) \in Nat
    OBVIOUS
  <1>3. it = CHOOSE f : Folds(text, Len(text), f)
    BY <1>2, Zenon DEF Folds
  <1> HIDE DEF it
  <1>4. Folds(text, Len(text), it)
    BY <1>2, <1>3, FoldExists, Zenon
  <1> QED
    BY <1>1, <1>2, <1>4

\* From one position to the next.
LEMMA FoldNext ==
    ASSUME NEW text, NEW n \in Nat, NEW f, Folds(text, n, f)
    PROVE  /\ f[1 .. 0] = EmptySheet
           /\ \A k \in 0 .. n - 1 : f[1 .. k + 1] = PutChar(f[1 .. k], text[k + 1])
  <1> DEFINE val(s) == IF s = {} THEN EmptySheet ELSE PutChar(f[s \ {Max(s)}], text[Max(s)])
  <1>1. \A s \in SUBSET (1 .. n) : f[s] = val(s)
    <2>1. f = [s \in SUBSET (1 .. n) |-> val(s)]
      BY Zenon DEF Folds
    <2> HIDE DEF val
    <2> QED
      BY <2>1
  <1>2. 1 .. 0 = {} /\ 1 .. 0 \in SUBSET (1 .. n)
    OBVIOUS
  <1>3. ASSUME NEW k \in 0 .. n - 1
        PROVE  f[1 .. k + 1] = PutChar(f[1 .. k], text[k + 1])
    <2>1. 1 .. k + 1 \in SUBSET (1 .. n) /\ 1 .. k + 1 # {}
      OBVIOUS
    <2>2. Max(1 .. k + 1) = k + 1
      <3>1. k + 1 \in 1 .. k + 1 /\ \A x \in 1 .. k + 1 : k + 1 >= x
        OBVIOUS
      <3>2. Max(1 .. k + 1) \in 1 .. k + 1 /\ \A x \in 1 .. k + 1 : Max(1 .. k + 1) >= x
        BY <3>1, Zenon DEF Max
      <3> QED
        BY <3>1, <3>2
    <2>3. (1 .. k + 1) \ {k + 1} = 1 .. k
      OBVIOUS
    <2> QED
      BY <1>1, <2>1, <2>2, <2>3
  <1> QED
    BY <1>1, <1>2, <1>3

\* Characters are put on the paper one after the other.
LEMMA SheetOfEmpty == Sheet(<<>>) = EmptySheet
  <1>1. <<>> \in Seq(Char) /\ Len(<<>>) = 0
    OBVIOUS
  <1>2. PICK f : Folds(<<>>, 0, f) /\ Sheet(<<>>) = f[1 .. 0]
    BY <1>1, SheetFolds
  <1> QED
    BY <1>2, FoldNext

LEMMA SheetAppend ==
    ASSUME NEW text \in Seq(Char), NEW c \in Char
    PROVE  Sheet(Append(text, c)) = PutChar(Sheet(text), c)
  <1> DEFINE n == Len(text)
             more == Append(text, c)
  <1>1. /\ n \in Nat /\ more \in Seq(Char) /\ Len(more) = n + 1
        /\ more[n + 1] = c /\ \A k \in 1 .. n : more[k] = text[k]
    OBVIOUS
  <1>2. PICK f : Folds(text, n, f) /\ Sheet(text) = f[1 .. n]
    BY SheetFolds
  <1> HIDE DEF more
  <1>3. PICK g : Folds(more, n + 1, g) /\ Sheet(more) = g[1 .. n + 1]
    BY <1>1, SheetFolds
  <1> HIDE DEF n
  <1>4. /\ f[1 .. 0] = EmptySheet
        /\ \A k \in 0 .. n - 1 : f[1 .. k + 1] = PutChar(f[1 .. k], text[k + 1])
    BY <1>1, <1>2, FoldNext
  <1>5. /\ g[1 .. 0] = EmptySheet
        /\ \A k \in 0 .. n : g[1 .. k + 1] = PutChar(g[1 .. k], more[k + 1])
    BY <1>1, <1>3, FoldNext
  <1> DEFINE Same == {k \in Nat : k <= n => f[1 .. k] = g[1 .. k]}
  <1>6. 0 \in Same
    BY <1>4, <1>5
  <1>7. ASSUME NEW k \in Nat, 0 <= k, k \in Same
        PROVE  k + 1 \in Same
    <2> SUFFICES ASSUME k + 1 <= n
                 PROVE  f[1 .. k + 1] = g[1 .. k + 1]
      OBVIOUS
    <2>1. k \in 0 .. n - 1 /\ k \in 0 .. n /\ k + 1 \in 1 .. n /\ k <= n
      BY <1>1
    <2>2. f[1 .. k] = g[1 .. k]
      BY <1>7, <2>1
    <2>3. f[1 .. k + 1] = PutChar(f[1 .. k], text[k + 1])
      BY <1>4, <2>1
    <2>4. g[1 .. k + 1] = PutChar(g[1 .. k], more[k + 1])
      BY <1>5, <2>1
    <2>5. more[k + 1] = text[k + 1]
      BY <1>1, <2>1
    <2> QED
      BY <2>2, <2>3, <2>4, <2>5
  <1> HIDE DEF Same
  <1>8. n \in Same
    <2>1. \A k \in Nat : 0 <= k /\ k \in Same => k + 1 \in Same
      BY <1>7
    <2>2. \A k \in Nat : 0 <= k => k \in Same
      BY <1>6, <2>1, Induction
    <2>3. n \in Nat /\ 0 <= n
      BY <1>1
    <2> QED
      BY <2>2, <2>3
  <1>9. f[1 .. n] = g[1 .. n]
    BY <1>1, <1>8 DEF Same
  <1>10. g[1 .. n + 1] = PutChar(g[1 .. n], c)
    BY <1>1, <1>5
  <1> QED
    BY <1>2, <1>3, <1>9, <1>10 DEF more

\* Papers have at least the rows of the screen.
SheetType ==
    {p \in [above : Seq(Row), last : Row, col : 0 .. Cols] : Len(p.above) >= Rows - 1}

LEMMA RowTypes ==
    /\ Rows \in Nat \ {0, 1} /\ Cols \in Nat \ {0}
    /\ NL \in Char /\ CR \in Char /\ NL # CR
    /\ BlankRow \in Row /\ OldRow \in Row
  BY ConsoleAssumption DEF BlankRow, OldRow, Row, Char

LEMMA PutCharType ==
    ASSUME NEW p \in SheetType, NEW c \in Char
    PROVE  PutChar(p, c) \in SheetType
  <1>1. /\ p.above \in Seq(Row) /\ p.last \in Row /\ p.col \in 0 .. Cols
        /\ Len(p.above) >= Rows - 1
        /\ p = [above |-> p.above, last |-> p.last, col |-> p.col]
    BY DEF SheetType
  <1>2. Rows \in Nat /\ Cols \in Nat \ {0} /\ BlankRow \in Row
    BY RowTypes
  <1>3. CASE c = NL \/ p.col = Cols
    <2>1. PutChar(p, c) = [above |-> Append(p.above, p.last), last |-> BlankRow, col |-> 0]
      BY <1>3 DEF PutChar
    <2>2. Append(p.above, p.last) \in Seq(Row) /\ Len(Append(p.above, p.last)) >= Rows - 1
      BY <1>1, <1>2
    <2> QED
      BY <1>2, <2>1, <2>2 DEF SheetType
  <1>4. CASE ~(c = NL \/ p.col = Cols) /\ c = CR
    <2>1. PutChar(p, c) = [above |-> p.above, last |-> p.last, col |-> 0]
      BY <1>1, <1>4 DEF PutChar
    <2> QED
      BY <1>1, <1>2, <2>1 DEF SheetType
  <1>5. CASE ~(c = NL \/ p.col = Cols) /\ c # CR
    <2>1. PutChar(p, c) = [above |-> p.above, last |-> [p.last EXCEPT ![p.col + 1] = c],
                           col |-> p.col + 1]
      BY <1>1, <1>5 DEF PutChar
    <2>2. [p.last EXCEPT ![p.col + 1] = c] \in Row
      BY <1>1 DEF Row
    <2>3. p.col + 1 \in 0 .. Cols
      BY <1>1, <1>2, <1>5
    <2> QED
      BY <1>1, <2>1, <2>2, <2>3 DEF SheetType
  <1> QED
    BY <1>3, <1>4, <1>5

LEMMA SheetHasType ==
    ASSUME NEW text \in Seq(Char)
    PROVE  Sheet(text) \in SheetType
  <1> DEFINE S == {k \in Nat : \A t \in Seq(Char) : Len(t) = k => Sheet(t) \in SheetType}
  <1>1. 0 \in S
    <2>1. \A t \in Seq(Char) : Len(t) = 0 => t = <<>>
      OBVIOUS
    <2>2. [r \in 1 .. Rows - 1 |-> OldRow] \in Seq(Row)
          /\ Len([r \in 1 .. Rows - 1 |-> OldRow]) = Rows - 1
      <3>1. Rows - 1 \in Nat /\ [r \in 1 .. Rows - 1 |-> OldRow] \in [1 .. Rows - 1 -> Row]
        BY RowTypes
      <3> QED
        BY <3>1
    <2>3. EmptySheet \in SheetType
      BY <2>2, RowTypes DEF EmptySheet, SheetType
    <2> QED
      BY <2>1, <2>3, SheetOfEmpty
  <1>2. ASSUME NEW k \in Nat, 0 <= k, k \in S
        PROVE  k + 1 \in S
    <2> SUFFICES ASSUME NEW t \in Seq(Char), Len(t) = k + 1
                 PROVE  Sheet(t) \in SheetType
      OBVIOUS
    <2> DEFINE begin == SubSeq(t, 1, k)
    <2>1. begin \in Seq(Char) /\ Len(begin) = k /\ t[k + 1] \in Char
      OBVIOUS
    <2>2. t = Append(begin, t[k + 1])
      OBVIOUS
    <2> HIDE DEF begin
    <2>3. Sheet(begin) \in SheetType
      BY <1>2, <2>1
    <2> QED
      BY <2>1, <2>2, <2>3, SheetAppend, PutCharType
  <1> HIDE DEF S
  <1>3. Len(text) \in S
    BY <1>1, <1>2, Induction
  <1> QED
    BY <1>3 DEF S

\* A row of the paper, counted from its end.
RowOf(p, r) ==
    IF r = Rows THEN p.last ELSE p.above[Len(p.above) - Rows + 1 + r]

LEMMA PaperRowIs ==
    ASSUME NEW text \in Seq(Char), NEW r \in 1 .. Rows
    PROVE  PaperRow(text, r) = RowOf(Sheet(text), r)
  <1> DEFINE p == Sheet(text)
  <1>1. p.above \in Seq(Row) /\ p.last \in Row /\ Len(p.above) >= Rows - 1
    BY SheetHasType DEF SheetType
  <1>2. Paper(text) = Append(p.above, p.last)
    BY PaperOfSheet
  <1> HIDE DEF p
  <1>3. Len(Paper(text)) = Len(p.above) + 1
    BY <1>1, <1>2
  <1>4. PaperRow(text, r) = Append(p.above, p.last)[(Len(p.above) + 1) - Rows + r]
    BY <1>2, <1>3, Zenon DEF PaperRow
  <1>5. Rows \in Nat /\ r \in Nat /\ r <= Rows
    BY RowTypes
  <1>6. CASE r = Rows
    <2>1. (Len(p.above) + 1) - Rows + r = Len(p.above) + 1
      BY <1>1, <1>5, <1>6
    <2> QED
      BY <1>1, <1>4, <1>6, <2>1 DEF RowOf, p
  <1>7. CASE r # Rows
    <2>1. /\ (Len(p.above) + 1) - Rows + r = Len(p.above) - Rows + 1 + r
          /\ Len(p.above) - Rows + 1 + r \in 1 .. Len(p.above)
      BY <1>1, <1>5, <1>7
    <2> QED
      BY <1>1, <1>4, <1>7, <2>1 DEF RowOf, p
  <1> QED
    BY <1>6, <1>7

\* What a character does to the rows and the column.
LEMMA LineEnds ==
    ASSUME NEW text \in Seq(Char), NEW c \in Char, c = NL \/ Sheet(text).col = Cols
    PROVE  /\ \A r \in 1 .. Rows - 1 : PaperRow(Append(text, c), r) = PaperRow(text, r + 1)
           /\ PaperRow(Append(text, c), Rows) = BlankRow
           /\ Sheet(Append(text, c)).col = 0
  <1> DEFINE p == Sheet(text)
  <1>1. p.above \in Seq(Row) /\ p.last \in Row /\ Len(p.above) >= Rows - 1
    BY SheetHasType DEF SheetType
  <1>2. Sheet(Append(text, c)) =
          [above |-> Append(p.above, p.last), last |-> BlankRow, col |-> 0]
    BY SheetAppend DEF PutChar
  <1>3. \A r \in 1 .. Rows : PaperRow(Append(text, c), r) = RowOf(Sheet(Append(text, c)), r)
    <2>1. Append(text, c) \in Seq(Char)
      OBVIOUS
    <2> QED
      BY <2>1, PaperRowIs
  <1>4. \A r \in 1 .. Rows : PaperRow(text, r) = RowOf(p, r)
    BY PaperRowIs
  <1>5. ASSUME NEW r \in 1 .. Rows - 1
        PROVE  RowOf(Sheet(Append(text, c)), r) = RowOf(p, r + 1)
    <2> HIDE DEF p
    <2>1. RowOf(Sheet(Append(text, c)), r) =
            Append(p.above, p.last)[Len(p.above) + 1 - Rows + 1 + r]
      BY <1>1, <1>2, RowTypes DEF RowOf
    <2>2. CASE r + 1 = Rows
      <3>1. Len(p.above) + 1 - Rows + 1 + r = Len(p.above) + 1
        BY <1>1, <2>2, RowTypes
      <3> QED
        BY <1>1, <2>1, <2>2, <3>1 DEF RowOf
    <2>3. CASE r + 1 # Rows
      <3>1. /\ Len(p.above) + 1 - Rows + 1 + r = Len(p.above) - Rows + 1 + (r + 1)
            /\ Len(p.above) - Rows + 1 + (r + 1) \in 1 .. Len(p.above)
        <4>1. Len(p.above) \in Nat /\ Len(p.above) >= Rows - 1
          BY <1>1
        <4>2. Rows \in Nat /\ r \in Nat /\ 1 <= r /\ r + 1 < Rows
          BY <2>3, RowTypes
        <4>3. PICK a \in Nat : a = Len(p.above)
          BY <4>1
        <4>4. a >= Rows - 1
          BY <4>1, <4>3
        <4>5. a + 1 - Rows + 1 + r = a - Rows + 1 + (r + 1)
          BY <4>2, <4>4
        <4>6. a - Rows + 1 + (r + 1) \in 1 .. a
          BY <4>2, <4>4
        <4> QED
          BY <4>3, <4>5, <4>6
      <3>2. RowOf(p, r + 1) = p.above[Len(p.above) - Rows + 1 + (r + 1)]
        BY <2>3 DEF RowOf
      <3> QED
        BY <1>1, <2>1, <3>1, <3>2
    <2> QED
      BY <2>2, <2>3
  <1>6. Rows \in 1 .. Rows /\ \A r \in 1 .. Rows - 1 : r \in 1 .. Rows /\ r + 1 \in 1 .. Rows
    BY RowTypes
  <1>7. RowOf(Sheet(Append(text, c)), Rows) = BlankRow
    BY <1>2 DEF RowOf
  <1>8. \A r \in 1 .. Rows - 1 : PaperRow(Append(text, c), r) = PaperRow(text, r + 1)
    <2> HIDE DEF p
    <2> SUFFICES ASSUME NEW r \in 1 .. Rows - 1
                 PROVE  PaperRow(Append(text, c), r) = PaperRow(text, r + 1)
      OBVIOUS
    <2>1. r \in 1 .. Rows /\ r + 1 \in 1 .. Rows
      BY <1>6
    <2>2. PaperRow(text, r + 1) = RowOf(p, r + 1)
      BY <1>4, <2>1
    <2> QED
      BY <1>3, <1>5, <2>1, <2>2
  <1>9. PaperRow(Append(text, c), Rows) = BlankRow
    BY <1>3, <1>6, <1>7
  <1> QED
    BY <1>2, <1>8, <1>9

LEMMA LineGoesOn ==
    ASSUME NEW text \in Seq(Char), NEW c \in Char, c # NL, Sheet(text).col # Cols
    PROVE  /\ \A r \in 1 .. Rows - 1 : PaperRow(Append(text, c), r) = PaperRow(text, r)
           /\ PaperRow(Append(text, c), Rows) =
                IF c = CR THEN PaperRow(text, Rows)
                ELSE [PaperRow(text, Rows) EXCEPT ![Sheet(text).col + 1] = c]
           /\ Sheet(Append(text, c)).col = IF c = CR THEN 0 ELSE Sheet(text).col + 1
  <1> DEFINE p == Sheet(text)
             more == Sheet(Append(text, c))
  <1>1. p \in [above : Seq(Row), last : Row, col : 0 .. Cols]
    BY SheetHasType DEF SheetType
  <1>2. more = PutChar(p, c)
    BY SheetAppend
  <1>3. \A r \in 1 .. Rows : PaperRow(Append(text, c), r) = RowOf(more, r)
    <2>1. Append(text, c) \in Seq(Char)
      OBVIOUS
    <2> QED
      BY <2>1, PaperRowIs
  <1>4. \A r \in 1 .. Rows : PaperRow(text, r) = RowOf(p, r)
    BY PaperRowIs
  <1>5. p.col # Cols
    OBVIOUS
  <1> HIDE DEF p, more
  <1>6. /\ more.above = p.above
        /\ more.last = IF c = CR THEN p.last ELSE [p.last EXCEPT ![p.col + 1] = c]
        /\ more.col = IF c = CR THEN 0 ELSE p.col + 1
    BY <1>1, <1>2, <1>5 DEF PutChar
  <1>7. Rows \in 1 .. Rows /\ \A r \in 1 .. Rows - 1 : r \in 1 .. Rows /\ r # Rows
    BY RowTypes
  <1>8. \A r \in 1 .. Rows - 1 : RowOf(more, r) = RowOf(p, r)
    BY <1>6, <1>7 DEF RowOf
  <1>9. RowOf(more, Rows) = more.last /\ RowOf(p, Rows) = p.last
    BY DEF RowOf
  <1>10. \A r \in 1 .. Rows - 1 : PaperRow(Append(text, c), r) = PaperRow(text, r)
    BY <1>3, <1>4, <1>7, <1>8
  <1>11. PaperRow(Append(text, c), Rows) = more.last /\ PaperRow(text, Rows) = p.last
    BY <1>3, <1>4, <1>7, <1>9
  <1> QED
    BY <1>6, <1>10, <1>11 DEF p, more

-----------------------------------------------------------------------------
(* Sequences.                                                              *)

LEMMA ReverseOf ==
    ASSUME NEW s \in Seq(Char)
    PROVE  /\ Reverse(s) \in Seq(Char) /\ Len(Reverse(s)) = Len(s)
           /\ \A i \in 1 .. Len(s) : Reverse(s)[i] = s[(Len(s) - i) + 1]
  <1>1. Len(s) \in Nat /\ \A i \in 1 .. Len(s) : s[(Len(s) - i) + 1] \in Char
    OBVIOUS
  <1>2. Reverse(s) \in [1 .. Len(s) -> Char]
    BY <1>1 DEF Reverse
  <1>3. \A i \in 1 .. Len(s) : Reverse(s)[i] = s[(Len(s) - i) + 1]
    BY DEF Reverse
  <1> QED
    BY <1>1, <1>2, <1>3

LEMMA EndIsSuffix ==
    ASSUME NEW s \in Seq(Char), NEW t \in Seq(Char)
    PROVE  IsSuffix(s, t \o s)
  <1> DEFINE u == t \o s
  <1>1. /\ u \in Seq(Char) /\ Len(u) = Len(t) + Len(s) /\ Len(u) \in Nat
        /\ Len(s) \in Nat /\ Len(t) \in Nat
        /\ \A i \in 1 .. Len(s) : u[Len(t) + i] = s[i]
    OBVIOUS
  <1> HIDE DEF u
  <1>2. /\ Reverse(s) \in Seq(Char) /\ Len(Reverse(s)) = Len(s)
        /\ Reverse(u) \in Seq(Char) /\ Len(Reverse(u)) = Len(u)
    BY <1>1, ReverseOf
  <1>3. ASSUME NEW i \in 1 .. Len(s)
        PROVE  Reverse(s)[i] = Reverse(u)[i]
    <2>1. Reverse(s)[i] = s[(Len(s) - i) + 1]
      BY ReverseOf
    <2>2. Reverse(u)[i] = u[(Len(u) - i) + 1]
      <3>1. i \in 1 .. Len(u)
        BY <1>1
      <3> QED
        BY <1>1, <3>1, ReverseOf
    <2>3. (Len(u) - i) + 1 = Len(t) + ((Len(s) - i) + 1) /\ (Len(s) - i) + 1 \in 1 .. Len(s)
      BY <1>1
    <2> QED
      BY <1>1, <2>1, <2>2, <2>3
  <1>4. SubSeq(Reverse(s), 1, Len(s)) = SubSeq(Reverse(u), 1, Len(s))
    BY <1>1, <1>2, <1>3
  <1> QED
    BY <1>1, <1>2, <1>4 DEF IsSuffix, IsPrefix, u

LEMMA RestAppend ==
    ASSUME NEW s \in Seq(Char), NEW c \in Char, NEW n \in 0 .. Len(s)
    PROVE  SubSeq(Append(s, c), n + 1, Len(Append(s, c))) =
             Append(SubSeq(s, n + 1, Len(s)), c)
  <1> DEFINE more == Append(s, c)
             l == SubSeq(more, n + 1, Len(more))
             m == SubSeq(s, n + 1, Len(s))
  <1>1. /\ more \in Seq(Char) /\ Len(more) = Len(s) + 1 /\ Len(s) \in Nat
        /\ \A i \in 1 .. Len(s) : more[i] = s[i]
        /\ more[Len(s) + 1] = c
    OBVIOUS
  <1> HIDE DEF more
  <1>2. /\ l \in Seq(Char) /\ Len(l) = Len(s) + 1 - n
        /\ \A i \in 1 .. Len(s) + 1 - n : l[i] = more[n + i]
    BY <1>1
  <1>3. /\ m \in Seq(Char) /\ Len(m) = Len(s) - n
        /\ \A i \in 1 .. Len(s) - n : m[i] = s[n + i]
    OBVIOUS
  <1> HIDE DEF l, m
  <1>4. /\ Append(m, c) \in Seq(Char) /\ Len(Append(m, c)) = Len(s) - n + 1
        /\ \A i \in 1 .. Len(s) - n : Append(m, c)[i] = m[i]
        /\ Append(m, c)[Len(s) - n + 1] = c
    BY <1>3
  <1>5. ASSUME NEW i \in 1 .. Len(s) + 1 - n
        PROVE  l[i] = Append(m, c)[i]
    <2>1. CASE i = Len(s) - n + 1
      BY <2>1, <1>1, <1>2, <1>4
    <2>2. CASE i # Len(s) - n + 1
      <3>1. i \in 1 .. Len(s) - n /\ n + i \in 1 .. Len(s)
        BY <2>2, <1>1
      <3> QED
        BY <3>1, <1>1, <1>2, <1>3, <1>4
    <2> QED
      BY <2>1, <2>2
  <1>6. Len(l) = Len(Append(m, c))
    BY <1>1, <1>2, <1>4
  <1>7. l = Append(m, c)
    BY <1>2, <1>4, <1>5, <1>6, SeqEqual
  <1> QED
    BY <1>7 DEF l, m, more

LEMMA BeginAppend ==
    ASSUME NEW s \in Seq(Char), NEW c \in Char, NEW n \in 0 .. Len(s)
    PROVE  SubSeq(Append(s, c), 1, n) = SubSeq(s, 1, n)
  OBVIOUS

LEMMA ConcatAppend ==
    ASSUME NEW s \in Seq(Char), NEW t \in Seq(Char), NEW c \in Char
    PROVE  s \o Append(t, c) = Append(s \o t, c)
  <1>1. <<c>> \in Seq(Char) /\ s \o t \in Seq(Char)
    OBVIOUS
  <1>2. Append(t, c) = t \o <<c>> /\ Append(s \o t, c) = (s \o t) \o <<c>>
    BY <1>1, AppendIsConcat
  <1> QED
    BY <1>1, <1>2, ConcatAssociative

LEMMA RemoveAtAppend ==
    ASSUME NEW s \in Seq(Char), NEW c \in Char, NEW i \in 1 .. Len(s)
    PROVE  RemoveAt(Append(s, c), i) = Append(RemoveAt(s, i), c)
  <1> DEFINE a == SubSeq(s, 1, i - 1)
             b == SubSeq(s, i + 1, Len(s))
  <1>1. i - 1 \in 0 .. Len(s) /\ i \in 0 .. Len(s)
    OBVIOUS
  <1>2. a \in Seq(Char) /\ b \in Seq(Char)
    OBVIOUS
  <1>3. SubSeq(Append(s, c), 1, i - 1) = a
    BY <1>1, BeginAppend
  <1>4. SubSeq(Append(s, c), i + 1, Len(Append(s, c))) = Append(b, c)
    BY <1>1, RestAppend
  <1>5. RemoveAt(s, i) = a \o b
    BY DEF RemoveAt
  <1>6. RemoveAt(Append(s, c), i) = a \o Append(b, c)
    BY <1>3, <1>4, Zenon DEF RemoveAt
  <1> HIDE DEF a, b
  <1> QED
    BY <1>2, <1>5, <1>6, ConcatAppend

LEMMA RemoveAtEnd ==
    ASSUME NEW s \in Seq(Char), NEW c \in Char
    PROVE  RemoveAt(Append(s, c), Len(s) + 1) = s
  <1> DEFINE more == Append(s, c)
             n == Len(s)
  <1>1. n \in Nat /\ Len(more) = n + 1 /\ n \in 0 .. Len(s)
    OBVIOUS
  <1>2. SubSeq(more, 1, n) = SubSeq(s, 1, n)
    BY <1>1, BeginAppend
  <1>3. SubSeq(s, 1, n) = s
    BY SubSeqFull
  <1>4. SubSeq(more, (n + 1) + 1, Len(more)) = <<>>
    <2> HIDE DEF more, n
    <2> QED
      BY <1>1, SubSeqEmpty
  <1>5. RemoveAt(more, n + 1) = SubSeq(more, 1, (n + 1) - 1) \o SubSeq(more, (n + 1) + 1, Len(more))
    BY DEF RemoveAt
  <1>6. (n + 1) - 1 = n
    BY <1>1
  <1> QED
    BY <1>2, <1>3, <1>4, <1>5, <1>6, ConcatEmptySeq

-----------------------------------------------------------------------------
(* Where the thread can be.                                                *)

Printing == {"draw", "newline", "advance", "wait", "send"}

ChipType ==
    [dlab : BOOLEAN, loop : BOOLEAN, hold : Seq(Char),
     rx : Char \cup {Nothing}, prompt : BOOLEAN]

Types ==
    /\ screen \in [1 .. Rows -> Row]
    /\ column_counter \in 0 .. Cols /\ step \in Nat
    /\ chip \in ChipType
    /\ line \in Seq(Char) /\ todo \in Seq(Char) /\ out \in Seq(Char)
    /\ mode \in {"boot", "exception", "nmi", "kernel"}
    /\ result \in {0, 1}
    /\ since \in 0 .. Len(out)

Places ==
    /\ pc \in CASE mode = "boot"   -> Printing \cup {"init", "ready"}
                [] mode = "kernel" -> {"wait", "send", "show", "halted"}
                [] OTHER           -> Printing \cup {"halted"}
    /\ pc \in Printing => todo # <<>>
    /\ pc = "init" => step \in 1 .. 7
    /\ pc = "newline" => step \in 1 .. Rows
    /\ pc = "show" => step \in 1 .. Len(Greeting)
    /\ pc = "advance" => column_counter < Cols

\* What the printed texts are.
LEMMA TextTypes ==
    /\ \A t \in Texts \cup Exceptions \cup {NmiText, Greeting} : t \in Seq(Char) /\ t # <<>>
    /\ Len(Greeting) \in 1 .. Cols /\ TestByte \in Char /\ TestByte # Nothing
    /\ \A i \in 1 .. Len(Greeting) : Greeting[i] \in Char
  <1>1. \A t \in Texts \cup Exceptions \cup {NmiText, Greeting} : t \in Seq(Char) /\ t # <<>>
    BY ConsoleAssumption DEF Char
  <1>2. Greeting \in Seq(Char) /\ Greeting # <<>>
    BY <1>1
  <1>3. Len(Greeting) <= Cols /\ Cols \in Nat /\ TestByte \in Char /\ TestByte # Nothing
    BY ConsoleAssumption DEF Char
  <1>4. Len(Greeting) \in Nat \ {0}
    BY <1>2, EmptySeq
  <1> QED
    BY <1>1, <1>2, <1>3, <1>4

Begun == Types /\ Places

LEMMA BegunInit == Init => Begun
  <1> SUFFICES ASSUME Init
               PROVE  Begun
    OBVIOUS
  <1>1. screen \in [1 .. Rows -> Row] /\ 0 \in 0 .. Cols
    BY RowTypes DEF Init
  <1>2. chip \in ChipType
    <2>1. chip \in ChipState /\ Prompts \subseteq BOOLEAN
      BY ConsoleAssumption DEF Init
    <2>2. {<<>>} \subseteq Seq(Char) /\ {Nothing} \subseteq Char \cup {Nothing}
      OBVIOUS
    <2> QED
      BY <2>1, <2>2 DEF ChipState, ChipType
  <1>3. <<>> \in Seq(Char) /\ 0 \in 0 .. Len(<<>>)
    OBVIOUS
  <1> QED
    BY <1>1, <1>2, <1>3 DEF Init, Begun, Types, Places, Printing

\* The writes of init_serial, one by one.
LEMMA SerialWritesAre ==
    ASSUME InitSerial, Begun
    PROVE  /\ step \in 1 .. 6 /\ pc = "init" /\ step' = step + 1
           /\ step = 1 => chip' = [chip EXCEPT !.dlab = TRUE]
           /\ step = 2 => chip' = [chip EXCEPT !.dlab = FALSE]
           /\ step = 3 => chip' = [chip EXCEPT !.hold = <<>>, !.rx = Nothing]
           /\ step = 4 => chip' = [chip EXCEPT !.loop = FALSE]
           /\ step = 5 => chip' = [chip EXCEPT !.loop = TRUE]
           /\ step = 6 => chip' = Data(TestByte)
  <1>1. Len(SerialWrites) = 6
    BY DEF SerialWrites
  <1>2. step \in 1 .. 6 /\ pc = "init" /\ step' = step + 1
    BY <1>1 DEF InitSerial, Begun, Places
  <1>3. chip' = SerialWrites[step]
    BY DEF InitSerial
  <1>4. /\ SerialWrites[1] = [chip EXCEPT !.dlab = TRUE]
        /\ SerialWrites[2] = [chip EXCEPT !.dlab = FALSE]
        /\ SerialWrites[3] = [chip EXCEPT !.hold = <<>>, !.rx = Nothing]
        /\ SerialWrites[4] = [chip EXCEPT !.loop = FALSE]
        /\ SerialWrites[5] = [chip EXCEPT !.loop = TRUE]
        /\ SerialWrites[6] = Data(TestByte)
    BY DEF SerialWrites
  <1> QED
    BY <1>2, <1>3, <1>4, Zenon

LEMMA DataType ==
    ASSUME chip \in ChipType, NEW c \in Char
    PROVE  Data(c) \in ChipType
  <1>1. <<c>> \in Seq(Char)
    OBVIOUS
  <1> QED
    BY <1>1 DEF ChipType, Data

LEMMA BegunStepSerial ==
    ASSUME Begun, InitSerial \/ TestSerial \/ Transmit
    PROVE  Begun'
  <1>1. chip \in ChipType /\ <<>> \in Seq(Char)
    BY DEF Begun, Types
  <1>2. CASE InitSerial
    <2>1. chip' \in ChipType
      <3>1. Data(TestByte) \in ChipType
        BY <1>1, DataType, TextTypes
      <3>2. /\ [chip EXCEPT !.dlab = TRUE] \in ChipType
            /\ [chip EXCEPT !.dlab = FALSE] \in ChipType
            /\ [chip EXCEPT !.hold = <<>>, !.rx = Nothing] \in ChipType
            /\ [chip EXCEPT !.loop = FALSE] \in ChipType
            /\ [chip EXCEPT !.loop = TRUE] \in ChipType
        BY <1>1 DEF ChipType
      <3>3. step \in 1 .. 6
        BY <1>2, SerialWritesAre
      <3>4. step = 1 \/ step = 2 \/ step = 3 \/ step = 4 \/ step = 5 \/ step = 6
        BY <3>3
      <3> QED
        BY <1>2, <3>1, <3>2, <3>4, SerialWritesAre, Zenon
    <2>2. step' \in 1 .. 7 /\ mode = "boot"
      BY <1>2, SerialWritesAre DEF Begun, Places, Printing
    <2> QED
      BY <1>2, <2>1, <2>2 DEF InitSerial, Begun, Types, Places, Printing
  <1>3. CASE TestSerial
    <2>1. chip' \in ChipType
      BY <1>1, <1>3 DEF TestSerial, ChipType
    <2>2. mode = "boot"
      BY <1>3 DEF TestSerial, Begun, Places, Printing
    <2> QED
      BY <1>3, <2>1, <2>2 DEF TestSerial, Begun, Types, Places, Printing
  <1>4. CASE Transmit
    <2>1. chip' \in ChipType
      <3>1. Head(chip.hold) \in Char
        BY <1>1, <1>4, EmptySeq, HeadTailProperties DEF Transmit, ChipType
      <3> QED
        BY <1>1, <1>4, <3>1 DEF Transmit, ChipType
    <2>2. line' \in Seq(Char)
      <3>1. line \in Seq(Char) /\ chip.hold \in Seq(Char)
        BY <1>1 DEF ChipType, Begun, Types
      <3>2. line \o chip.hold \in Seq(Char)
        BY <3>1
      <3> QED
        BY <1>4, <3>1, <3>2 DEF Transmit
    <2> QED
      BY <1>4, <2>1, <2>2 DEF Transmit, Begun, Types, Places, Printing
  <1> QED
    BY <1>2, <1>3, <1>4

LEMMA BegunStepScreen ==
    ASSUME Begun, Newline \/ ShiftRow \/ CarriageReturn \/ StoreCell \/ NextColumn
    PROVE  Begun'
  <1> USE RowTypes DEF Begun, Printer
  <1>1. CASE Newline
    <2>1. 1 \in 1 .. Rows /\ 1 \in Nat /\ 0 \in 0 .. Cols
      OBVIOUS
    <2> QED
      BY <1>1, <2>1 DEF Newline, Types, Places, Printing
  <1>2. CASE ShiftRow
    <2>1. step \in 1 .. Rows /\ step \in Nat
      BY <1>2 DEF ShiftRow, Places
    <2>2. screen' \in [1 .. Rows -> Row]
      <3>1. screen \in [1 .. Rows -> Row]
        BY DEF Types
      <3>2. CASE step < Rows
        <4>1. step + 1 \in 1 .. Rows
          BY <2>1, <3>2
        <4>2. screen' = [screen EXCEPT ![step] = screen[step + 1]]
          BY <1>2, <3>2 DEF ShiftRow
        <4> QED
          BY <3>1, <4>1, <4>2
      <3>3. CASE ~(step < Rows)
        <4>1. screen' = [screen EXCEPT ![Rows] = BlankRow]
          BY <1>2, <3>3 DEF ShiftRow
        <4> QED
          BY <3>1, <4>1
      <3> QED
        BY <3>2, <3>3
    <2>3. pc' = "newline" => step' \in 1 .. Rows
      BY <1>2, <2>1 DEF ShiftRow
    <2>4. pc' \in {"newline", "wait"} /\ step' \in Nat
      BY <1>2, <2>1 DEF ShiftRow
    <2> QED
      BY <1>2, <2>2, <2>3, <2>4 DEF ShiftRow, Types, Places, Printing
  <1>3. CASE CarriageReturn
    <2>1. 0 \in 0 .. Cols
      OBVIOUS
    <2> QED
      BY <1>3, <2>1 DEF CarriageReturn, Types, Places, Printing
  <1>4. CASE StoreCell
    <2>1. column_counter \in 0 .. Cols /\ column_counter < Cols
      BY <1>4 DEF StoreCell, Types
    <2>2. column_counter + 1 \in 1 .. Cols /\ Head(todo) \in Char
      BY <1>4, <2>1, HeadTailProperties DEF StoreCell, Types, Places, Printing
    <2>3. screen' \in [1 .. Rows -> Row]
      BY <1>4, <2>2 DEF StoreCell, Types, Row
    <2> QED
      BY <1>4, <2>1, <2>3 DEF StoreCell, Types, Places, Printing
  <1>5. CASE NextColumn
    <2>1. column_counter \in 0 .. Cols /\ column_counter < Cols
      BY <1>5 DEF NextColumn, Types, Places
    <2>2. column_counter' \in 0 .. Cols
      BY <1>5, <2>1 DEF NextColumn
    <2> QED
      BY <1>5, <2>2 DEF NextColumn, Types, Places, Printing
  <1> QED
    BY <1>1, <1>2, <1>3, <1>4, <1>5

LEMMA BegunStepPrint ==
    ASSUME Begun, WaitSerial \/ SendChar \/ ShowGreeting
    PROVE  Begun'
  <1> USE DEF Begun, Printer
  <1>1. CASE WaitSerial
    BY <1>1 DEF WaitSerial, Types, Places, Printing
  <1>2. CASE SendChar
    <2>1. todo \in Seq(Char) /\ todo # <<>> /\ out \in Seq(Char) /\ chip \in ChipType
      BY <1>2 DEF SendChar, Types, Places, Printing
    <2>2. Head(todo) \in Char /\ Tail(todo) \in Seq(Char)
      BY <2>1, HeadTailProperties
    <2>3. chip' \in ChipType
      BY <1>2, <2>1, <2>2, DataType DEF SendChar
    <2>4. out' \in Seq(Char) /\ Len(out') = Len(out) + 1 /\ Len(out) \in Nat
      BY <1>2, <2>1, <2>2 DEF SendChar
    <2>5. since' \in 0 .. Len(out')
      BY <1>2, <2>4 DEF SendChar, Types
    <2>6. todo' \in Seq(Char) /\ step' = 1
      BY <1>2, <2>2 DEF SendChar
    <2>7. Types'
      BY <1>2, <2>3, <2>4, <2>5, <2>6 DEF SendChar, Types
    <2>8. Places'
      <3>1. 1 \in 1 .. Len(Greeting)
        BY TextTypes
      <3>2. /\ mode = "boot" => pc' \in {"draw", "ready"}
            /\ mode = "kernel" => pc' \in {"wait", "show"}
            /\ mode \in {"exception", "nmi"} => pc' \in {"draw", "halted"}
            /\ pc' \in {"draw", "wait"} => todo' # <<>>
        BY <1>2, Zenon DEF SendChar, Types
      <3> QED
        BY <1>2, <2>6, <3>1, <3>2 DEF SendChar, Places, Printing, Types
    <2> QED
      BY <2>7, <2>8
  <1>3. CASE ShowGreeting
    <2>1. /\ step \in 1 .. Len(Greeting) /\ Len(Greeting) \in 1 .. Cols
          /\ Greeting[step] \in Char /\ mode = "kernel"
      BY <1>3, TextTypes DEF ShowGreeting, Places, Types, Printing
    <2>2. step \in 1 .. Cols /\ 1 \in 1 .. Rows
      BY <2>1, RowTypes
    <2>3. screen' \in [1 .. Rows -> Row]
      BY <1>3, <2>1, <2>2 DEF ShowGreeting, Types, Row
    <2>4. step' \in Nat /\ (step # Len(Greeting) => step' \in 1 .. Len(Greeting))
      BY <1>3, <2>1 DEF ShowGreeting
    <2> QED
      BY <1>3, <2>1, <2>3, <2>4 DEF ShowGreeting, Types, Places, Printing
  <1> QED
    BY <1>1, <1>2, <1>3

LEMMA BegunStepMode ==
    ASSUME Begun,
           \/ \E text \in Texts : Puts(text)
           \/ \E text \in Exceptions : Exception(text)
           \/ Nmi \/ EnterKernel
    PROVE  Begun'
  <1> USE DEF Begun
  <1>1. \A m : since \in 0 .. Len(out) /\ Len(out) \in 0 .. Len(out)
    BY DEF Types
  <1>2. ASSUME NEW text \in Texts, Puts(text)
        PROVE  Begun'
    <2>1. text \in Seq(Char) /\ text # <<>>
      BY TextTypes
    <2>2. mode = "boot"
      BY <1>2 DEF Puts, Places, Types, Printing
    <2> QED
      BY <1>2, <2>1, <2>2 DEF Puts, Types, Places, Printing
  <1>3. ASSUME NEW text, text \in Seq(Char), text # <<>>,
               NEW m \in {"exception", "nmi"}, Interrupt(text, m)
        PROVE  Begun'
    BY <1>1, <1>3 DEF Interrupt, Types, Places, Printing
  <1>4. ASSUME NEW text \in Exceptions, Exception(text)
        PROVE  Begun'
    <2>1. text \in Seq(Char) /\ text # <<>>
      BY TextTypes
    <2> QED
      BY <1>3, <1>4, <2>1 DEF Exception
  <1>5. CASE Nmi
    <2>1. NmiText \in Seq(Char) /\ NmiText # <<>>
      BY TextTypes
    <2> QED
      BY <1>3, <1>5, <2>1 DEF Nmi
  <1>6. CASE EnterKernel
    <2>1. Greeting \in Seq(Char) /\ Greeting # <<>> /\ <<>> \in Seq(Char)
      BY TextTypes
    <2>2. chip' \in ChipType
      BY <1>6, <2>1 DEF EnterKernel, Types, ChipType
    <2> QED
      BY <1>1, <1>6, <2>1, <2>2 DEF EnterKernel, Types, Places, Printing
  <1> QED
    BY <1>2, <1>4, <1>5, <1>6

LEMMA BegunStep == Begun /\ [Next]_vars => Begun'
  <1> SUFFICES ASSUME Begun, [Next]_vars
               PROVE  Begun'
    OBVIOUS
  <1>1. CASE UNCHANGED vars
    BY <1>1 DEF vars, Begun, Types, Places
  <1> QED
    BY <1>1, BegunStepSerial, BegunStepScreen, BegunStepPrint, BegunStepMode
       DEF Next, Thread

-----------------------------------------------------------------------------
(* The serial port.                                                        *)

\* What init_serial has done to the chip before each of its writes.
SetUp ==
    pc = "init" =>
        /\ line = <<>> /\ out = <<>>
        /\ step <= 6 => chip.hold = <<>> /\ chip.rx = Nothing
        /\ step >= 3 => ~chip.dlab
        /\ step >= 6 => chip.loop
        /\ step = 7 =>
             \/ chip.hold = <<>> /\ chip.rx = TestByte
             \/ chip.hold = <<TestByte>> /\ chip.rx = Nothing /\ ~chip.prompt

\* A character is written to an empty buffer, and the port is in loopback
\* after its set up just when the test has failed.
Port ==
    /\ chip.hold # <<>> => \E c \in Char : chip.hold = <<c>>
    /\ pc = "send" => chip.hold = <<>>
    /\ mode \in {"boot", "exception"} /\ pc # "init" =>
         ~chip.dlab /\ (result = 0 <=> ~chip.loop) /\ (chip.prompt => result = 0)

PortInv == Begun /\ SetUp /\ Port

LEMMA PortInit == Init => SetUp /\ Port
  BY DEF Init, ChipState, SetUp, Port

LEMMA PortStepInit ==
    ASSUME PortInv, InitSerial
    PROVE  SetUp' /\ Port'
  <1>1. /\ step \in 1 .. 6 /\ pc = "init" /\ step' = step + 1 /\ chip \in ChipType
        /\ line' = line /\ out' = out /\ pc' = pc
    BY SerialWritesAre DEF PortInv, InitSerial, Begun, Types
  <1>2. /\ line = <<>> /\ out = <<>> /\ chip.hold = <<>> /\ chip.rx = Nothing
        /\ step >= 3 => ~chip.dlab
        /\ step >= 6 => chip.loop
    BY <1>1 DEF PortInv, SetUp
  <1>3. CASE step \in 1 .. 5
    <2>1. /\ chip'.hold = <<>> /\ chip'.rx = Nothing
          /\ step \in 2 .. 5 => ~chip'.dlab
          /\ step = 5 => chip'.loop
      <3>1. step = 1 \/ step = 2 \/ step = 3 \/ step = 4 \/ step = 5
        BY <1>3
      <3>2. /\ step = 1 => chip' = [chip EXCEPT !.dlab = TRUE]
            /\ step = 2 => chip' = [chip EXCEPT !.dlab = FALSE]
            /\ step = 3 => chip' = [chip EXCEPT !.hold = <<>>, !.rx = Nothing]
            /\ step = 4 => chip' = [chip EXCEPT !.loop = FALSE]
            /\ step = 5 => chip' = [chip EXCEPT !.loop = TRUE]
        BY SerialWritesAre DEF PortInv
      <3>3. CASE step = 1
        BY <1>1, <1>2, <3>2, <3>3 DEF ChipType
      <3>4. CASE step = 2
        BY <1>1, <1>2, <3>2, <3>4 DEF ChipType
      <3>5. CASE step = 3
        <4>1. chip' = [chip EXCEPT !.hold = <<>>, !.rx = Nothing]
          BY <3>2, <3>5
        <4>2. chip'.hold = <<>> /\ chip'.rx = Nothing /\ chip'.dlab = chip.dlab
          BY <1>1, <4>1 DEF ChipType
        <4> QED
          BY <1>2, <3>5, <4>2
      <3>6. CASE step = 4
        BY <1>1, <1>2, <3>2, <3>6 DEF ChipType
      <3>7. CASE step = 5
        BY <1>1, <1>2, <3>2, <3>7 DEF ChipType
      <3> QED
        BY <3>1, <3>3, <3>4, <3>5, <3>6, <3>7
    <2> QED
      BY <1>1, <1>2, <1>3, <2>1 DEF SetUp, Port
  <1>4. CASE step = 6
    <2>1. chip' = Data(TestByte) /\ TestByte \in Char /\ TestByte # Nothing
      BY <1>4, SerialWritesAre, TextTypes DEF PortInv
    <2>2. /\ ~chip'.dlab /\ chip'.loop
          /\ \/ chip'.hold = <<>> /\ chip'.rx = TestByte
             \/ chip'.hold = <<TestByte>> /\ chip'.rx = Nothing /\ ~chip'.prompt
      BY <1>1, <1>2, <1>4, <2>1 DEF Data, ChipType
    <2> QED
      BY <1>1, <1>2, <1>4, <2>1, <2>2 DEF SetUp, Port
  <1> QED
    BY <1>1, <1>3, <1>4

LEMMA PortStepTest ==
    ASSUME PortInv, TestSerial
    PROVE  SetUp' /\ Port'
  <1>1. step = 7 /\ pc = "init" /\ chip \in ChipType
    <2>1. Len(SerialWrites) = 6
      BY DEF SerialWrites
    <2> QED
      BY <2>1 DEF PortInv, TestSerial, Begun, Types, Places
  <1>2. /\ ~chip.dlab /\ chip.loop
        /\ \/ chip.rx = TestByte
           \/ chip.rx = Nothing /\ ~chip.prompt
    BY <1>1 DEF PortInv, SetUp
  <1>3. chip.hold # <<>> => \E c \in Char : chip.hold = <<c>>
    BY DEF PortInv, Port
  <1>4. chip.rx = TestByte =>
          chip' = [chip EXCEPT !.loop = FALSE, !.rx = Nothing] /\ result' = 0
    BY DEF TestSerial
  <1>5. chip.rx # TestByte => chip' = [chip EXCEPT !.rx = Nothing] /\ result' = 1
    BY DEF TestSerial
  <1>6. /\ ~chip'.dlab /\ chip'.hold = chip.hold
        /\ (result' = 0 <=> ~chip'.loop) /\ (chip'.prompt => result' = 0)
    <2>1. CASE chip.rx = TestByte
      BY <1>1, <1>2, <1>4, <2>1 DEF ChipType
    <2>2. CASE chip.rx # TestByte
      BY <1>1, <1>2, <1>5, <2>2 DEF ChipType
    <2> QED
      BY <2>1, <2>2
  <1>7. pc' = "ready"
    BY DEF TestSerial
  <1> QED
    BY <1>3, <1>6, <1>7 DEF SetUp, Port

LEMMA PortStepTransmit ==
    ASSUME PortInv, Transmit
    PROVE  SetUp' /\ Port'
  <1>1. chip \in ChipType /\ chip.hold # <<>>
    BY DEF PortInv, Transmit, Begun, Types
  <1>2. pc = "init" => /\ step = 7 /\ chip.hold = <<TestByte>> /\ chip.loop
                       /\ ~chip.dlab /\ line = <<>> /\ out = <<>>
    BY <1>1 DEF PortInv, SetUp, Begun, Places
  <1>3. /\ chip'.hold = <<>> /\ chip'.dlab = chip.dlab /\ chip'.loop = chip.loop
        /\ chip'.prompt = chip.prompt
        /\ chip.loop => chip'.rx = Head(chip.hold) /\ line' = line
    BY <1>1 DEF Transmit, ChipType
  <1>4. Head(<<TestByte>>) = TestByte
    OBVIOUS
  <1> QED
    BY <1>1, <1>2, <1>3, <1>4 DEF Transmit, SetUp, Port, PortInv

LEMMA PortStepSend ==
    ASSUME PortInv, SendChar
    PROVE  SetUp' /\ Port'
  <1>1. Head(todo) \in Char /\ chip \in ChipType /\ chip.hold = <<>> /\ pc # "init"
    BY HeadTailProperties
       DEF PortInv, SendChar, Begun, Types, Places, Printing, Port
  <1>2. chip' = Data(Head(todo)) /\ pc' \notin {"init", "send"} /\ mode' = mode /\ result' = result
    BY DEF SendChar
  <1>3. /\ chip'.dlab = chip.dlab /\ chip'.loop = chip.loop /\ chip'.prompt = chip.prompt
        /\ chip'.hold = <<>> \/ chip'.hold = <<Head(todo)>>
    BY <1>1, <1>2 DEF Data, ChipType
  <1> QED
    BY <1>1, <1>2, <1>3 DEF SetUp, Port, PortInv

LEMMA PortStep == PortInv /\ [Next]_vars => PortInv'
  <1> SUFFICES ASSUME PortInv, [Next]_vars
               PROVE  SetUp' /\ Port'
    BY BegunStep DEF PortInv
  <1> USE DEF PortInv
  <1>1. CASE InitSerial \/ TestSerial \/ Transmit \/ SendChar
    BY <1>1, PortStepInit, PortStepTest, PortStepTransmit, PortStepSend
  <1>2. CASE Newline \/ ShiftRow \/ CarriageReturn \/ StoreCell \/ NextColumn \/ ShowGreeting
    BY <1>2 DEF Newline, ShiftRow, CarriageReturn, StoreCell, NextColumn, ShowGreeting,
                Printer, SetUp, Port
  <1>3. CASE WaitSerial
    BY <1>3 DEF WaitSerial, Printer, SetUp, Port
  <1>4. ASSUME NEW text \in Texts, Puts(text)
        PROVE  SetUp' /\ Port'
    BY <1>4 DEF Puts, SetUp, Port
  <1>5. ASSUME NEW text \in Exceptions, Exception(text)
        PROVE  SetUp' /\ Port'
    <2>1. mode = "boot" /\ pc = "ready"
      BY <1>5 DEF Exception, Begun, Types, Places, Printing
    <2> QED
      BY <1>5, <2>1 DEF Exception, Interrupt, SetUp, Port
  <1>6. CASE Nmi
    BY <1>6 DEF Nmi, Interrupt, SetUp, Port
  <1>7. CASE EnterKernel
    <2>1. chip' = [chip EXCEPT !.dlab = FALSE, !.loop = FALSE, !.hold = <<>>, !.rx = Nothing]
          /\ chip \in ChipType
      BY <1>7 DEF EnterKernel, Begun, Types
    <2>2. chip'.hold = <<>>
      BY <2>1 DEF ChipType
    <2> QED
      BY <1>7, <2>2 DEF EnterKernel, SetUp, Port
  <1>8. CASE UNCHANGED vars
    BY <1>8 DEF vars, SetUp, Port
  <1> QED
    BY <1>1, <1>2, <1>3, <1>4, <1>5, <1>6, <1>7, <1>8 DEF Next, Thread

-----------------------------------------------------------------------------
(* What the serial line carries.                                           *)

\* What the property says, with the text that comes before the latest.
Carried ==
    ~chip.dlab /\ ~chip.loop =>
        /\ mode \in {"boot", "exception"} => Sent = out
        /\ result = 0 => Sent = out \/ \E i \in 1 .. Len(out) : Sent = RemoveAt(out, i)
        /\ \E before \in Seq(Char) : Sent = before \o Latest

CarriedInv == PortInv /\ Carried

\* The end of a text follows something.
LEMMA EndFollows ==
    ASSUME NEW s \in Seq(Char), NEW n \in 0 .. Len(s)
    PROVE  \E before \in Seq(Char) : s = before \o SubSeq(s, n + 1, Len(s))
  <1> DEFINE before == SubSeq(s, 1, n)
             rest == SubSeq(s, n + 1, Len(s))
  <1>1. /\ Len(s) \in Nat /\ before \in Seq(Char) /\ Len(before) = n
        /\ rest \in Seq(Char) /\ Len(rest) = Len(s) - n
        /\ \A i \in 1 .. n : before[i] = s[i]
        /\ \A i \in 1 .. Len(s) - n : rest[i] = s[n + i]
    OBVIOUS
  <1> HIDE DEF before, rest
  <1>2. before \o rest \in Seq(Char) /\ Len(before \o rest) = Len(s)
    BY <1>1
  <1>3. ASSUME NEW i \in 1 .. Len(s)
        PROVE  (before \o rest)[i] = s[i]
    <2>1. CASE i <= n
      BY <1>1, <2>1
    <2>2. CASE i > n
      <3>1. i - n \in 1 .. Len(s) - n /\ n + (i - n) = i
        BY <1>1, <2>2
      <3>2. (before \o rest)[i] = rest[i - n]
        BY <1>1, <2>2
      <3> QED
        BY <1>1, <3>1, <3>2
    <2>3. i <= n \/ i > n
      BY <1>1
    <2> QED
      BY <2>1, <2>2, <2>3
  <1>4. before \o rest = s
    BY <1>2, <1>3, SeqEqual
  <1> QED
    BY <1>1, <1>4 DEF rest

LEMMA CarriedInit == Init => Carried
  <1> SUFFICES ASSUME Init
               PROVE  Carried
    OBVIOUS
  <1>1. line = <<>> /\ out = <<>> /\ chip.hold = <<>> /\ since = 0
    BY DEF Init, ChipState
  <1>2. Sent = <<>> /\ Latest = <<>> /\ <<>> = <<>> \o <<>> /\ <<>> \in Seq(Char)
    BY <1>1 DEF Sent, Latest
  <1> QED
    BY <1>1, <1>2 DEF Carried

\* A step that leaves the port and the printed text alone.
LEMMA CarriedKept ==
    ASSUME CarriedInv, Sent' = Sent, out' = out, since' = since, result' = result, mode' = mode,
           chip'.dlab = chip.dlab, chip'.loop = chip.loop
    PROVE  Carried'
  <1>1. Latest' = Latest
    BY DEF Latest
  <1> HIDE DEF Latest, Sent
  <1> QED
    BY <1>1 DEF CarriedInv, Carried

\* A handler begins.
LEMMA CarriedInterrupt ==
    ASSUME CarriedInv, NEW text, NEW m \in {"exception", "nmi"}, Interrupt(text, m),
           m = "exception" => mode = "boot"
    PROVE  Carried'
  <1>1. /\ chip' = chip /\ line' = line /\ out' = out /\ since' = Len(out)
        /\ result' = result /\ mode' = m
    BY DEF Interrupt
  <1>2. /\ out \in Seq(Char) /\ line \in Seq(Char) /\ chip \in ChipType /\ Len(out) \in Nat
    BY DEF CarriedInv, PortInv, Begun, Types
  <1>3. Latest' = <<>>
    BY <1>1, <1>2 DEF Latest
  <1>4. Sent' = Sent /\ Sent \in Seq(Char)
    <2>1. chip.hold \in Seq(Char)
      BY <1>2 DEF ChipType
    <2> QED
      BY <1>1, <1>2, <2>1 DEF Sent
  <1> HIDE DEF Latest, Sent
  <1>5. Sent = Sent \o <<>>
    BY <1>4
  <1> QED
    BY <1>1, <1>3, <1>4, <1>5 DEF CarriedInv, Carried

\* A character goes out; what is written is written to an empty buffer.
LEMMA CarriedSend ==
    ASSUME CarriedInv, SendChar
    PROVE  Carried'
  <1> DEFINE c == Head(todo)
  <1>1. /\ chip' = Data(c) /\ out' = Append(out, c) /\ line' = line /\ mode' = mode
        /\ result' = result /\ since' = since
    BY DEF SendChar
  <1>2. /\ c \in Char /\ out \in Seq(Char) /\ line \in Seq(Char) /\ chip \in ChipType
        /\ since \in 0 .. Len(out) /\ chip.hold = <<>>
    BY HeadTailProperties
       DEF SendChar, CarriedInv, PortInv, Port, Begun, Types, Places, Printing
  <1> HIDE DEF c
  <1>3. chip'.dlab = chip.dlab /\ chip'.loop = chip.loop
    BY <1>1, <1>2 DEF Data, ChipType
  <1>4. ~chip.dlab /\ ~chip.loop => chip'.hold = <<c>>
    BY <1>1, <1>2 DEF Data, ChipType
  <1> SUFFICES ASSUME ~chip.dlab, ~chip.loop
               PROVE  Carried'
    BY <1>3 DEF Carried
  <1>5. Sent = line /\ Sent' = Append(line, c)
    <2>1. line \o <<>> = line /\ line \o <<c>> = Append(line, c)
      BY <1>2, AppendIsConcat
    <2> QED
      BY <1>1, <1>2, <1>4, <2>1 DEF Sent
  <1>6. Latest' = Append(Latest, c) /\ Latest \in Seq(Char)
    <2>1. SubSeq(out', since + 1, Len(out')) = Append(SubSeq(out, since + 1, Len(out)), c)
      BY <1>1, <1>2, RestAppend
    <2>2. SubSeq(out, since + 1, Len(out)) \in Seq(Char)
      BY <1>2
    <2> QED
      BY <1>1, <2>1, <2>2, Zenon DEF Latest
  <1> HIDE DEF Sent, Latest
  <1>7. mode \in {"boot", "exception"} => Sent' = out'
    BY <1>1, <1>5 DEF CarriedInv, Carried
  <1>8. ASSUME result = 0
        PROVE  Sent' = out' \/ \E i \in 1 .. Len(out') : Sent' = RemoveAt(out', i)
    <2>1. CASE Sent = out
      BY <1>1, <1>5, <2>1
    <2>2. ASSUME NEW i \in 1 .. Len(out), Sent = RemoveAt(out, i)
          PROVE  \E j \in 1 .. Len(out') : Sent' = RemoveAt(out', j)
      <3>1. Sent' = RemoveAt(out', i)
        BY <1>1, <1>2, <1>5, <2>2, RemoveAtAppend
      <3>2. i \in 1 .. Len(out')
        BY <1>1, <1>2
      <3> QED
        BY <3>1, <3>2
    <2> QED
      BY <1>8, <2>1, <2>2 DEF CarriedInv, Carried
  <1>9. \E before \in Seq(Char) : Sent' = before \o Latest'
    <2>1. PICK before \in Seq(Char) : Sent = before \o Latest
      BY DEF CarriedInv, Carried
    <2>2. before \o Append(Latest, c) = Append(before \o Latest, c)
      BY <1>2, <1>6, ConcatAppend
    <2>3. Sent' = Append(before \o Latest, c)
      BY <1>5, <2>1
    <2> QED
      BY <1>6, <2>2, <2>3
  <1> QED
    BY <1>1, <1>7, <1>8, <1>9 DEF Carried

\* The kernel clears a character that has not gone out.
LEMMA CarriedKernel ==
    ASSUME CarriedInv, EnterKernel
    PROVE  Carried'
  <1>1. /\ out' = out /\ line' = line /\ mode' = "kernel" /\ result' = result
        /\ since' = Len(out)
        /\ chip' = [chip EXCEPT !.dlab = FALSE, !.loop = FALSE, !.hold = <<>>, !.rx = Nothing]
    BY DEF EnterKernel
  <1>2. /\ out \in Seq(Char) /\ line \in Seq(Char) /\ chip \in ChipType
        /\ mode = "boot" /\ pc # "init" /\ Len(out) \in Nat
    BY DEF EnterKernel, CarriedInv, PortInv, Begun, Types, Places, Printing
  <1>3. chip'.hold = <<>>
    BY <1>1, <1>2 DEF ChipType
  <1>4. Sent' = line
    BY <1>1, <1>2, <1>3 DEF Sent
  <1>5. Latest' = <<>>
    BY <1>1, <1>2 DEF Latest
  <1>6. ASSUME result = 0
        PROVE  line = out \/ \E i \in 1 .. Len(out) : line = RemoveAt(out, i)
    <2>1. line \o chip.hold = out
      BY <1>2, <1>6 DEF CarriedInv, PortInv, Port, Carried, Sent
    <2>2. CASE chip.hold = <<>>
      BY <1>2, <2>1, <2>2
    <2>3. ASSUME NEW c \in Char, chip.hold = <<c>>
          PROVE  \E i \in 1 .. Len(out) : line = RemoveAt(out, i)
      <3>1. out = Append(line, c)
        BY <1>2, <2>1, <2>3, AppendIsConcat
      <3>2. Len(line) + 1 \in 1 .. Len(out)
        BY <1>2, <3>1
      <3>3. line = RemoveAt(out, Len(line) + 1)
        BY <1>2, <3>1, RemoveAtEnd
      <3> QED
        BY <3>2, <3>3
    <2> QED
      BY <2>2, <2>3 DEF CarriedInv, PortInv, Port
  <1>7. line = line \o <<>>
    BY <1>2
  <1> HIDE DEF Sent, Latest
  <1> QED
    BY <1>1, <1>2, <1>4, <1>5, <1>6, <1>7 DEF Carried

\* While the port is set up nothing has been printed.
LEMMA CarriedSetUp ==
    ASSUME CarriedInv, InitSerial \/ TestSerial
    PROVE  Carried'
  <1>1. /\ pc = "init" /\ line' = line /\ out' = out /\ since' = since /\ mode' = mode
        /\ chip \in ChipType
    BY DEF InitSerial, TestSerial, CarriedInv, PortInv, Begun, Types
  <1>2. line = <<>> /\ out = <<>>
    BY <1>1 DEF CarriedInv, PortInv, SetUp
  <1>3. SetUp' /\ Port'
    BY PortStepInit, PortStepTest DEF CarriedInv
  <1>4. ASSUME ~chip'.loop
        PROVE  chip'.hold = <<>>
    <2>1. CASE InitSerial
      <3>1. step' \in 2 .. 7 /\ pc' = "init"
        BY <1>1, <2>1, SerialWritesAre DEF InitSerial, CarriedInv, PortInv
      <3>2. step' # 7
        BY <1>3, <1>4, <3>1 DEF SetUp
      <3> QED
        BY <1>3, <3>1, <3>2 DEF SetUp
    <2>2. CASE TestSerial
      <3>1. step = 7
        <4>1. Len(SerialWrites) = 6
          BY DEF SerialWrites
        <4> QED
          BY <2>2, <4>1 DEF CarriedInv, PortInv, TestSerial, Begun, Types, Places
      <3>2. chip.loop /\ (chip.rx = TestByte \/ chip.rx = Nothing)
            /\ (chip.rx = TestByte => chip.hold = <<>>)
        BY <1>1, <3>1, TextTypes DEF CarriedInv, PortInv, SetUp
      <3>3. chip.rx # TestByte => chip' = [chip EXCEPT !.rx = Nothing]
        BY <2>2 DEF TestSerial
      <3>4. chip.rx = TestByte
        BY <1>1, <1>4, <3>2, <3>3 DEF ChipType
      <3>5. chip' = [chip EXCEPT !.loop = FALSE, !.rx = Nothing]
        BY <2>2, <3>4 DEF TestSerial
      <3> QED
        BY <1>1, <3>2, <3>4, <3>5 DEF ChipType
    <2> QED
      BY <2>1, <2>2
  <1>5. since \in 0 .. Len(out)
    BY DEF CarriedInv, PortInv, Begun, Types
  <1>6. Latest' = <<>>
    BY <1>1, <1>2, <1>5 DEF Latest
  <1>7. ~chip'.loop => Sent' = <<>>
    BY <1>1, <1>2, <1>4 DEF Sent
  <1>8. <<>> = <<>> \o <<>> /\ <<>> \in Seq(Char)
    OBVIOUS
  <1> HIDE DEF Latest, Sent
  <1> QED
    BY <1>1, <1>2, <1>6, <1>7, <1>8 DEF Carried

LEMMA CarriedStep == CarriedInv /\ [Next]_vars => CarriedInv'
  <1> SUFFICES ASSUME CarriedInv, [Next]_vars
               PROVE  Carried'
    BY PortStep DEF CarriedInv
  <1>1. CASE InitSerial \/ TestSerial
    BY <1>1, CarriedSetUp
  <1>2. CASE Transmit
    <2>1. /\ chip \in ChipType /\ line \in Seq(Char)
          /\ out' = out /\ since' = since /\ result' = result /\ mode' = mode
      BY <1>2 DEF Transmit, CarriedInv, PortInv, Begun, Types
    <2>2. chip'.dlab = chip.dlab /\ chip'.loop = chip.loop /\ chip'.hold = <<>>
      BY <1>2, <2>1 DEF Transmit, ChipType
    <2>3. ASSUME ~chip.loop
          PROVE  Sent' = Sent
      <3>1. line' = line \o chip.hold
        BY <1>2, <2>3 DEF Transmit
      <3>2. line \o chip.hold \in Seq(Char)
        BY <2>1 DEF ChipType
      <3> QED
        BY <2>2, <3>1, <3>2 DEF Sent
    <2> HIDE DEF Sent
    <2>4. CASE chip.loop
      BY <2>2, <2>4 DEF Carried
    <2> QED
      BY <2>1, <2>2, <2>3, <2>4, CarriedKept
  <1>3. CASE SendChar
    BY <1>3, CarriedSend
  <1>4. CASE EnterKernel
    BY <1>4, CarriedKernel
  <1>5. CASE Nmi
    BY <1>5, CarriedInterrupt DEF Nmi
  <1>6. ASSUME NEW text \in Exceptions, Exception(text)
        PROVE  Carried'
    <2>1. mode = "boot"
      BY <1>6 DEF Exception, CarriedInv, PortInv, Begun, Types, Places, Printing
    <2> QED
      BY <1>6, <2>1, CarriedInterrupt DEF Exception
  <1>7. ASSUME chip' = chip, line' = line, out' = out, since' = since, result' = result,
               mode' = mode
        PROVE  Carried'
    <2>1. Sent' = Sent
      BY <1>7 DEF Sent
    <2> QED
      BY <1>7, <2>1, CarriedKept
  <1>8. ASSUME NEW text \in Texts, Puts(text)
        PROVE  Carried'
    BY <1>7, <1>8 DEF Puts
  <1>9. CASE Newline \/ ShiftRow \/ CarriageReturn \/ StoreCell \/ NextColumn \/ ShowGreeting
    BY <1>7, <1>9 DEF Newline, ShiftRow, CarriageReturn, StoreCell, NextColumn, ShowGreeting,
                      Printer
  <1>10. CASE WaitSerial
    BY <1>7, <1>10 DEF WaitSerial, Printer
  <1>11. CASE UNCHANGED vars
    BY <1>7, <1>11 DEF vars
  <1> QED
    BY <1>1, <1>2, <1>3, <1>4, <1>5, <1>6, <1>8, <1>9, <1>10, <1>11 DEF Next, Thread

LEMMA CarriedIsRight == CarriedInv => SerialCarriesText
  <1> SUFFICES ASSUME CarriedInv
               PROVE  SerialCarriesText
    OBVIOUS
  <1>1. ~chip.dlab /\ ~chip.loop => IsSuffix(Latest, Sent)
    <2>1. Latest \in Seq(Char)
      BY DEF Latest, CarriedInv, PortInv, Begun, Types
    <2> QED
      BY <2>1, EndIsSuffix DEF CarriedInv, Carried
  <1>2. mode \in {"boot", "exception"} /\ pc # "init" =>
          ~chip.dlab /\ (result = 0 <=> ~chip.loop) /\ (chip.prompt => result = 0)
    BY DEF CarriedInv, PortInv, Port
  <1> HIDE DEF Latest, Sent
  <1> QED
    BY <1>1, <1>2 DEF CarriedInv, Carried, SerialCarriesText

(***************************************************************************)
(* The serial line carries what puts and the handlers print: init_serial,  *)
(* serial_write_char and the kernel's driver lose nothing, but for the     *)
(* character that the driver clears and a port left in loopback.           *)
(***************************************************************************)
THEOREM SerialIsComplete == Spec => []SerialCarriesText
  <1>1. Init => CarriedInv
    BY BegunInit, PortInit, CarriedInit DEF CarriedInv, PortInv
  <1> QED
    BY <1>1, CarriedStep, CarriedIsRight, PTL DEF Spec

-----------------------------------------------------------------------------
(* What the screen shows.                                                  *)

Shows(text) == \A r \in 1 .. Rows : screen[r] = PaperRow(text, r)
At(text) == column_counter = Sheet(text).col

\* What has been printed when the character that is drawn has gone out.
Soon == Append(out, Head(todo))

\* Where the screen and the cursor are at each place of putc.
Drawn ==
    mode \in {"boot", "exception"} =>
        /\ pc \in {"init", "ready", "draw", "halted"} => Shows(out) /\ At(out)
        /\ pc = "newline" =>
             /\ Head(todo) = NL \/ Sheet(out).col = Cols
             /\ column_counter = 0
             /\ \A r \in 1 .. Rows :
                  screen[r] = PaperRow(out, IF r < step THEN r + 1 ELSE r)
        /\ pc = "advance" => Shows(Soon) /\ column_counter + 1 = Sheet(Soon).col
        /\ pc \in {"wait", "send"} => Shows(Soon) /\ At(Soon)

\* What the kernel leaves of it.
Greeted ==
    mode = "kernel" =>
        /\ \A r \in 2 .. Rows : screen[r] = PaperRow(SubSeq(out, 1, since), r)
        /\ pc = "show" => \A i \in 1 .. step - 1 : screen[1][i] = Greeting[i]
        /\ pc = "halted" => \A i \in 1 .. Len(Greeting) : screen[1][i] = Greeting[i]

ScreenInv == Begun /\ Drawn /\ Greeted

LEMMA ScreenInit == Init => Drawn /\ Greeted
  <1> SUFFICES ASSUME Init
               PROVE  Drawn /\ Greeted
    OBVIOUS
  <1>1. /\ screen = [r \in 1 .. Rows |-> OldRow] /\ column_counter = 0 /\ out = <<>>
        /\ pc = "init" /\ mode = "boot"
    BY DEF Init
  <1>2. ASSUME NEW r \in 1 .. Rows
        PROVE  PaperRow(<<>>, r) = OldRow
    <2>1. <<>> \in Seq(Char)
      OBVIOUS
    <2>2. PaperRow(<<>>, r) = RowOf(EmptySheet, r)
      BY <2>1, PaperRowIs, SheetOfEmpty
    <2> DEFINE above == [q \in 1 .. Rows - 1 |-> OldRow]
    <2>3. Len(above) = Rows - 1
      <3>1. Rows - 1 \in Nat /\ DOMAIN above = 1 .. Rows - 1
        BY RowTypes
      <3>2. above \in Seq(Row)
        <4>1. above \in [1 .. Rows - 1 -> Row]
          BY RowTypes
        <4> QED
          BY <3>1, <4>1
      <3> QED
        BY <3>1, <3>2
    <2>4. EmptySheet.above = above /\ EmptySheet.last = OldRow
      BY DEF EmptySheet
    <2> HIDE DEF above
    <2>5. CASE r = Rows
      BY <2>2, <2>4, <2>5 DEF RowOf
    <2>6. CASE r # Rows
      <3>1. Rows - 1 - Rows + 1 + r = r /\ r \in 1 .. Rows - 1
        BY <2>6, RowTypes
      <3>2. RowOf(EmptySheet, r) = above[r]
        BY <2>3, <2>4, <2>6, <3>1 DEF RowOf
      <3> QED
        BY <2>2, <3>1, <3>2 DEF above
    <2> QED
      BY <2>5, <2>6
  <1>3. Sheet(<<>>).col = 0
    BY SheetOfEmpty DEF EmptySheet
  <1>4. Shows(out) /\ At(out)
    BY <1>1, <1>2, <1>3 DEF Shows, At
  <1> HIDE DEF Shows, At
  <1> QED
    BY <1>1, <1>4 DEF Drawn, Greeted

\* What is there when a character is drawn.
LEMMA DrawTypes ==
    ASSUME Begun, pc \in Printing
    PROVE  /\ Head(todo) \in Char /\ out \in Seq(Char) /\ Soon \in Seq(Char)
           /\ screen \in [1 .. Rows -> Row] /\ column_counter \in 0 .. Cols
           /\ Sheet(out).col \in 0 .. Cols
           /\ \A r \in 1 .. Rows : PaperRow(out, r) \in Row
  <1>1. /\ todo \in Seq(Char) /\ todo # <<>> /\ out \in Seq(Char)
        /\ screen \in [1 .. Rows -> Row] /\ column_counter \in 0 .. Cols
    BY DEF Begun, Types, Places
  <1>2. Head(todo) \in Char
    BY <1>1, HeadTailProperties
  <1>3. Soon \in Seq(Char)
    BY <1>1, <1>2 DEF Soon
  <1>4. /\ Sheet(out).above \in Seq(Row) /\ Sheet(out).last \in Row
        /\ Sheet(out).col \in 0 .. Cols /\ Len(Sheet(out).above) >= Rows - 1
    BY <1>1, SheetHasType DEF SheetType
  <1>5. ASSUME NEW r \in 1 .. Rows
        PROVE  PaperRow(out, r) \in Row
    <2>1. PaperRow(out, r) = RowOf(Sheet(out), r)
      BY <1>1, PaperRowIs
    <2>2. r # Rows => Len(Sheet(out).above) - Rows + 1 + r \in 1 .. Len(Sheet(out).above)
      BY <1>4, RowTypes
    <2> QED
      BY <1>4, <2>1, <2>2 DEF RowOf
  <1> QED
    BY <1>1, <1>2, <1>3, <1>4, <1>5

LEMMA ScreenNewline ==
    ASSUME ScreenInv, Newline
    PROVE  Drawn' /\ Greeted'
  <1>1. /\ pc = "draw" /\ column_counter' = 0 /\ step' = 1 /\ pc' = "newline"
        /\ screen' = screen /\ out' = out /\ todo' = todo /\ mode' = mode
        /\ column_counter >= Cols \/ Head(todo) = NL
    BY DEF Newline, Printer
  <1>2. mode # "kernel"
    BY <1>1 DEF ScreenInv, Begun, Types, Places, Printing
  <1>3. column_counter \in 0 .. Cols
    BY <1>1 DEF ScreenInv, Begun, Types
  <1>4. Cols \in Nat
    BY RowTypes
  <1>5. ASSUME mode \in {"boot", "exception"}
        PROVE  /\ Head(todo) = NL \/ Sheet(out).col = Cols
               /\ \A r \in 1 .. Rows : screen[r] = PaperRow(out, IF r < 1 THEN r + 1 ELSE r)
    <2>1. Shows(out) /\ At(out)
      BY <1>1, <1>5 DEF ScreenInv, Drawn
    <2>2. \A r \in 1 .. Rows : ~(r < 1)
      OBVIOUS
    <2> QED
      BY <1>1, <1>3, <1>4, <2>1, <2>2 DEF Shows, At
  <1> QED
    BY <1>1, <1>2, <1>5 DEF Drawn, Greeted, Shows, At, Soon

LEMMA ScreenShift ==
    ASSUME ScreenInv, ShiftRow
    PROVE  Drawn' /\ Greeted'
  <1>1. /\ pc = "newline" /\ step' = step + 1 /\ column_counter' = column_counter
        /\ out' = out /\ todo' = todo /\ mode' = mode
    BY DEF ShiftRow, Printer
  <1>2. /\ mode # "kernel" /\ step \in 1 .. Rows
        /\ screen \in [1 .. Rows -> Row]
    BY <1>1 DEF ScreenInv, Begun, Types, Places, Printing
  <1>3. mode' = "kernel" <=> mode = "kernel"
    BY <1>1
  <1> SUFFICES ASSUME mode \in {"boot", "exception"}
               PROVE  Drawn'
    BY <1>1, <1>2 DEF Drawn, Greeted
  <1>4. /\ Head(todo) = NL \/ Sheet(out).col = Cols
        /\ column_counter = 0
        /\ \A r \in 1 .. Rows : screen[r] = PaperRow(out, IF r < step THEN r + 1 ELSE r)
    BY <1>1 DEF ScreenInv, Drawn
  <1>5. CASE step < Rows
    <2>1. screen' = [screen EXCEPT ![step] = screen[step + 1]] /\ pc' = "newline"
      BY <1>1, <1>5 DEF ShiftRow
    <2>2. ASSUME NEW r \in 1 .. Rows
          PROVE  screen'[r] = PaperRow(out, IF r < step + 1 THEN r + 1 ELSE r)
      <3>1. CASE r = step
        <4>1. step + 1 \in 1 .. Rows /\ ~(step + 1 < step) /\ r < step + 1
          BY <1>2, <1>5, <3>1, RowTypes
        <4>2. screen'[r] = screen[step + 1]
          BY <1>2, <2>1, <3>1
        <4> QED
          BY <1>4, <3>1, <4>1, <4>2
      <3>2. CASE r # step
        <4>1. screen'[r] = screen[r]
          BY <1>2, <2>1, <3>2
        <4>2. r < step + 1 <=> r < step
          BY <1>2, <3>2
        <4> QED
          BY <1>4, <4>1, <4>2
      <3> QED
        BY <3>1, <3>2
    <2> QED
      BY <1>1, <1>4, <2>1, <2>2 DEF Drawn
  <1>6. CASE ~(step < Rows)
    <2>1. screen' = [screen EXCEPT ![Rows] = BlankRow] /\ pc' = "wait" /\ step = Rows
      BY <1>1, <1>2, <1>6, RowTypes DEF ShiftRow
    <2>2. Head(todo) \in Char /\ out \in Seq(Char)
      BY <1>1, DrawTypes DEF ScreenInv, Printing
    <2>3. /\ \A r \in 1 .. Rows - 1 : PaperRow(Soon, r) = PaperRow(out, r + 1)
          /\ PaperRow(Soon, Rows) = BlankRow
          /\ Sheet(Soon).col = 0
      BY <1>4, <2>2, LineEnds DEF Soon
    <2>4. Soon' = Soon
      BY <1>1 DEF Soon
    <2> HIDE DEF Soon
    <2>5. ASSUME NEW r \in 1 .. Rows
          PROVE  screen'[r] = PaperRow(Soon, r)
      <3>1. CASE r = Rows
        BY <1>2, <2>1, <2>3, <3>1
      <3>2. CASE r # Rows
        <4>1. screen'[r] = screen[r] /\ r \in 1 .. Rows - 1 /\ r < step
          BY <1>2, <2>1, <3>2
        <4> QED
          BY <1>4, <2>3, <4>1
      <3> QED
        BY <3>1, <3>2
    <2>6. Shows(Soon)' /\ At(Soon)'
      BY <1>1, <1>4, <2>3, <2>4, <2>5 DEF Shows, At
    <2> HIDE DEF Shows, At
    <2> QED
      BY <2>1, <2>6 DEF Drawn
  <1> QED
    BY <1>5, <1>6

LEMMA ScreenDraw ==
    ASSUME ScreenInv, CarriageReturn \/ StoreCell
    PROVE  Drawn' /\ Greeted'
  <1> DEFINE c == Head(todo)
  <1>1. /\ pc = "draw" /\ c # NL /\ column_counter < Cols
        /\ out' = out /\ todo' = todo /\ mode' = mode
    BY RowTypes DEF CarriageReturn, StoreCell, Printer
  <1>2. /\ c \in Char /\ out \in Seq(Char) /\ Soon \in Seq(Char)
        /\ screen \in [1 .. Rows -> Row] /\ column_counter \in 0 .. Cols
        /\ \A r \in 1 .. Rows : PaperRow(out, r) \in Row
    BY <1>1, DrawTypes DEF ScreenInv, Printing
  <1>3. mode # "kernel"
    BY <1>1 DEF ScreenInv, Begun, Types, Places, Printing
  <1> SUFFICES ASSUME mode \in {"boot", "exception"}
               PROVE  Drawn'
    BY <1>1, <1>3 DEF Drawn, Greeted
  <1>4. Shows(out) /\ At(out)
    BY <1>1 DEF ScreenInv, Drawn
  <1>5. Sheet(out).col # Cols /\ column_counter = Sheet(out).col
    BY <1>1, <1>2, <1>4, RowTypes DEF At
  <1>6. /\ \A r \in 1 .. Rows - 1 : PaperRow(Soon, r) = PaperRow(out, r)
        /\ PaperRow(Soon, Rows) =
             IF c = CR THEN PaperRow(out, Rows)
             ELSE [PaperRow(out, Rows) EXCEPT ![Sheet(out).col + 1] = c]
        /\ Sheet(Soon).col = IF c = CR THEN 0 ELSE Sheet(out).col + 1
    BY <1>1, <1>2, <1>5, LineGoesOn DEF Soon
  <1>7. Soon' = Soon
    BY <1>1 DEF Soon
  <1>8. Rows \in 1 .. Rows /\ \A r \in 1 .. Rows : r # Rows => r \in 1 .. Rows - 1
    BY RowTypes
  <1> HIDE DEF Soon, c
  <1>9. CASE CarriageReturn
    <2>1. column_counter' = 0 /\ pc' = "wait" /\ screen' = screen /\ c = CR
      BY <1>9 DEF CarriageReturn, c
    <2>2. Shows(Soon)'
      BY <1>4, <1>6, <1>7, <1>8, <2>1 DEF Shows
    <2>3. At(Soon)'
      BY <1>6, <1>7, <2>1 DEF At
    <2> HIDE DEF Shows, At
    <2> QED
      BY <2>1, <2>2, <2>3 DEF Drawn
  <1>10. CASE StoreCell
    <2>1. /\ screen' = [screen EXCEPT ![Rows][column_counter + 1] = c]
          /\ pc' = "advance" /\ column_counter' = column_counter /\ c # CR
      BY <1>10 DEF StoreCell, c
    <2>2. screen'[Rows] = [screen[Rows] EXCEPT ![column_counter + 1] = c]
      BY <1>2, <1>8, <2>1
    <2>3. \A r \in 1 .. Rows : r # Rows => screen'[r] = screen[r]
      BY <1>2, <2>1
    <2>4. ASSUME NEW r \in 1 .. Rows
          PROVE  screen'[r] = PaperRow(Soon, r)
      <3>1. screen[r] = PaperRow(out, r)
        BY <1>4 DEF Shows
      <3>2. CASE r = Rows
        BY <1>5, <1>6, <2>1, <2>2, <3>1, <3>2
      <3>3. CASE r # Rows
        BY <1>6, <1>8, <2>3, <3>1, <3>3
      <3> QED
        BY <3>2, <3>3
    <2>5. Shows(Soon)'
      BY <1>7, <2>4 DEF Shows
    <2>6. column_counter' + 1 = Sheet(Soon').col
      BY <1>5, <1>6, <1>7, <2>1
    <2> HIDE DEF Shows
    <2> QED
      BY <2>1, <2>5, <2>6 DEF Drawn
  <1> QED
    BY <1>9, <1>10

LEMMA ScreenSend ==
    ASSUME ScreenInv, SendChar
    PROVE  Drawn' /\ Greeted'
  <1> DEFINE c == Head(todo)
  <1>1. /\ pc = "send" /\ out' = Append(out, c) /\ step' = 1 /\ mode' = mode
        /\ screen' = screen /\ column_counter' = column_counter /\ since' = since
    BY DEF SendChar
  <1>2. c \in Char /\ out \in Seq(Char)
    BY <1>1, DrawTypes DEF ScreenInv, Printing
  <1>3. since \in 0 .. Len(out)
    BY DEF ScreenInv, Begun, Types
  <1>4. out' = Soon
    BY <1>1 DEF Soon
  <1>5. /\ mode = "boot" => pc' \in {"draw", "ready"}
        /\ mode = "exception" => pc' \in {"draw", "halted"}
        /\ mode = "kernel" => pc' \in {"wait", "show"}
    BY Zenon DEF SendChar
  <1>6. Drawn'
    <2>1. ASSUME mode \in {"boot", "exception"}
          PROVE  Shows(out)' /\ At(out)'
      <3>1. Shows(Soon) /\ At(Soon)
        BY <1>1, <2>1 DEF ScreenInv, Drawn
      <3> QED
        BY <1>1, <1>4, <3>1 DEF Shows, At
    <2> HIDE DEF Shows, At, Soon
    <2> QED
      BY <1>1, <1>5, <2>1 DEF Drawn
  <1>7. Greeted'
    <2>1. SubSeq(out', 1, since') = SubSeq(out, 1, since)
      BY <1>1, <1>2, <1>3, BeginAppend
    <2>2. 1 .. 1 - 1 = {}
      OBVIOUS
    <2> QED
      BY <1>1, <1>5, <2>1, <2>2 DEF Greeted, ScreenInv
  <1> QED
    BY <1>6, <1>7

LEMMA ScreenKernel ==
    ASSUME ScreenInv, EnterKernel
    PROVE  Drawn' /\ Greeted'
  <1>1. /\ mode' = "kernel" /\ pc' = "wait" /\ since' = Len(out) /\ out' = out
        /\ screen' = screen /\ pc = "ready"
    BY DEF EnterKernel
  <1>2. mode = "boot" /\ out \in Seq(Char)
    BY <1>1 DEF ScreenInv, Begun, Types, Places, Printing
  <1>3. SubSeq(out', 1, since') = out
    BY <1>1, <1>2, SubSeqFull
  <1>4. Shows(out)
    BY <1>1, <1>2 DEF ScreenInv, Drawn
  <1>5. \A r \in 2 .. Rows : r \in 1 .. Rows
    OBVIOUS
  <1>6. \A r \in 2 .. Rows : screen'[r] = PaperRow(SubSeq(out', 1, since'), r)
    BY <1>1, <1>3, <1>4, <1>5 DEF Shows
  <1> QED
    BY <1>1, <1>6 DEF Drawn, Greeted

LEMMA ScreenGreeting ==
    ASSUME ScreenInv, ShowGreeting
    PROVE  Drawn' /\ Greeted'
  <1>1. /\ pc = "show" /\ step' = step + 1 /\ out' = out /\ since' = since /\ mode' = mode
        /\ screen' = [screen EXCEPT ![1][step] = Greeting[step]]
        /\ pc' = IF step = Len(Greeting) THEN "halted" ELSE "show"
    BY DEF ShowGreeting, Printer
  <1>2. /\ mode = "kernel" /\ step \in 1 .. Len(Greeting) /\ Len(Greeting) \in 1 .. Cols
        /\ screen \in [1 .. Rows -> Row]
    BY <1>1, TextTypes DEF ScreenInv, Begun, Types, Places, Printing
  <1>3. 1 \in 1 .. Rows /\ step \in 1 .. Cols /\ \A r \in 2 .. Rows : r \in 1 .. Rows /\ r # 1
    BY <1>2, RowTypes
  <1>4. screen'[1] = [screen[1] EXCEPT ![step] = Greeting[step]]
        /\ \A r \in 2 .. Rows : screen'[r] = screen[r]
    BY <1>1, <1>2, <1>3
  <1>5. /\ \A r \in 2 .. Rows : screen[r] = PaperRow(SubSeq(out, 1, since), r)
        /\ \A i \in 1 .. step - 1 : screen[1][i] = Greeting[i]
    BY <1>1, <1>2 DEF ScreenInv, Greeted
  <1>6. screen[1] \in [1 .. Cols -> Char]
    BY <1>2, <1>3 DEF Row
  <1>7. ASSUME NEW i \in 1 .. step
        PROVE  screen'[1][i] = Greeting[i]
    <2>1. i \in 1 .. Cols
      <3>1. step \in Nat /\ step <= Cols /\ Cols \in Nat
        BY <1>3, RowTypes
      <3> QED
        BY <3>1
    <2>2. CASE i = step
      BY <1>4, <1>6, <2>1, <2>2
    <2>3. CASE i # step
      <3>1. i \in 1 .. step - 1
        BY <1>2, <2>3
      <3> QED
        BY <1>4, <1>5, <1>6, <2>1, <2>3, <3>1
    <2> QED
      BY <2>2, <2>3
  <1>8. (step + 1) - 1 = step
    BY <1>2
  <1>9. \A r \in 2 .. Rows : screen'[r] = PaperRow(SubSeq(out', 1, since'), r)
    BY <1>1, <1>4, <1>5
  <1>10. pc' = "show" => \A i \in 1 .. step' - 1 : screen'[1][i] = Greeting[i]
    BY <1>1, <1>7, <1>8
  <1>11. pc' = "halted" => \A i \in 1 .. Len(Greeting) : screen'[1][i] = Greeting[i]
    BY <1>1, <1>7
  <1> QED
    BY <1>1, <1>2, <1>9, <1>10, <1>11 DEF Drawn, Greeted

LEMMA ScreenStep == ScreenInv /\ [Next]_vars => ScreenInv'
  <1> SUFFICES ASSUME ScreenInv, [Next]_vars
               PROVE  Drawn' /\ Greeted'
    BY BegunStep DEF ScreenInv
  <1>1. CASE Newline
    BY <1>1, ScreenNewline
  <1>2. CASE ShiftRow
    BY <1>2, ScreenShift
  <1>3. CASE CarriageReturn \/ StoreCell
    BY <1>3, ScreenDraw
  <1>4. CASE SendChar
    BY <1>4, ScreenSend
  <1>5. CASE EnterKernel
    BY <1>5, ScreenKernel
  <1>6. CASE ShowGreeting
    BY <1>6, ScreenGreeting
  <1>7. CASE InitSerial \/ TestSerial
    <2>1. /\ pc = "init" /\ pc' \in {"init", "ready"} /\ mode' = mode /\ out' = out
          /\ screen' = screen /\ column_counter' = column_counter /\ mode = "boot"
      BY <1>7 DEF InitSerial, TestSerial, ScreenInv, Begun, Types, Places, Printing
    <2> QED
      BY <2>1 DEF ScreenInv, Drawn, Greeted, Shows, At
  <1>8. CASE NextColumn
    BY <1>8 DEF NextColumn, Printer, ScreenInv, Drawn, Greeted, Shows, At, Soon
  <1>9. CASE WaitSerial
    BY <1>9 DEF WaitSerial, Printer, ScreenInv, Drawn, Greeted, Shows, At, Soon
  <1>10. CASE Transmit
    BY <1>10 DEF Transmit, ScreenInv, Drawn, Greeted, Shows, At, Soon
  <1>11. ASSUME NEW text \in Texts, Puts(text)
         PROVE  Drawn' /\ Greeted'
    <2>1. mode = "boot" /\ pc = "ready"
      BY <1>11 DEF Puts, ScreenInv, Begun, Types, Places, Printing
    <2> QED
      BY <1>11, <2>1 DEF Puts, ScreenInv, Drawn, Greeted, Shows, At
  <1>12. ASSUME NEW text \in Exceptions, Exception(text)
         PROVE  Drawn' /\ Greeted'
    <2>1. mode = "boot" /\ pc = "ready"
      BY <1>12 DEF Exception, ScreenInv, Begun, Types, Places, Printing
    <2> QED
      BY <1>12, <2>1 DEF Exception, Interrupt, ScreenInv, Drawn, Greeted, Shows, At
  <1>13. CASE Nmi
    BY <1>13 DEF Nmi, Interrupt, Drawn, Greeted
  <1>14. CASE UNCHANGED vars
    BY <1>14 DEF vars, ScreenInv, Drawn, Greeted, Shows, At, Soon
  <1> QED
    BY <1>1, <1>2, <1>3, <1>4, <1>5, <1>6, <1>7, <1>8, <1>9, <1>10, <1>11, <1>12, <1>13, <1>14
       DEF Next, Thread

LEMMA ScreenIsRight == ScreenInv => ScreenShowsText
  <1> SUFFICES ASSUME ScreenInv
               PROVE  ScreenShowsText
    OBVIOUS
  <1> QED
    BY DEF ScreenInv, Drawn, Greeted, Shows, ScreenShowsText

(***************************************************************************)
(* The screen shows the last rows of the text: draw_char and newline, a    *)
(* row at a time, do what a paper as long as the text would, and the       *)
(* kernel's greeting changes the top row only.                             *)
(***************************************************************************)
THEOREM ScreenIsPaper == Spec => []ScreenShowsText
  <1>1. Init => ScreenInv
    BY BegunInit, ScreenInit DEF ScreenInv
  <1> QED
    BY <1>1, ScreenStep, ScreenIsRight, PTL DEF Spec

-----------------------------------------------------------------------------
(* The message of a handler.                                               *)

\* The text stands before column col of the last row, or its first characters
\* at the end of the row above, one is missing, and the rest in the last row.
Placed(text, col) ==
    \/ /\ Len(text) <= col
       /\ \A i \in 1 .. Len(text) : screen[Rows][col - Len(text) + i] = text[i]
    \/ \E j \in 1 .. Len(text) :
         /\ j <= Cols + 1 /\ col = Len(text) - j
         /\ \A i \in 1 .. j - 1 : screen[Rows - 1][Cols - (j - 1) + i] = text[i]
         /\ \A i \in 1 .. col : screen[Rows][i] = text[j + i]

\* The message with the character that is drawn.
Longer == Append(Latest, Head(todo))

\* Where the message is at each place of putc, when a handler prints it.
Message ==
    mode \in {"exception", "nmi"} =>
        /\ Len(Latest) + Len(todo) <= Cols + 1
        /\ \A i \in 1 .. Len(todo) : todo[i] \notin {NL, CR}
        /\ pc \in {"draw", "halted"} => Placed(Latest, column_counter)
        /\ pc = "newline" =>
             /\ column_counter = 0 /\ Len(Latest) <= Cols
             /\ \A i \in 1 .. Len(Latest) : screen[Rows][Cols - Len(Latest) + i] = Latest[i]
             /\ step = Rows => screen[Rows - 1] = screen[Rows]
        /\ pc = "advance" => Placed(Longer, column_counter + 1)
        /\ pc \in {"wait", "send"} => Placed(Longer, column_counter)

MessageInv == Begun /\ Message

LEMMA MessageInit == Init => Message
  BY DEF Init, Message

\* What is there while a handler prints.
LEMMA HandlerTypes ==
    ASSUME MessageInv, mode \in {"exception", "nmi"}, pc \in Printing
    PROVE  /\ Latest \in Seq(Char) /\ Longer \in Seq(Char) /\ Head(todo) \in Char
           /\ Head(todo) \notin {NL, CR} /\ Len(Latest) \in 0 .. Cols
           /\ Len(Longer) = Len(Latest) + 1 /\ Longer[Len(Latest) + 1] = Head(todo)
           /\ \A i \in 1 .. Len(Latest) : Longer[i] = Latest[i]
           /\ screen \in [1 .. Rows -> Row] /\ column_counter \in 0 .. Cols
  <1>1. /\ todo \in Seq(Char) /\ todo # <<>> /\ out \in Seq(Char)
        /\ screen \in [1 .. Rows -> Row] /\ column_counter \in 0 .. Cols
        /\ since \in 0 .. Len(out)
    BY DEF MessageInv, Begun, Types, Places
  <1>2. Head(todo) \in Char /\ Len(todo) \in Nat \ {0} /\ Head(todo) = todo[1]
    BY <1>1, HeadTailProperties, EmptySeq
  <1>3. Latest \in Seq(Char)
    BY <1>1 DEF Latest
  <1> HIDE DEF Latest
  <1>4. Len(Latest) + Len(todo) <= Cols + 1 /\ \A i \in 1 .. Len(todo) : todo[i] \notin {NL, CR}
    BY DEF MessageInv, Message
  <1>5. Len(Latest) \in 0 .. Cols
    BY <1>2, <1>3, <1>4, RowTypes
  <1>6. Head(todo) \notin {NL, CR}
    BY <1>2, <1>4
  <1>7. /\ Longer \in Seq(Char)
        /\ Len(Longer) = Len(Latest) + 1 /\ Longer[Len(Latest) + 1] = Head(todo)
        /\ \A i \in 1 .. Len(Latest) : Longer[i] = Latest[i]
    BY <1>2, <1>3 DEF Longer
  <1> QED
    BY <1>1, <1>2, <1>3, <1>5, <1>6, <1>7

\* A step that leaves the screen and the text alone.
LEMMA MessageKept ==
    ASSUME MessageInv, screen' = screen, out' = out, todo' = todo, since' = since, mode' = mode,
           \/ column_counter' = column_counter /\ step' = step
              /\ (pc' = pc \/ (pc = "wait" /\ pc' = "send"))
           \/ pc = "advance" /\ pc' = "wait" /\ column_counter' = column_counter + 1
    PROVE  Message'
  <1>1. Latest' = Latest /\ Longer' = Longer
    BY DEF Latest, Longer
  <1>2. /\ Placed(Latest, column_counter)' <=> Placed(Latest, column_counter')
        /\ Placed(Longer, column_counter)' <=> Placed(Longer, column_counter')
        /\ Placed(Longer, column_counter + 1)' <=> Placed(Longer, column_counter' + 1)
    <2> HIDE DEF Latest, Longer
    <2> QED
      BY <1>1 DEF Placed
  <1> HIDE DEF Latest, Longer, Placed
  <1>3. CASE column_counter' = column_counter /\ step' = step /\ pc' = pc
    BY <1>1, <1>2, <1>3 DEF MessageInv, Message
  <1>4. CASE column_counter' = column_counter /\ pc = "wait" /\ pc' = "send"
    BY <1>1, <1>2, <1>4 DEF MessageInv, Message
  <1>5. CASE pc = "advance" /\ pc' = "wait" /\ column_counter' = column_counter + 1
    BY <1>1, <1>2, <1>5 DEF MessageInv, Message
  <1> QED
    BY <1>3, <1>4, <1>5

LEMMA MessageBegins ==
    ASSUME Begun, MessagesFit, NEW text \in Exceptions \cup {NmiText}, NEW m, Interrupt(text, m)
    PROVE  Message'
  <1>1. /\ todo' = text /\ pc' = "draw" /\ since' = Len(out) /\ out' = out
        /\ screen' = screen /\ column_counter' = column_counter
    BY DEF Interrupt
  <1>2. /\ text \in Seq(Char) /\ Len(text) <= Cols + 1
        /\ \A i \in 1 .. Len(text) : text[i] \notin {NL, CR}
    BY TextTypes DEF MessagesFit
  <1>3. out \in Seq(Char) /\ Len(out) \in Nat /\ column_counter \in 0 .. Cols
    BY DEF Begun, Types
  <1>4. Latest' = <<>>
    BY <1>1, <1>3 DEF Latest
  <1>5. Placed(Latest, column_counter)'
    <2>1. Len(<<>>) = 0
      OBVIOUS
    <2>2. Len(Latest') <= column_counter' /\ 1 .. Len(Latest') = {}
      BY <1>1, <1>3, <1>4, <2>1
    <2> HIDE DEF Latest
    <2> QED
      BY <2>2 DEF Placed
  <1>6. Len(Latest') + Len(todo') <= Cols + 1
    BY <1>1, <1>2, <1>4, RowTypes
  <1> HIDE DEF Latest, Placed
  <1> QED
    BY <1>1, <1>2, <1>5, <1>6 DEF Message

LEMMA MessageNewline ==
    ASSUME MessageInv, Newline
    PROVE  Message'
  <1> SUFFICES ASSUME mode \in {"exception", "nmi"}
               PROVE  Message'
    BY DEF Newline, Printer, Message
  <1>1. /\ pc = "draw" /\ column_counter' = 0 /\ step' = 1 /\ pc' = "newline"
        /\ screen' = screen /\ out' = out /\ todo' = todo /\ mode' = mode /\ since' = since
        /\ column_counter >= Cols \/ Head(todo) = NL
    BY DEF Newline, Printer
  <1>2. /\ Latest \in Seq(Char) /\ Head(todo) \notin {NL, CR} /\ Len(Latest) \in 0 .. Cols
        /\ column_counter \in 0 .. Cols
    BY <1>1, HandlerTypes DEF Printing
  <1>3. column_counter = Cols
    BY <1>1, <1>2, RowTypes
  <1>4. Placed(Latest, Cols)
    BY <1>1, <1>3 DEF MessageInv, Message
  <1>5. Latest' = Latest
    BY <1>1 DEF Latest
  <1> HIDE DEF Latest
  <1>6. \A i \in 1 .. Len(Latest) : screen[Rows][Cols - Len(Latest) + i] = Latest[i]
    <2>1. \A j \in 1 .. Len(Latest) : Cols # Len(Latest) - j
      BY <1>2, RowTypes
    <2> QED
      BY <1>4, <2>1 DEF Placed
  <1>7. 1 # Rows
    BY RowTypes
  <1> QED
    BY <1>1, <1>2, <1>5, <1>6, <1>7 DEF MessageInv, Message

LEMMA MessageShift ==
    ASSUME MessageInv, ShiftRow
    PROVE  Message'
  <1> SUFFICES ASSUME mode \in {"exception", "nmi"}
               PROVE  Message'
    BY DEF ShiftRow, Printer, Message
  <1>1. /\ pc = "newline" /\ step' = step + 1 /\ column_counter' = column_counter
        /\ out' = out /\ todo' = todo /\ mode' = mode /\ since' = since
    BY DEF ShiftRow, Printer
  <1>2. /\ Latest \in Seq(Char) /\ Longer \in Seq(Char) /\ Len(Latest) \in 0 .. Cols
        /\ Len(Longer) = Len(Latest) + 1
        /\ \A i \in 1 .. Len(Latest) : Longer[i] = Latest[i]
        /\ screen \in [1 .. Rows -> Row]
    BY <1>1, HandlerTypes DEF Printing
  <1>3. /\ column_counter = 0 /\ Len(Latest) <= Cols
        /\ \A i \in 1 .. Len(Latest) : screen[Rows][Cols - Len(Latest) + i] = Latest[i]
        /\ step = Rows => screen[Rows - 1] = screen[Rows]
        /\ Len(Latest) + Len(todo) <= Cols + 1
        /\ \A i \in 1 .. Len(todo) : todo[i] \notin {NL, CR}
    BY <1>1 DEF MessageInv, Message
  <1>4. Latest' = Latest /\ Longer' = Longer
    BY <1>1 DEF Latest, Longer
  <1> HIDE DEF Latest, Longer
  <1>5. step \in 1 .. Rows /\ Rows - 1 \in 1 .. Rows /\ Rows \in 1 .. Rows /\ Rows - 1 # Rows
    BY <1>1, RowTypes DEF MessageInv, Begun, Places
  <1>6. CASE step < Rows
    <2>1. screen' = [screen EXCEPT ![step] = screen[step + 1]] /\ pc' = "newline"
      BY <1>1, <1>6 DEF ShiftRow
    <2>2. screen'[Rows] = screen[Rows]
      BY <1>2, <1>5, <1>6, <2>1
    <2>3. step' = Rows => screen'[Rows - 1] = screen[Rows]
      <3>1. step + 1 = Rows => step = Rows - 1
        BY <1>5, RowTypes
      <3> QED
        BY <1>1, <1>2, <1>5, <2>1, <3>1
    <2> QED
      BY <1>1, <1>3, <1>4, <2>1, <2>2, <2>3 DEF Message
  <1>7. CASE ~(step < Rows)
    <2>1. screen' = [screen EXCEPT ![Rows] = BlankRow] /\ pc' = "wait"
      BY <1>1, <1>7 DEF ShiftRow
    <2>2. step = Rows
      BY <1>5, <1>7, RowTypes
    <2>3. screen'[Rows - 1] = screen[Rows]
      BY <1>2, <1>3, <1>5, <2>1, <2>2
    <2>4. Placed(Longer, column_counter)'
      <3> DEFINE j == Len(Latest) + 1
      <3>1. j \in 1 .. Len(Longer) /\ j <= Cols + 1 /\ 0 = Len(Longer) - j /\ j - 1 = Len(Latest)
        BY <1>2, RowTypes
      <3> HIDE DEF j
      <3>2. \A i \in 1 .. j - 1 : screen'[Rows - 1][Cols - (j - 1) + i] = Longer[i]
        BY <1>2, <1>3, <2>3, <3>1
      <3>3. 1 .. 0 = {}
        OBVIOUS
      <3>4. column_counter' = 0
        BY <1>1, <1>3
      <3> QED
        BY <1>4, <3>1, <3>2, <3>3, <3>4 DEF Placed
    <2> HIDE DEF Placed
    <2> QED
      BY <1>1, <1>3, <1>4, <2>1, <2>4 DEF Message
  <1> QED
    BY <1>6, <1>7

LEMMA MessageStore ==
    ASSUME MessageInv, CarriageReturn \/ StoreCell
    PROVE  Message'
  <1> SUFFICES ASSUME mode \in {"exception", "nmi"}
               PROVE  Message'
    BY DEF CarriageReturn, StoreCell, Printer, Message
  <1> DEFINE c == Head(todo)
             col == column_counter
             n == Len(Latest)
  <1>1. pc = "draw" /\ col < Cols
    BY DEF CarriageReturn, StoreCell
  <1>2. /\ Latest \in Seq(Char) /\ c \notin {NL, CR} /\ n \in 0 .. Cols
        /\ Len(Longer) = n + 1 /\ Longer[n + 1] = c
        /\ \A i \in 1 .. n : Longer[i] = Latest[i]
        /\ screen \in [1 .. Rows -> Row] /\ col \in 0 .. Cols
    BY <1>1, HandlerTypes DEF Printing
  <1>3. StoreCell
    BY <1>2 DEF CarriageReturn
  <1>4. /\ screen' = [screen EXCEPT ![Rows][col + 1] = c] /\ pc' = "advance"
        /\ column_counter' = col /\ out' = out /\ todo' = todo /\ mode' = mode /\ since' = since
    BY <1>3 DEF StoreCell, Printer
  <1>5. Latest' = Latest /\ Longer' = Longer
    BY <1>4 DEF Latest, Longer
  <1>6. Placed(Latest, col)
    BY <1>1 DEF MessageInv, Message
  <1>7. /\ Len(Latest) + Len(todo) <= Cols + 1
        /\ \A i \in 1 .. Len(todo) : todo[i] \notin {NL, CR}
    BY DEF MessageInv, Message
  <1> HIDE DEF Latest, Longer, c, col
  <1>8. Rows \in 1 .. Rows /\ Rows - 1 \in 1 .. Rows /\ Rows - 1 # Rows /\ Cols \in Nat
    BY RowTypes
  <1>9. /\ screen'[Rows - 1] = screen[Rows - 1]
        /\ screen'[Rows] = [screen[Rows] EXCEPT ![col + 1] = c]
        /\ screen[Rows] \in [1 .. Cols -> Char]
    BY <1>2, <1>4, <1>8 DEF Row
  <1>10. /\ \A i \in 1 .. col : screen'[Rows][i] = screen[Rows][i]
         /\ screen'[Rows][col + 1] = c
    <2>1. col + 1 \in 1 .. Cols /\ \A i \in 1 .. col : i \in 1 .. Cols /\ i # col + 1
      BY <1>1, <1>2, <1>8
    <2> QED
      BY <1>9, <2>1
  <1> HIDE DEF n
  <1>11. CASE n <= col /\ \A i \in 1 .. n : screen[Rows][col - n + i] = Latest[i]
    <2>1. n + 1 <= col + 1
      BY <1>2, <1>11
    <2>2. ASSUME NEW i \in 1 .. n + 1
          PROVE  screen'[Rows][(col + 1) - (n + 1) + i] = Longer[i]
      <3>1. (col + 1) - (n + 1) + i = col - n + i
        BY <1>2
      <3>2. CASE i = n + 1
        <4>1. col - n + i = col + 1
          BY <1>2, <3>2
        <4> QED
          BY <1>2, <1>10, <3>1, <3>2, <4>1
      <3>3. CASE i # n + 1
        <4>1. i \in 1 .. n /\ col - n + i \in 1 .. col
          BY <1>2, <1>11, <3>3
        <4> QED
          BY <1>2, <1>10, <1>11, <3>1, <4>1
      <3> QED
        BY <3>2, <3>3
    <2> QED
      BY <1>2, <1>4, <1>5, <1>7, <2>1, <2>2 DEF Message, Placed, n, col
  <1>12. ASSUME NEW j \in 1 .. n, j <= Cols + 1, col = n - j,
                \A i \in 1 .. j - 1 : screen[Rows - 1][Cols - (j - 1) + i] = Latest[i],
                \A i \in 1 .. col : screen[Rows][i] = Latest[j + i]
         PROVE  Message'
    <2>1. j \in 1 .. n + 1 /\ col + 1 = (n + 1) - j
      BY <1>2, <1>12
    <2>2. \A i \in 1 .. j - 1 : screen'[Rows - 1][Cols - (j - 1) + i] = Longer[i]
      <3>1. \A i \in 1 .. j - 1 : i \in 1 .. n
        BY <1>2
      <3> QED
        BY <1>2, <1>9, <1>12, <3>1
    <2>3. ASSUME NEW i \in 1 .. col + 1
          PROVE  screen'[Rows][i] = Longer[j + i]
      <3>1. CASE i = col + 1
        <4>1. j + i = n + 1
          BY <1>2, <1>12, <3>1
        <4> QED
          BY <1>2, <1>10, <3>1, <4>1
      <3>2. CASE i # col + 1
        <4>1. i \in 1 .. col /\ j + i \in 1 .. n
          BY <1>2, <1>12, <3>2
        <4> QED
          BY <1>2, <1>10, <1>12, <4>1
      <3> QED
        BY <3>1, <3>2
    <2>4. j <= Cols + 1 /\ column_counter' + 1 = col + 1 /\ Len(Longer') = n + 1
      BY <1>2, <1>4, <1>5, <1>12
    <2>5. Placed(Longer, column_counter + 1)'
      <3>1. /\ j \in 1 .. Len(Longer') /\ j <= Cols + 1
            /\ column_counter' + 1 = Len(Longer') - j
            /\ \A i \in 1 .. j - 1 : screen'[Rows - 1][Cols - (j - 1) + i] = Longer'[i]
            /\ \A i \in 1 .. column_counter' + 1 : screen'[Rows][i] = Longer'[j + i]
        BY <1>5, <2>1, <2>2, <2>3, <2>4
      <3> QED
        BY <3>1, Zenon DEF Placed
    <2> HIDE DEF Placed
    <2> QED
      BY <1>4, <1>5, <1>7, <2>5 DEF Message
  <1> QED
    BY <1>6, <1>11, <1>12 DEF Placed, n

LEMMA MessageSend ==
    ASSUME MessageInv, SendChar
    PROVE  Message'
  <1> SUFFICES ASSUME mode \in {"exception", "nmi"}
               PROVE  Message'
    BY DEF SendChar, Message
  <1>1. /\ pc = "send" /\ out' = Append(out, Head(todo)) /\ todo' = Tail(todo) /\ mode' = mode
        /\ screen' = screen /\ column_counter' = column_counter /\ since' = since
    BY DEF SendChar
  <1>2. pc' \in {"draw", "halted"}
    BY Zenon DEF SendChar
  <1>3. /\ out \in Seq(Char) /\ todo \in Seq(Char) /\ todo # <<>> /\ since \in 0 .. Len(out)
    BY <1>1 DEF MessageInv, Begun, Types, Places, Printing
  <1>4. Latest' = Longer /\ Len(Longer) = Len(Latest) + 1 /\ Len(Latest) \in Nat
    <2>1. Head(todo) \in Char
      BY <1>3, HeadTailProperties
    <2>2. SubSeq(out', since + 1, Len(out')) = Append(SubSeq(out, since + 1, Len(out)), Head(todo))
      BY <1>1, <1>3, <2>1, RestAppend
    <2>3. Latest' = Longer
      BY <1>1, <2>2, Zenon DEF Latest, Longer
    <2> QED
      BY <1>1, <2>3, HandlerTypes DEF Printing
  <1>5. Len(todo) = Len(todo') + 1 /\ \A i \in 1 .. Len(todo') : todo'[i] = todo[i + 1]
    BY <1>1, <1>3, EmptySeq
  <1>6. /\ Len(Latest) + Len(todo) <= Cols + 1
        /\ \A i \in 1 .. Len(todo) : todo[i] \notin {NL, CR}
        /\ Placed(Longer, column_counter)
    BY <1>1 DEF MessageInv, Message
  <1>7. Placed(Latest, column_counter)'
    BY <1>1, <1>4, <1>6 DEF Placed
  <1> HIDE DEF Latest, Longer, Placed
  <1>8. Len(todo') \in Nat
    BY <1>1, <1>3, HeadTailProperties
  <1>9. Len(Latest') + Len(todo') <= Cols + 1
    BY <1>4, <1>5, <1>6, <1>8, RowTypes
  <1>10. \A i \in 1 .. Len(todo') : todo'[i] \notin {NL, CR}
    <2>1. \A i \in 1 .. Len(todo') : i + 1 \in 1 .. Len(todo)
      BY <1>5, <1>8
    <2> QED
      BY <1>5, <1>6, <2>1
  <1> QED
    BY <1>2, <1>7, <1>9, <1>10 DEF Message

LEMMA MessageStep ==
    ASSUME MessagesFit, MessageInv, [Next]_vars
    PROVE  MessageInv'
  <1> SUFFICES Message'
    BY BegunStep DEF MessageInv
  <1>1. CASE Newline
    BY <1>1, MessageNewline
  <1>2. CASE ShiftRow
    BY <1>2, MessageShift
  <1>3. CASE CarriageReturn \/ StoreCell
    BY <1>3, MessageStore
  <1>4. CASE SendChar
    BY <1>4, MessageSend
  <1>5. CASE NextColumn \/ WaitSerial \/ Transmit
    BY <1>5, MessageKept DEF NextColumn, WaitSerial, Transmit, Printer
  <1>6. CASE Nmi
    BY <1>6, MessageBegins DEF Nmi, MessageInv
  <1>7. ASSUME NEW text \in Exceptions, Exception(text)
        PROVE  Message'
    BY <1>7, MessageBegins DEF Exception, MessageInv
  <1>8. CASE InitSerial \/ TestSerial \/ EnterKernel \/ ShowGreeting
    <2>1. mode' \in {"boot", "kernel"}
      BY <1>8 DEF InitSerial, TestSerial, EnterKernel, ShowGreeting, Printer,
                  MessageInv, Begun, Types, Places, Printing
    <2> QED
      BY <2>1 DEF Message
  <1>9. ASSUME NEW text \in Texts, Puts(text)
        PROVE  Message'
    <2>1. mode' = "boot"
      BY <1>9 DEF Puts, MessageInv, Begun, Types, Places, Printing
    <2> QED
      BY <2>1 DEF Message
  <1>10. CASE UNCHANGED vars
    BY <1>10, MessageKept DEF vars
  <1> QED
    BY <1>1, <1>2, <1>3, <1>4, <1>5, <1>6, <1>7, <1>8, <1>9, <1>10 DEF Next, Thread

\* A sequence whose last elements are those of another ends with it.
LEMMA SuffixByIndex ==
    ASSUME NEW s \in Seq(Char), NEW u \in Seq(Char), Len(s) <= Len(u),
           \A i \in 1 .. Len(s) : u[Len(u) - Len(s) + i] = s[i]
    PROVE  IsSuffix(s, u)
  <1> DEFINE n == Len(u) - Len(s)
             rest == SubSeq(u, n + 1, Len(u))
  <1>1. n \in 0 .. Len(u) /\ Len(s) \in Nat /\ Len(u) \in Nat /\ Len(u) - n = Len(s)
    OBVIOUS
  <1> HIDE DEF n
  <1>2. rest \in Seq(Char) /\ Len(rest) = Len(s) /\ \A i \in 1 .. Len(s) : rest[i] = u[n + i]
    BY <1>1
  <1> HIDE DEF rest
  <1>3. rest = s
    BY <1>2, SeqEqual DEF n
  <1>4. PICK before \in Seq(Char) : u = before \o rest
    BY <1>1, EndFollows DEF rest
  <1> QED
    BY <1>3, <1>4, EndIsSuffix

\* The screen up to the cursor, by position.
LEMMA UpToCursorIs ==
    ASSUME Begun
    PROVE  /\ UpToCursor \in Seq(Char) /\ Len(UpToCursor) = Cols + column_counter
           /\ \A i \in 1 .. Cols : UpToCursor[i] = screen[Rows - 1][i]
           /\ \A i \in 1 .. column_counter : UpToCursor[Cols + i] = screen[Rows][i]
  <1>1. /\ screen \in [1 .. Rows -> Row] /\ column_counter \in 0 .. Cols
        /\ Rows - 1 \in 1 .. Rows /\ Rows \in 1 .. Rows /\ Cols \in Nat
    BY RowTypes DEF Begun, Types
  <1> DEFINE above == screen[Rows - 1]
             last == screen[Rows]
             part == SubSeq(last, 1, column_counter)
  <1>2. above \in [1 .. Cols -> Char] /\ last \in [1 .. Cols -> Char]
    BY <1>1 DEF Row
  <1> HIDE DEF above, last
  <1>3. above \in Seq(Char) /\ Len(above) = Cols /\ last \in Seq(Char) /\ Len(last) = Cols
    BY <1>1, <1>2
  <1>4. /\ part \in Seq(Char) /\ Len(part) = column_counter
        /\ \A i \in 1 .. column_counter : part[i] = last[i]
    BY <1>1, <1>3
  <1> HIDE DEF part
  <1>5. UpToCursor = above \o part
    BY DEF UpToCursor, above, last, part
  <1>6. above \o part \in Seq(Char) /\ Len(above \o part) = Cols + column_counter
    <2>1. above \o part \in Seq(Char) /\ Len(above \o part) = Len(above) + Len(part)
      BY <1>3, <1>4, ConcatProperties
    <2> QED
      BY <1>3, <1>4, <2>1
  <1>7. \A i \in 1 .. Cols : (above \o part)[i] = above[i]
    BY <1>1, <1>3, <1>4
  <1>8. \A i \in 1 .. column_counter : (above \o part)[Cols + i] = part[i]
    BY <1>1, <1>3, <1>4
  <1> QED
    BY <1>4, <1>5, <1>6, <1>7, <1>8 DEF above, last

LEMMA RemoveAtIs ==
    ASSUME NEW s \in Seq(Char), NEW j \in 1 .. Len(s)
    PROVE  /\ RemoveAt(s, j) \in Seq(Char) /\ Len(RemoveAt(s, j)) = Len(s) - 1
           /\ \A i \in 1 .. j - 1 : RemoveAt(s, j)[i] = s[i]
           /\ \A i \in j .. Len(s) - 1 : RemoveAt(s, j)[i] = s[i + 1]
  <1> DEFINE a == SubSeq(s, 1, j - 1)
             b == SubSeq(s, j + 1, Len(s))
             n == Len(s)
  <1>1. n \in Nat /\ j \in 1 .. n
    OBVIOUS
  <1>2. a \in Seq(Char) /\ Len(a) = j - 1 /\ \A i \in 1 .. j - 1 : a[i] = s[i]
    BY <1>1
  <1>3. b \in Seq(Char) /\ Len(b) = n - j /\ \A i \in 1 .. n - j : b[i] = s[j + i]
    BY <1>1
  <1>4. RemoveAt(s, j) = a \o b
    BY DEF RemoveAt
  <1> HIDE DEF a, b, n
  <1>5. a \o b \in Seq(Char) /\ Len(a \o b) = n - 1
    <2>1. a \o b \in Seq(Char) /\ Len(a \o b) = Len(a) + Len(b)
      BY <1>2, <1>3, ConcatProperties
    <2> QED
      BY <1>1, <1>2, <1>3, <2>1
  <1>6. \A i \in 1 .. j - 1 : (a \o b)[i] = a[i]
    BY <1>1, <1>2, <1>3
  <1>7. ASSUME NEW i \in j .. n - 1
        PROVE  (a \o b)[i] = s[i + 1]
    <2>1. i - (j - 1) \in 1 .. n - j /\ j + (i - (j - 1)) = i + 1
      BY <1>1
    <2>2. (a \o b)[i] = b[i - (j - 1)]
      BY <1>1, <1>2, <1>3
    <2> QED
      BY <1>3, <2>1, <2>2
  <1> QED
    BY <1>2, <1>4, <1>5, <1>6, <1>7 DEF n

LEMMA MessageIsRight ==
    ASSUME MessageInv, pc = "halted", mode \in {"exception", "nmi"}
    PROVE  \/ IsSuffix(Latest, UpToCursor)
           \/ \E j \in 1 .. Len(Latest) : IsSuffix(RemoveAt(Latest, j), UpToCursor)
  <1> DEFINE n == Len(Latest)
             col == column_counter
             u == UpToCursor
  <1>1. Latest \in Seq(Char) /\ n \in Nat
    BY DEF MessageInv, Begun, Types, Latest
  <1>2. /\ u \in Seq(Char) /\ Len(u) = Cols + col
        /\ \A i \in 1 .. Cols : u[i] = screen[Rows - 1][i]
        /\ \A i \in 1 .. col : u[Cols + i] = screen[Rows][i]
    BY UpToCursorIs DEF MessageInv
  <1>3. col \in 0 .. Cols /\ Cols \in Nat
    BY RowTypes DEF MessageInv, Begun, Types
  <1>4. Placed(Latest, col)
    BY DEF MessageInv, Message
  <1> HIDE DEF u, n, col, Latest
  <1>5. CASE n <= col /\ \A i \in 1 .. n : screen[Rows][col - n + i] = Latest[i]
    <2>1. n <= Len(u)
      BY <1>1, <1>2, <1>3, <1>5
    <2>2. ASSUME NEW i \in 1 .. n
          PROVE  u[Len(u) - n + i] = Latest[i]
      <3>1. Len(u) - n + i = Cols + (col - n + i) /\ col - n + i \in 1 .. col
        BY <1>1, <1>2, <1>3, <1>5
      <3> QED
        BY <1>2, <1>5, <3>1
    <2>3. IsSuffix(Latest, u)
      BY <1>1, <1>2, <2>1, <2>2, SuffixByIndex DEF n
    <2> QED
      BY <2>3 DEF u
  <1>6. ASSUME NEW j \in 1 .. n, j <= Cols + 1, col = n - j,
               \A i \in 1 .. j - 1 : screen[Rows - 1][Cols - (j - 1) + i] = Latest[i],
               \A i \in 1 .. col : screen[Rows][i] = Latest[j + i]
        PROVE  IsSuffix(RemoveAt(Latest, j), u)
    <2> DEFINE m == RemoveAt(Latest, j)
    <2>1. /\ m \in Seq(Char) /\ Len(m) = n - 1
          /\ \A i \in 1 .. j - 1 : m[i] = Latest[i]
          /\ \A i \in j .. n - 1 : m[i] = Latest[i + 1]
      BY <1>1, RemoveAtIs DEF n
    <2> HIDE DEF m
    <2>2. Len(m) <= Len(u)
      BY <1>1, <1>2, <1>3, <1>6, <2>1
    <2>3. ASSUME NEW i \in 1 .. n - 1
          PROVE  u[Len(u) - (n - 1) + i] = m[i]
      <3>1. Len(u) - (n - 1) + i = Cols - (j - 1) + i
        BY <1>1, <1>2, <1>3, <1>6
      <3>2. CASE i < j
        <4>1. i \in 1 .. j - 1 /\ Cols - (j - 1) + i \in 1 .. Cols
          BY <1>1, <1>3, <1>6, <3>2
        <4> QED
          BY <1>2, <1>6, <2>1, <3>1, <4>1
      <3>3. CASE i >= j
        <4>1. /\ i \in j .. n - 1 /\ i - j + 1 \in 1 .. col
              /\ Cols - (j - 1) + i = Cols + (i - j + 1)
              /\ j + (i - j + 1) = i + 1
          BY <1>1, <1>3, <1>6, <3>3
        <4>2. u[Cols + (i - j + 1)] = Latest[j + (i - j + 1)]
          BY <1>2, <1>6, <4>1
        <4> QED
          BY <2>1, <3>1, <4>1, <4>2
      <3>4. i < j \/ i >= j
        BY <1>1
      <3> QED
        BY <3>2, <3>3, <3>4
    <2>4. IsSuffix(m, u)
      BY <1>2, <2>1, <2>2, <2>3, SuffixByIndex
    <2> QED
      BY <2>4 DEF m
  <1> QED
    BY <1>4, <1>5, <1>6 DEF Placed, n, u

(***************************************************************************)
(* When a handler has halted its message stands before the cursor, at most *)
(* one character short, wherever it interrupted the printing.              *)
(***************************************************************************)
THEOREM MessageCanBeRead ==
    ASSUME MessagesFit
    PROVE  Spec => []FaultMessageReadable
  <1>1. Init => MessageInv
    BY BegunInit, MessageInit DEF MessageInv
  <1>2. MessageInv /\ [Next]_vars => MessageInv'
    BY MessageStep
  <1>3. MessageInv => FaultMessageReadable
    BY MessageIsRight DEF FaultMessageReadable
  <1> QED
    BY <1>1, <1>2, <1>3, PTL DEF Spec
=============================================================================
