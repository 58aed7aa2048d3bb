------------------------------ MODULE Console -------------------------------
(***************************************************************************)
(* What the machine prints: putc and puts on the screen and the serial     *)
(* port, the handlers of exceptions and of the NMI, which print too and    *)
(* never return, and the kernel, which takes the port over and greets.     *)
(* The thread and the serial chip run side by side; an NMI may come        *)
(* between any two steps.  Texts are sequences of characters; how numbers  *)
(* become texts, and colours, are left out.                                *)
(***************************************************************************)
EXTENDS Integers, SequencesExt

CONSTANTS
    Rows, Cols,   \* VGA_ROWS and VGA_COLS
    NL, CR,       \* the characters that move the cursor
    Blank, Old,   \* a blank, and what the BIOS left on the screen
    TestByte,     \* what init_serial sends to itself
    Texts,        \* what the bootloader prints
    Exceptions,   \* what the handlers of its exceptions print
    NmiText,      \* what nmi_interrupt prints
    Greeting,     \* HELLO_WORLD of the kernel
    Prompts,      \* whether the chip echoes at once in loopback (see chip)
    MaxOut        \* bound: the bootloader prints up to that many characters

Nothing == "nothing"

ASSUME ConsoleAssumption ==
    /\ Rows \in Nat \ {0, 1} /\ Cols \in Nat \ {0}
    /\ {NL, CR, Blank, Old} \subseteq STRING /\ NL # CR
    /\ TestByte \in STRING \ {Nothing}
    /\ Texts \cup Exceptions \cup {NmiText, Greeting} \subseteq Seq(STRING) \ {<<>>}
    /\ Len(Greeting) <= Cols /\ Prompts \subseteq BOOLEAN /\ MaxOut \in Nat

VARIABLES
    screen,          \* vga_buffer, by row and column from 1 on
    column_counter,
    step,            \* the register write, row or character that is next
    chip,            \* registers of the UART, see ChipState
    line,            \* what went out on the serial line
    todo,            \* what is left of the text that is printed
    pc,              \* where the thread is
    mode,            \* whose thread it is: "boot", "exception", "nmi", "kernel"
    result,          \* what init_serial returns, and cboot_main ignores
    out,             \* every character printed so far
    since            \* how many of them were before mode began

vars == <<screen, column_counter, step, chip, line, todo, pc, mode, result, out, since>>

\* hold is the transmitter's buffer, with a byte or none; rx the receiver's.
\* A chip that is not prompt (a real one) takes time to send to itself.
ChipState ==
    [dlab : BOOLEAN, loop : BOOLEAN, hold : {<<>>}, rx : {Nothing}, prompt : Prompts]

BlankRow == [c \in 1 .. Cols |-> Blank]
OldRow == [c \in 1 .. Cols |-> Old]

\* cboot_main after setup_interrupts; the BIOS may have used the port.
Init ==
    /\ screen = [r \in 1 .. Rows |-> OldRow]
    /\ column_counter = 0 /\ step = 1
    /\ chip \in ChipState
    /\ line = <<>> /\ out = <<>> /\ todo = <<>> /\ since = 0
    /\ pc = "init" /\ mode = "boot" /\ result = 0

-----------------------------------------------------------------------------
(* The serial port.                                                        *)

\* A byte written to the data port: with DLAB set it is a divisor.
Data(c) ==
    IF chip.dlab THEN chip
    ELSE IF chip.loop /\ chip.prompt THEN [chip EXCEPT !.rx = c]
    ELSE [chip EXCEPT !.hold = <<c>>]

Transmit ==
    /\ chip.hold # <<>>
    /\ IF chip.loop
         THEN /\ chip' = [chip EXCEPT !.rx = Head(chip.hold), !.hold = <<>>]
              /\ UNCHANGED line
         ELSE /\ chip' = [chip EXCEPT !.hold = <<>>]
              /\ line' = line \o chip.hold
    /\ UNCHANGED <<screen, column_counter, step, todo, pc, mode, result, out, since>>

\* Fault: the line control register keeps DLAB.
SerialWritesLatched ==
    << [chip EXCEPT !.dlab = TRUE], chip, [chip EXCEPT !.hold = <<>>, !.rx = Nothing],
       [chip EXCEPT !.loop = FALSE], [chip EXCEPT !.loop = TRUE], Data(TestByte) >>

\* The register writes of init_serial that matter, in their order.
SerialWrites ==
    << [chip EXCEPT !.dlab = TRUE],
       [chip EXCEPT !.dlab = FALSE],
       [chip EXCEPT !.hold = <<>>, !.rx = Nothing],
       [chip EXCEPT !.loop = FALSE],
       [chip EXCEPT !.loop = TRUE],
       Data(TestByte) >>

InitSerial ==
    /\ pc = "init" /\ step <= Len(SerialWrites)
    /\ chip' = SerialWrites[step]
    /\ step' = step + 1
    /\ UNCHANGED <<screen, column_counter, line, todo, pc, mode, result, out, since>>

\* Loopback ends only if the byte is back, for which nothing waits.
TestSerial ==
    /\ pc = "init" /\ step > Len(SerialWrites)
    /\ IF chip.rx = TestByte
         THEN chip' = [chip EXCEPT !.loop = FALSE, !.rx = Nothing] /\ result' = 0
         ELSE chip' = [chip EXCEPT !.rx = Nothing] /\ result' = 1
    /\ pc' = "ready"
    /\ UNCHANGED <<screen, column_counter, step, line, todo, mode, out, since>>

-----------------------------------------------------------------------------
(* A character of puts: draw_char, then serial_write_char.                 *)

Printer == <<line, todo, mode, result, out, since>>

\* Fault: the column is not reset.
NewlineSameColumn ==
    /\ pc = "draw" /\ (column_counter >= Cols \/ Head(todo) = NL)
    /\ step' = 1 /\ pc' = "newline"
    /\ UNCHANGED <<screen, column_counter, chip, Printer>>

\* A full line takes the place of the character that comes next.
Newline ==
    /\ pc = "draw" /\ (column_counter >= Cols \/ Head(todo) = NL)
    /\ column_counter' = 0 /\ step' = 1 /\ pc' = "newline"
    /\ UNCHANGED <<screen, chip, Printer>>

\* Fault: each row goes one down from the last, over the next one to copy.
ShiftRowDown ==
    /\ pc = "newline"
    /\ IF step < Rows
         THEN screen' = [screen EXCEPT ![step + 1] = screen[step]] /\ UNCHANGED pc
         ELSE screen' = [screen EXCEPT ![Rows] = BlankRow] /\ pc' = "wait"
    /\ step' = step + 1
    /\ UNCHANGED <<column_counter, chip, Printer>>

\* A round of the loop over the rows, or the final row.
ShiftRow ==
    /\ pc = "newline"
    /\ IF step < Rows
         THEN screen' = [screen EXCEPT ![step] = screen[step + 1]] /\ UNCHANGED pc
         ELSE screen' = [screen EXCEPT ![Rows] = BlankRow] /\ pc' = "wait"
    /\ step' = step + 1
    /\ UNCHANGED <<column_counter, chip, Printer>>

CarriageReturn ==
    /\ pc = "draw" /\ column_counter < Cols /\ Head(todo) = CR
    /\ column_counter' = 0 /\ pc' = "wait"
    /\ UNCHANGED <<screen, step, chip, Printer>>

StoreCell ==
    /\ pc = "draw" /\ column_counter < Cols /\ Head(todo) \notin {NL, CR}
    /\ screen' = [screen EXCEPT ![Rows][column_counter + 1] = Head(todo)]
    /\ pc' = "advance"
    /\ UNCHANGED <<column_counter, step, chip, Printer>>

NextColumn ==
    /\ pc = "advance"
    /\ column_counter' = column_counter + 1 /\ pc' = "wait"
    /\ UNCHANGED <<screen, step, chip, Printer>>

\* Fault: the receiver's bit is tested.
WaitSerialReceived ==
    /\ pc = "wait" /\ chip.rx # Nothing
    /\ pc' = "send"
    /\ UNCHANGED <<screen, column_counter, step, chip, Printer>>

\* The polling loop is left.
WaitSerial ==
    /\ pc = "wait" /\ chip.hold = <<>>
    /\ pc' = "send"
    /\ UNCHANGED <<screen, column_counter, step, chip, Printer>>

\* The kernel prints on the port only, and on the screen when that is done.
SendChar ==
    /\ pc = "send"
    /\ chip' = Data(Head(todo))
    /\ out' = Append(out, Head(todo))
    /\ todo' = Tail(todo)
    /\ step' = 1
    /\ pc' = CASE todo' # <<>> /\ mode # "kernel" -> "draw"
               [] todo' # <<>> /\ mode = "kernel" -> "wait"
               [] todo' = <<>> /\ mode = "kernel" -> "show"
               [] todo' = <<>> /\ mode = "boot" -> "ready"
               [] OTHER -> "halted"
    /\ UNCHANGED <<screen, column_counter, line, mode, result, since>>

-----------------------------------------------------------------------------
(* Who prints.                                                             *)

Puts(text) ==
    /\ pc = "ready" /\ Len(out) + Len(text) <= MaxOut
    /\ todo' = text /\ pc' = "draw"
    /\ UNCHANGED <<screen, column_counter, step, chip, line, mode, result, out, since>>

\* The gates mask interrupts; the handlers end with hlt.
Interrupt(text, m) ==
    /\ todo' = text /\ pc' = "draw" /\ mode' = m /\ since' = Len(out)
    /\ UNCHANGED <<screen, column_counter, step, chip, line, result, out>>

\* An instruction of the bootloader faults, between two prints.
Exception(text) == pc = "ready" /\ Interrupt(text, "exception")

\* At any time, also in a handler that has halted, but not in its own handler.
Nmi == mode # "nmi" /\ Interrupt(NmiText, "nmi")

\* The driver of the kernel sets the port up again, and clears its buffers.
EnterKernel ==
    /\ pc = "ready"
    /\ chip' = [chip EXCEPT !.dlab = FALSE, !.loop = FALSE, !.hold = <<>>, !.rx = Nothing]
    /\ todo' = Greeting /\ pc' = "wait" /\ mode' = "kernel" /\ since' = Len(out)
    /\ UNCHANGED <<screen, column_counter, step, line, result, out>>

\* A character of the greeting on the top row, then the loop of hlt.
ShowGreeting ==
    /\ pc = "show"
    /\ screen' = [screen EXCEPT ![1][step] = Greeting[step]]
    /\ step' = step + 1
    /\ pc' = IF step = Len(Greeting) THEN "halted" ELSE "show"
    /\ UNCHANGED <<column_counter, chip, Printer>>

Thread ==
    \/ InitSerial \/ TestSerial
    \/ Newline \/ ShiftRow \/ CarriageReturn \/ StoreCell \/ NextColumn
    \/ WaitSerial \/ SendChar
    \/ ShowGreeting

Next ==
    \/ Thread \/ Transmit
    \/ \E text \in Texts : Puts(text)
    \/ \E text \in Exceptions : Exception(text)
    \/ Nmi
    \/ EnterKernel

\* The thread runs on, and the chip gets rid of what it holds.
Spec == Init /\ [][Next]_vars /\ WF_vars(Thread) /\ WF_vars(Transmit)

-----------------------------------------------------------------------------
(* Properties.                                                             *)

\* A paper that is as long as the text: nothing on it is moved.
PutChar(paper, c) ==
    IF c = NL \/ paper.col = Cols
      THEN [above |-> Append(paper.above, paper.last), last |-> BlankRow, col |-> 0]
    ELSE IF c = CR THEN [paper EXCEPT !.col = 0]
    ELSE [paper EXCEPT !.last = [@ EXCEPT ![paper.col + 1] = c], !.col = @ + 1]

\* The rows of the paper, which begins with what the BIOS left.
Paper(text) ==
    LET start == [above |-> [r \in 1 .. Rows - 1 |-> OldRow], last |-> OldRow, col |-> 0]
        paper == FoldLeft(PutChar, start, text)
    IN  Append(paper.above, paper.last)

\* Row r of a screen that shows the end of the paper.
PaperRow(text, r) == Paper(text)[Len(Paper(text)) - Rows + r]

(***************************************************************************)
(* Whenever the bootloader, or the handler of an exception, has printed    *)
(* its texts, the screen shows the last rows of them, though newline moves *)
(* every row; and the kernel, when it has greeted, has changed the top row *)
(* only.  The paper loses the character that finds a line full, as         *)
(* draw_char does.                                                         *)
(***************************************************************************)
ScreenShowsText ==
    /\ mode \in {"boot", "exception"} /\ pc \in {"ready", "halted"} =>
         \A r \in 1 .. Rows : screen[r] = PaperRow(out, r)
    /\ mode = "kernel" /\ pc = "halted" =>
         /\ \A r \in 2 .. Rows : screen[r] = PaperRow(SubSeq(out, 1, since), r)
         /\ \A i \in 1 .. Len(Greeting) : screen[1][i] = Greeting[i]

\* What went or will go out.
Sent == line \o chip.hold

\* The text of the handler or kernel that runs.
Latest == SubSeq(out, since + 1, Len(out))

(***************************************************************************)
(* The serial line carries what is printed, in order and without loss: all *)
(* of it while the bootloader prints, all but one character that the       *)
(* kernel clears from the chip afterwards.  It does not while the port is  *)
(* being set up (an NMI then is seen on the screen only), nor when a slow  *)
(* chip failed the test and was left in loopback; a prompt chip passes.    *)
(***************************************************************************)
SerialCarriesText ==
    /\ ~chip.dlab /\ ~chip.loop =>
         /\ mode \in {"boot", "exception"} => Sent = out
         /\ result = 0 =>
              Sent = out \/ \E i \in 1 .. Len(out) : Sent = RemoveAt(out, i)
         /\ IsSuffix(Latest, Sent)
    /\ chip.prompt /\ pc # "init" /\ mode \in {"boot", "exception"} =>
         result = 0 /\ ~chip.dlab /\ ~chip.loop

\* The screen up to the cursor, in its last two rows.
UpToCursor == screen[Rows - 1] \o SubSeq(screen[Rows], 1, column_counter)

\* What the theorem about messages assumes of them: they have no line ends and
\* fit a line, with a character to spare.  All handlers print such a message but
\* those of the general protection and page faults, whose reports have many lines.
MessagesFit ==
    \A m \in Exceptions \cup {NmiText} :
        Len(m) <= Cols + 1 /\ \A i \in 1 .. Len(m) : m[i] \notin {NL, CR}

(***************************************************************************)
(* When a handler has halted the machine its message stands at the end of  *)
(* the screen, whatever it interrupted: the start of the port, a row that  *)
(* was being moved, a character stored but not counted, another handler,   *)
(* the kernel.  At most one character, at the end of a line, is missing.   *)
(***************************************************************************)
FaultMessageReadable ==
    pc = "halted" /\ mode \in {"exception", "nmi"} =>
        \/ IsSuffix(Latest, UpToCursor)
        \/ \E i \in 1 .. Len(Latest) : IsSuffix(RemoveAt(Latest, i), UpToCursor)

AtRest == pc \in {"ready", "halted"}

(***************************************************************************)
(* Every print ends, every handler comes to its hlt and the kernel to its  *)
(* own, though each character waits for the chip without a limit, in       *)
(* loopback and with the divisor latch open too.                           *)
(***************************************************************************)
PrintsReturn == ~AtRest ~> AtRest
=============================================================================
