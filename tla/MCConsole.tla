----------------------------- MODULE MCConsole ------------------------------
(* Instance of Console: a screen of three rows and columns.  Texts that    *)
(* end their line, fill it exactly, and return to its start; messages that *)
(* are as long as a line or shorter, as those of the code are.             *)
EXTENDS Console

MCTexts == {<<"a", "b", NL>>, <<"c", "d", "e">>, <<"f", CR>>}
MCExceptions == {<<"p", "f">>, <<"u", "d", "!">>}
MCNmiText == <<"n", "m", "i">>
MCGreeting == <<"H", "W">>

\* The instance meets the assumption of the theorem.
ASSUME MessagesOfTheorem == MessagesFit
=============================================================================
