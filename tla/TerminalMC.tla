----------------------------- MODULE TerminalMC -----------------------------
(***************************************************************************)
(* Small instances of Terminal: a screen of three rows of five cells, on   *)
(* which a line wraps after four characters and the second line is past   *)
(* the last row but one.                                                   *)
(***************************************************************************)
EXTENDS Terminal

LetterAndEditing == {"letter", "backspace", "enter"}

OneWord == {<<"a", "a">>}
Clear   == <<"A">>
Refused == <<"a", "A">>

Dollar == << <<"$">> >>

DollarAndReply == {"$", "m", Newline}

\* A command may print nothing or a line.
SilentOrLine == { <<>>, << <<"m", Newline>> >> }

ZeroedStack == [k \in 1 .. BuffSize |-> Nul]
=============================================================================
