------------------------------ MODULE Terminal ------------------------------
(***************************************************************************)
(* The terminal: the keyboard driver, the line editor of the shell (main   *)
(* and exec_command of user-shell.c) that polls it, and the text screen of *)
(* framebuffer.c that the editor, the commands and the clock write to.     *)
(* Every system call runs with interrupts off and is one step.  Colours    *)
(* are left out.                                                           *)
(***************************************************************************)
EXTENDS FiniteSets, Keyboard

CONSTANTS
  Cols, Rows,        \* the resolution of the screen; the code has 80 and 25
  ByteColumn,        \* the column -1 as an 8-bit number; the code has 255
  ClockWidth,        \* the cells of the last row that show the time
  BuffSize,          \* CLUSTER_SIZE, the length of the command buffer
  MaxInputBuffer,    \* MAX_INPUT_BUFFER, as much of it as is cleared
  InitialStack,      \* what the stack holds where exec_command puts buff
  Keywords,          \* the words that are shown in colour once complete
  ClearWord,         \* "clear"
  RefusedWord,       \* "./shell"
  Glyphs,            \* the characters that programs print
  Prompt,            \* the strings main prints before it reads a line
  Replies            \* what a command may print, a sequence of strings each

Blank  == " "
Nul    == NoChar      \* character 0: invisible, and what ends a string
Empty  == {Blank, Nul}

ASSUME TerminalAssumption ==
  /\ Cols \in Nat \ {0} /\ Rows \in Nat \ {0} /\ ClockWidth \in 0 .. Cols
  /\ ByteColumn \in Nat
  /\ BuffSize \in Nat /\ MaxInputBuffer \in 0 .. BuffSize
  /\ InitialStack \in Seq(Characters \cup Empty) /\ Len(InitialStack) = BuffSize
  /\ Keywords \subseteq Seq(Characters) \ {<<>>}
  /\ Prompt \in Seq(Seq(Glyphs)) /\ Prompt # <<>>
  /\ Replies \subseteq Seq(Seq(Glyphs))

VARIABLES
  console,    \* the screen: its cells, and the cursor in the CRT controller
  phase,      \* what the shell does next, see Phases
  input,      \* exec_command: the character polled last
  buff,       \* exec_command: the command buffer
  i,          \* exec_command: the length of the line
  output,     \* the strings the shell has yet to print, a system call each
  home,       \* history: where the cursor stood when the prompt was printed
  meant,      \* history: the line the user has edited since the last command
  fits,       \* history: no character of this line met an edge, see MeetsEdge
  tainted     \* history: something else than zeros was left in the buffer

shellVars    == <<phase, input, buff, i, output, home, meant, fits, tainted>>
terminalVars == <<console, shellVars>>
allVars      == <<vars, terminalVars>>

Cells  == 0 .. Rows * Cols - 1
Phases == {"boot", "poll", "echo", "print", "run"}

\* What a cell may show: the clock's digits are all the same.
Digit   == "t"
Symbols == Glyphs \cup Characters \cup Empty \cup {Digit}

BlankScreen == [p \in Cells |-> Blank]

TerminalTypeOK ==
  /\ TypeOK
  /\ console \in [cell : [Cells -> Symbols], at : Nat]
  /\ phase \in Phases
  /\ input \in Characters \cup {NoChar}
  /\ buff \in Seq(Characters \cup Empty) /\ Len(buff) = BuffSize
  /\ i \in 0 .. BuffSize
  /\ phase = "print" <=> output # <<>>

TerminalInit ==
  /\ Init
  /\ console = [cell |-> BlankScreen, at |-> 0]
  /\ phase = "boot" /\ input = NoChar
  /\ buff = InitialStack /\ i = 0
  /\ output = <<>>
  /\ home = 0 /\ meant = <<>> /\ fits = TRUE
  /\ tainted = (\E k \in 1 .. BuffSize : InitialStack[k] # Nul)

-----------------------------------------------------------------------------
(* The screen.                                                             *)

\* A cell beyond the screen is memory that is not shown.
Written(cell, p, c) == IF p \in Cells THEN [cell EXCEPT ![p] = c] ELSE cell

\* framebuffer_clear leaves the last row alone.
Cleared(cell) == [p \in Cells |-> IF p < (Rows - 1) * Cols THEN Blank ELSE cell[p]]

\* putchar.  Below the last row but one the screen is cleared and the cursor
\* goes back to the top, but the character is still written where the cursor
\* was.  From the last column whatever is printed goes to the next row.
Putchar(con, c) ==
  LET row    == con.at \div Cols
      col    == con.at % Cols
      over   == c # Newline /\ row > Rows - 2
      cell   == IF over THEN Cleared(con.cell) ELSE con.cell
      newrow == IF over THEN 0 ELSE IF c = Newline THEN row + 1 ELSE row
      start  == IF over THEN 0 ELSE col
      newcol == CASE c = Newline                 -> 0
                  [] c = Backspace /\ start = 0  -> ByteColumn
                  [] c = Backspace /\ start > 0  -> start - 1
                  [] OTHER                       -> start + 1
  IN  IF c = Nul THEN con
      ELSE [cell |-> CASE c = Newline   -> cell
                       [] c = Backspace -> Written(cell, row * Cols + newcol, Nul)
                       [] OTHER         -> Written(cell, row * Cols + col, c),
            at   |-> IF col = Cols - 1 THEN (newrow + 1) * Cols ELSE newrow * Cols + newcol]

Puts(con, string) ==
  LET after[n \in 0 .. Len(string)] ==
        IF n = 0 THEN con ELSE Putchar(after[n - 1], string[n])
  IN  after[Len(string)]

\* What the screen's edges make of a character: an erasure from the first or
\* the last column, or anything visible below the last row but one.
MeetsEdge(con, c) ==
  \/ c = Backspace /\ con.at % Cols \in {0, Cols - 1}
  \/ c # Newline /\ con.at \div Cols > Rows - 2

\* putTime, from the clock's system call 19: the cursor stays.
PutTime ==
  /\ console' = [console EXCEPT !.cell =
       [p \in Cells |-> IF p >= Rows * Cols - ClockWidth THEN Digit ELSE @[p]]]
  /\ UNCHANGED <<vars, shellVars>>

-----------------------------------------------------------------------------
(* The shell.                                                              *)

\* main, before its loop: the keyboard is activated, the screen is cleared.
Boot ==
  /\ phase = "boot"
  /\ KeyboardStateActivate
  /\ console' = [cell |-> Cleared(console.cell), at |-> 0]
  /\ output' = Prompt /\ phase' = "print"
  /\ UNCHANGED <<input, buff, i, home, meant, fits, tainted>>

Line == SubSeq(buff, 1, i)

\* One system call that prints.  Only the prompt ends with an empty line.
Display ==
  /\ phase = "print"
  /\ console' = Puts(console, Head(output))
  /\ output' = Tail(output)
  /\ LET prompted == Len(output) = 1 /\ i = 0
     IN  /\ home' = IF prompted THEN console'.at ELSE home
         /\ fits' = (prompted \/ (fits /\ ~MeetsEdge(console, Head(Head(output)))))
  /\ phase' = IF Len(output) = 1 THEN "poll" ELSE "print"
  /\ UNCHANGED <<vars, input, buff, i, meant, tainted>>

\* What a character makes of the line, for the user.
LineAfter(line, c) ==
  CASE c = Newline   -> line
    [] c = Backspace -> IF line = <<>> THEN line ELSE Front(line)
    [] OTHER         -> Append(line, c)

\* Poll the keyboard until there is a character.
Poll ==
  /\ phase = "poll"
  /\ GetKeyboardBuffer
  /\ input' = keyboard_buffer
  /\ phase' = IF keyboard_buffer = NoChar THEN "poll" ELSE "echo"
  /\ meant' = IF keyboard_buffer = NoChar THEN meant ELSE LineAfter(meant, keyboard_buffer)
  /\ UNCHANGED <<console, buff, i, output, home, fits, tainted>>

\* A backspace on an empty line is not echoed.
Echoes == ~(input = Backspace /\ i = 0)

\* Mutant: the word is erased but for its first character.
HighlightShort(word) == [k \in 1 .. 2 * Len(word) - 1 |->
                          IF k < Len(word) THEN <<Backspace>> ELSE <<word[k - Len(word) + 1]>>]

\* A complete word is erased and printed again, a character at a time.
Highlight(word) == [k \in 1 .. 2 * Len(word) |->
                      IF k <= Len(word) THEN <<Backspace>> ELSE <<word[k - Len(word)]>>]

\* The buffer and the length of the line after a character other than a
\* newline: erasing leaves a blank behind the line.
Edited(c) ==
  CASE c = Backspace /\ i = 0 -> [line |-> buff, length |-> 0]
    [] c = Backspace /\ i > 0 -> [line |-> [buff EXCEPT ![i] = Blank], length |-> i - 1]
    [] OTHER                  -> [line |-> [buff EXCEPT ![i + 1] = c], length |-> i + 1]

\* The body of the loop of exec_command after the poll.
Echo ==
  /\ phase = "echo"
  /\ console' = IF Echoes THEN Putchar(console, input) ELSE console
  /\ fits' = (fits /\ (Echoes => ~MeetsEdge(console, input)))
  /\ \/ /\ input = Newline
        /\ phase' = "run"
        /\ UNCHANGED <<buff, i, output>>
     \/ /\ input # Newline
        /\ buff' = Edited(input).line
        /\ i' = Edited(input).length
        /\ output' = IF Line' \in Keywords THEN Highlight(Line') ELSE <<>>
        /\ phase' = IF Line' \in Keywords THEN "print" ELSE "poll"
  /\ UNCHANGED <<vars, input, home, meant, tainted>>

\* The string in the buffer, and the buffer once strtok has ended each word
\* in place.  The code ends the first MAX_ARGS words, and its delimiters are
\* the blank and what the memory holds behind it up to the next zero; here they
\* are the blank, and every word is ended.
CommandLength == Cardinality({k \in DOMAIN buff : \A j \in 1 .. k : buff[j] # Nul})

Command == SubSeq(buff, 1, CommandLength)

Tokenised ==
  [k \in DOMAIN buff |->
     IF k \in 2 .. CommandLength /\ buff[k] = Blank /\ buff[k - 1] # Blank THEN Nul ELSE buff[k]]

\* Mutant: the buffer is not cleared after a command.
NothingWiped == Tokenised

Wiped == [k \in DOMAIN buff |-> IF k <= MaxInputBuffer THEN Nul ELSE Tokenised[k]]

\* The dispatch at the end of exec_command, and main up to the next prompt.
\* The refused command returns before the buffer is cleared.  A line without a
\* word is an unknown command here; the code compares what args[0] happens to
\* point to.
Run ==
  /\ phase = "run"
  /\ \/ /\ IsPrefix(RefusedWord, Command)
        /\ buff' = Tokenised
        /\ \E reply \in Replies : output' = reply \o Prompt
        /\ UNCHANGED console
     \/ /\ IsPrefix(ClearWord, Command)
        /\ buff' = Wiped
        /\ console' = [cell |-> Cleared(console.cell), at |-> 0]
        /\ output' = Prompt
     \/ /\ ~IsPrefix(RefusedWord, Command) /\ ~IsPrefix(ClearWord, Command)
        /\ buff' = Wiped
        /\ \E reply \in Replies : output' = reply \o Prompt
        /\ UNCHANGED console
  /\ i' = 0 /\ meant' = <<>>
  /\ tainted' = (tainted \/ IsPrefix(RefusedWord, Command) \/ CommandLength > MaxInputBuffer)
  /\ phase' = "print"
  /\ UNCHANGED <<vars, input, home, fits>>

Shell == Boot \/ Display \/ Poll \/ Echo \/ Run

\* The code does not check the length of the command buffer.  Users type no
\* more than it holds, the characters on their way included.
LineToBe ==
  LET polled   == IF phase = "echo" THEN 1 ELSE 0
      buffered == IF keyboard_buffer = NoChar THEN 0 ELSE 1
  IN  i + polled + buffered + Len(wire)

Room == LineToBe < BuffSize

\* Another program may switch the keyboard off and on.
OtherProgram ==
  /\ KeyboardStateActivate \/ (wire = <<>> /\ KeyboardStateDeactivate)
  /\ UNCHANGED terminalVars

TerminalNext ==
  \/ (keyboard_input_on /\ Room /\ Type) /\ UNCHANGED terminalVars
  \/ Interrupts /\ UNCHANGED terminalVars
  \/ OtherProgram
  \/ Shell
  \/ PutTime

\* The fairness of Keyboard.
TerminalSpec ==
  /\ TerminalInit /\ [][TerminalNext]_allVars
  /\ WF_allVars(KeyboardInterrupt /\ UNCHANGED terminalVars)
  /\ WF_allVars(KeyboardStateActivate /\ UNCHANGED terminalVars)

-----------------------------------------------------------------------------
(* Properties.                                                             *)

\* The command that exec_command hands to the dispatch is the line the user
\* edited, with nothing behind it but the blanks of erased characters and
\* then zeros, whatever was run before, unless that was the refused command
\* or one longer than what is cleared, or the stack was not zero at first.
CommandExact ==
  phase = "run" /\ ~tainted =>
    LET n == Len(meant)
    IN  /\ SubSeq(buff, 1, n) = meant
        /\ \A k \in n + 1 .. BuffSize :
             /\ buff[k] \in Empty
             /\ buff[k] = Blank /\ k > n + 1 => buff[k - 1] = Blank

\* Whenever the shell waits for a key the screen shows the line that it would
\* run, right after the prompt, with the cursor behind it on an empty cell:
\* through erasures, the reprinting of words, line wraps and the clock, as
\* long as the line met no edge of the screen.  The last row is never
\* cleared and may still show an old character under the cursor.
ScreenShowsLine ==
  phase = "poll" /\ fits =>
    /\ console.at = home + i
    /\ \A k \in 1 .. i : console.cell[home + k - 1] = buff[k]
    /\ console.at < (Rows - 1) * Cols => console.cell[console.at] \in Empty

\* Documented in framebuffer.h (18, "Resolution: 80x25"): the cursor is on
\* the screen.
CursorOnScreen == console.at \in Cells
=============================================================================
