--------------------------- MODULE TerminalProofs ---------------------------
(***************************************************************************)
(* Safety of the terminal, for every size of screen and buffer: the types, *)
(* what the line editor keeps in the buffer, and what the screen shows of  *)
(* it.  The keyboard's part of the invariant is KeyboardInv.               *)
(***************************************************************************)
EXTENDS Terminal, KeyboardProofs, FiniteSetTheorems, WellFoundedInduction

\* The cells that framebuffer_clear clears: all but the last row.
TextEnd == (Rows - 1) * Cols

Consoles == [cell : [Cells -> Symbols], at : Nat]

\* Text is only ever printed forward: between the cursor and the last row the
\* screen is empty.
ConsoleOK(con) ==
  /\ con \in Consoles
  /\ \A p \in Cells : con.at <= p /\ p < TextEnd => con.cell[p] \in Empty

-----------------------------------------------------------------------------
(* Rows and columns.                                                       *)

LEMMA Product ==
  ASSUME NEW a \in Int, NEW b \in Int, NEW d \in Nat, a <= b
  PROVE  a * d \in Int /\ b * d \in Int /\ a * d <= b * d
OBVIOUS

LEMMA Division ==
  ASSUME NEW n \in Nat, NEW d \in Nat \ {0}
  PROVE  /\ n \div d \in Nat
         /\ n % d \in 0 .. d - 1
         /\ n = (n \div d) * d + (n % d)
OBVIOUS

\* The constants' types, and what tells the special characters apart.
LEMMA Constants ==
  /\ Cols \in Nat \ {0} /\ Rows \in Nat \ {0} /\ ClockWidth \in 0 .. Cols
  /\ ByteColumn \in Nat /\ BuffSize \in Nat /\ MaxInputBuffer \in 0 .. BuffSize
  /\ TextEnd \in Nat /\ Rows * Cols \in Nat /\ Rows * Cols = TextEnd + Cols
  /\ Cells = 0 .. Rows * Cols - 1
<1>1. /\ Cols \in Nat \ {0} /\ Rows \in Nat \ {0} /\ ClockWidth \in 0 .. Cols
      /\ ByteColumn \in Nat /\ BuffSize \in Nat /\ MaxInputBuffer \in 0 .. BuffSize
  BY TerminalAssumption
<1>2. TextEnd \in Nat /\ Rows * Cols \in Nat
  BY <1>1, Product, 0 * Cols = 0 DEF TextEnd
<1>3. Rows * Cols = TextEnd + Cols
  BY <1>1 DEF TextEnd
<1>4. QED BY <1>1, <1>2, <1>3 DEF Cells

LEMMA SpecialCharacters ==
  /\ Backspace # Newline /\ Nul # Newline /\ Nul # Backspace /\ Nul # Blank
  /\ Nul \notin Characters /\ Blank \notin Characters
BY DEF Characters, Blank, Nul, NoChar, Backspace, Newline
-----------------------------------------------------------------------------
(* The screen.                                                             *)

\* Where the cursor is, in rows and columns.
LEMMA CursorRowAndColumn ==
  ASSUME NEW con \in Consoles
  PROVE  LET row == con.at \div Cols
             col == con.at % Cols
         IN  /\ row \in Nat /\ col \in 0 .. Cols - 1 /\ con.at = row * Cols + col
             /\ row * Cols \in Nat /\ (row + 1) * Cols = row * Cols + Cols
             /\ row <= Rows - 2 => row * Cols + Cols <= TextEnd
             /\ row > Rows - 2 => row * Cols >= TextEnd
<1> DEFINE row == con.at \div Cols
           col == con.at % Cols
<1>1. con.at \in Nat /\ Cols \in Nat \ {0} /\ Rows \in Nat \ {0}
  BY Constants DEF Consoles
<1>2. row \in Nat /\ col \in 0 .. Cols - 1 /\ con.at = row * Cols + col
  BY <1>1, Division
<1> HIDE DEF row, col
<1>3. (row + 1) * Cols = row * Cols + Cols
  BY <1>1, <1>2
<1>4. row * Cols \in Nat
  BY <1>1, <1>2, Product, 0 * Cols = 0
<1>5. row <= Rows - 2 => row * Cols + Cols <= TextEnd
  BY <1>1, <1>2, <1>3, Product DEF TextEnd
<1>6. row > Rows - 2 => row * Cols >= TextEnd
  BY <1>1, <1>2, Product DEF TextEnd
<1>7. QED BY <1>2, <1>3, <1>4, <1>5, <1>6 DEF row, col

\* Writing into a cell, whether on the screen or beyond.
LEMMA WrittenSound ==
  ASSUME NEW cell \in [Cells -> Symbols], NEW p \in Nat, NEW c \in Symbols
  PROVE  /\ Written(cell, p, c) \in [Cells -> Symbols]
         /\ \A q \in Cells : Written(cell, p, c)[q] = IF q = p THEN c ELSE cell[q]
BY DEF Written

LEMMA ErasedSound ==
  ASSUME NEW cell \in [Cells -> Symbols], NEW p \in Nat
  PROVE  /\ Written(cell, p, Nul) \in [Cells -> Symbols]
         /\ \A q \in Cells : Written(cell, p, Nul)[q] = IF q = p THEN Nul ELSE cell[q]
<1>1. Nul \in Symbols
  BY DEF Symbols, Empty
<1>2. QED BY <1>1, WrittenSound

LEMMA ClearedSound ==
  ASSUME NEW cell \in [Cells -> Symbols]
  PROVE  /\ Cleared(cell) \in [Cells -> Symbols]
         /\ \A p \in Cells : p < TextEnd => Cleared(cell)[p] \in Empty
BY DEF Cleared, TextEnd, Symbols, Empty

\* A character printed anywhere leaves the screen ahead of the cursor empty.
LEMMA PutcharSound ==
  ASSUME NEW con, ConsoleOK(con), NEW c \in Symbols
  PROVE  ConsoleOK(Putchar(con, c))
<1> DEFINE row    == con.at \div Cols
           col    == con.at % Cols
           over   == c # Newline /\ row > Rows - 2
           cell   == IF over THEN Cleared(con.cell) ELSE con.cell
           newrow == IF over THEN 0 ELSE IF c = Newline THEN row + 1 ELSE row
           start  == IF over THEN 0 ELSE col
           newcol == CASE c = Newline                 -> 0
                       [] c = Backspace /\ start = 0  -> ByteColumn
                       [] c = Backspace /\ start > 0  -> start - 1
                       [] OTHER                       -> start + 1
           after  == CASE c = Newline   -> cell
                       [] c = Backspace -> Written(cell, row * Cols + newcol, Nul)
                       [] OTHER         -> Written(cell, row * Cols + col, c)
           at     == IF col = Cols - 1 THEN (newrow + 1) * Cols
                     ELSE newrow * Cols + newcol
<1>1. CASE c = Nul
  BY <1>1 DEF Putchar
<1>2. ASSUME c # Nul PROVE ConsoleOK(Putchar(con, c))
  <2>1. Putchar(con, c) = [cell |-> after, at |-> at]
    BY <1>2 DEF Putchar
  <2>2. con \in Consoles /\ con.cell \in [Cells -> Symbols]
        /\ \A p \in Cells : con.at <= p /\ p < TextEnd => con.cell[p] \in Empty
    BY DEF ConsoleOK, Consoles
  <2>3. /\ row \in Nat /\ col \in 0 .. Cols - 1 /\ con.at = row * Cols + col
        /\ row * Cols \in Nat /\ (row + 1) * Cols = row * Cols + Cols
        /\ row > Rows - 2 => row * Cols >= TextEnd
    BY <2>2, CursorRowAndColumn
  <2>4. /\ Cols \in Nat \ {0} /\ ByteColumn \in Nat /\ Nul \in Symbols /\ Nul \in Empty
        /\ Cells \subseteq Nat
        /\ 0 * Cols = 0 /\ (0 + 1) * Cols = Cols /\ (row + 1 + 1) * Cols = row * Cols + Cols + Cols
    BY <2>3, Constants DEF Symbols, Empty
  <2> HIDE DEF row, col
  <2>5. CASE c = Newline
    <3>1. ~over /\ after = con.cell
          /\ at = IF col = Cols - 1 THEN row * Cols + Cols + Cols ELSE row * Cols + Cols
      <4>1. ~over /\ newrow = row + 1 /\ newcol = 0 /\ after = con.cell
        BY <2>5, SpecialCharacters
      <4>2. (newrow + 1) * Cols = row * Cols + Cols + Cols
            /\ newrow * Cols + newcol = row * Cols + Cols
        BY <2>3, <2>4, <4>1
      <4>3. QED BY <4>1, <4>2
    <3>2. at \in Nat /\ con.at <= at
      BY <2>3, <2>4, <3>1
    <3> HIDE DEF after, at, over
    <3>3. QED BY <2>1, <2>2, <2>4, <3>1, <3>2 DEF ConsoleOK, Consoles
  <2>6. CASE c = Backspace /\ over
    <3>1. newrow = 0 /\ newcol = ByteColumn /\ c # Newline
      BY <2>6, SpecialCharacters
    <3>2. after = Written(Cleared(con.cell), row * Cols + ByteColumn, Nul)
          /\ at = IF col = Cols - 1 THEN Cols ELSE ByteColumn
      BY <2>4, <2>6, <3>1
    <3>3. at \in Nat /\ row * Cols + ByteColumn \in Nat
      BY <2>3, <2>4, <3>2
    <3> HIDE DEF after, at, over
    <3>4. after \in [Cells -> Symbols]
          /\ \A p \in Cells : p < TextEnd => after[p] \in Empty
      <4>1. PICK wiped \in [Cells -> Symbols] :
              wiped = Cleared(con.cell) /\ \A p \in Cells : p < TextEnd => wiped[p] \in Empty
        BY <2>2, ClearedSound
      <4>2. PICK there \in Nat : there = row * Cols + ByteColumn
        BY <3>3
      <4>3. after = Written(wiped, there, Nul)
        BY <3>2, <4>1, <4>2
      <4>4. /\ after \in [Cells -> Symbols]
            /\ \A p \in Cells : after[p] = IF p = there THEN Nul ELSE wiped[p]
        BY <4>3, ErasedSound
      <4>5. QED BY <2>4, <4>1, <4>4
    <3>5. QED BY <2>1, <3>3, <3>4 DEF ConsoleOK, Consoles
  <2>7. CASE c = Backspace /\ ~over
    <3>1. newrow = row /\ cell = con.cell /\ start = col /\ c # Newline
          /\ newcol = IF col = 0 THEN ByteColumn ELSE col - 1
      BY <2>3, <2>7, SpecialCharacters
    <3>2. after = Written(con.cell, row * Cols + newcol, Nul)
          /\ at = IF col = Cols - 1 THEN row * Cols + Cols ELSE row * Cols + newcol
      BY <2>3, <2>7, <3>1
    <3>3. at \in Nat /\ row * Cols + newcol \in Nat
          /\ (con.at <= at \/ (at = con.at - 1 /\ row * Cols + newcol = at))
      BY <2>3, <2>4, <3>1, <3>2
    <3> HIDE DEF after, at, over, newcol
    <3>4. after \in [Cells -> Symbols]
          /\ \A p \in Cells : after[p] = IF p = row * Cols + newcol THEN Nul ELSE con.cell[p]
      <4>1. PICK there \in Nat : there = row * Cols + newcol
        BY <3>3
      <4>2. PICK shown \in [Cells -> Symbols] : shown = con.cell
        BY <2>2
      <4>3. after = Written(shown, there, Nul)
        BY <3>2, <4>1, <4>2
      <4>4. /\ after \in [Cells -> Symbols]
            /\ \A p \in Cells : after[p] = IF p = there THEN Nul ELSE shown[p]
        BY <4>3, ErasedSound
      <4>5. QED BY <4>1, <4>2, <4>4
    <3>5. ASSUME NEW p \in Cells, at <= p, p < TextEnd PROVE after[p] \in Empty
      BY <2>2, <2>3, <2>4, <3>3, <3>4, <3>5
    <3>6. QED BY <2>1, <3>3, <3>4, <3>5 DEF ConsoleOK, Consoles
  <2>8. CASE c # Newline /\ c # Backspace /\ over
    <3>1. newrow = 0 /\ newcol = 1
      BY <2>8
    <3>2. after = Written(Cleared(con.cell), con.at, c)
          /\ at = IF col = Cols - 1 THEN Cols ELSE 1
      BY <2>3, <2>4, <2>8, <3>1
    <3>3. at \in Nat /\ con.at \in Nat /\ con.at >= TextEnd
      <4>1. con.at \in Nat /\ at \in Nat
        BY <2>3, <2>4, <3>2
      <4>2. row * Cols >= TextEnd /\ TextEnd \in Nat
        BY <2>3, <2>8, Constants
      <4>3. QED BY <2>3, <4>1, <4>2
    <3> HIDE DEF after, at, over
    <3>4. after \in [Cells -> Symbols]
          /\ \A p \in Cells : p < TextEnd => after[p] \in Empty
      <4>1. Cleared(con.cell) \in [Cells -> Symbols]
            /\ \A p \in Cells : p < TextEnd => Cleared(con.cell)[p] \in Empty
        BY <2>2, ClearedSound
      <4>2. /\ after \in [Cells -> Symbols]
            /\ \A p \in Cells : after[p] = IF p = con.at THEN c ELSE Cleared(con.cell)[p]
        BY <3>2, <3>3, <4>1, WrittenSound
      <4>3. TextEnd \in Nat
        BY Constants
      <4>4. QED BY <2>4, <3>3, <4>1, <4>2, <4>3
    <3>5. QED BY <2>1, <3>3, <3>4 DEF ConsoleOK, Consoles
  <2>9. CASE c # Newline /\ c # Backspace /\ ~over
    <3>1. newrow = row /\ cell = con.cell /\ newcol = col + 1
      BY <2>3, <2>9
    <3>2. after = Written(con.cell, con.at, c) /\ at = con.at + 1
      <4>1. after = Written(con.cell, row * Cols + col, c)
        BY <2>9, <3>1
      <4>2. at = IF col = Cols - 1 THEN (row + 1) * Cols ELSE row * Cols + (col + 1)
        BY <3>1
      <4>3. QED BY <2>3, <2>4, <4>1, <4>2
    <3>3. at \in Nat /\ con.at \in Nat
      BY <2>3, <2>4, <3>2
    <3> HIDE DEF after, at, over
    <3>4. after \in [Cells -> Symbols]
          /\ \A p \in Cells : after[p] = IF p = con.at THEN c ELSE con.cell[p]
      BY <2>2, <3>2, <3>3, WrittenSound
    <3>5. ASSUME NEW p \in Cells, at <= p, p < TextEnd PROVE after[p] \in Empty
      BY <2>2, <2>4, <3>2, <3>3, <3>4, <3>5
    <3>6. QED BY <2>1, <3>3, <3>4, <3>5 DEF ConsoleOK, Consoles
  <2>10. QED BY <2>5, <2>6, <2>7, <2>8, <2>9
<1>3. QED BY <1>1, <1>2

\* A non-empty set of numbers has a least one.
LEMMA LeastNumber ==
  ASSUME NEW S \in SUBSET Nat, S # {}
  PROVE  \E n \in S : \A k \in S : n <= k
<1>1. PICK n \in S : \A k \in S : ~(<<k, n>> \in OpToRel(<, Nat))
  BY WFMin, NatLessThanWellFounded, Zenon
<1>2. \A k \in S : ~(k < n)
  BY <1>1 DEF OpToRel
<1>3. QED BY <1>2

\* The screens that a string goes through, one per character.
Screens(f, con, string, n) ==
  f = [k \in 0 .. n |-> IF k = 0 THEN con ELSE Putchar(f[k - 1], string[k])]

LEMMA ScreensExist ==
  ASSUME NEW con, NEW string, NEW n \in Nat
  PROVE  \E f : Screens(f, con, string, n)
<1> DEFINE Bad == {k \in Nat : ~ \E f : Screens(f, con, string, k)}
<1>1. SUFFICES ASSUME Bad # {} PROVE FALSE
  OBVIOUS
<1>2. PICK m \in Bad : \A k \in Bad : m <= k
  BY <1>1, LeastNumber
<1>3. m # 0
  <2>1. Screens([k \in 0 .. 0 |-> con], con, string, 0)
    BY DEF Screens
  <2>2. QED BY <2>1
<1>4. m - 1 \in Nat /\ m - 1 \notin Bad
  BY <1>2, <1>3
<1>5. PICK f : Screens(f, con, string, m - 1)
  BY <1>4
<1> DEFINE g == [k \in 0 .. m |-> IF k < m THEN f[k] ELSE Putchar(f[m - 1], string[m])]
<1>6. ASSUME NEW k \in 0 .. m
      PROVE  g[k] = IF k = 0 THEN con ELSE Putchar(g[k - 1], string[k])
  <2>1. CASE k = m
    BY <1>3, <2>1
  <2>2. CASE k < m
    <3>1. k \in 0 .. m - 1 /\ g[k] = f[k] /\ (k # 0 => g[k - 1] = f[k - 1])
      BY <2>2
    <3>2. f[k] = IF k = 0 THEN con ELSE Putchar(f[k - 1], string[k])
      BY <1>5, <3>1 DEF Screens
    <3>3. QED BY <3>1, <3>2
  <2>3. QED BY <2>1, <2>2
<1>7. Screens(g, con, string, m)
  BY <1>6 DEF Screens
<1>8. QED BY <1>7

\* puts gives the last of its screens.
LEMMA PutsIs ==
  ASSUME NEW con, NEW string, Len(string) \in Nat
  PROVE  \E f : Screens(f, con, string, Len(string)) /\ Puts(con, string) = f[Len(string)]
<1> DEFINE after == CHOOSE f : Screens(f, con, string, Len(string))
<1>1. Screens(after, con, string, Len(string))
  BY ScreensExist
<1>2. Puts(con, string) = after[Len(string)]
  BY DEF Puts, Screens
<1>3. QED BY <1>1, <1>2

LEMMA PutsSound ==
  ASSUME NEW con, ConsoleOK(con), NEW string \in Seq(Symbols)
  PROVE  ConsoleOK(Puts(con, string))
<1> DEFINE n == Len(string)
<1>1. PICK f : Screens(f, con, string, n) /\ Puts(con, string) = f[n]
  BY PutsIs
<1> DEFINE Bad == {k \in 0 .. n : ~ConsoleOK(f[k])}
<1>2. SUFFICES ASSUME Bad # {} PROVE FALSE
  BY <1>1
<1>3. PICK m \in Bad : \A k \in Bad : m <= k
  <2>1. Bad \in SUBSET Nat
    OBVIOUS
  <2>2. QED BY ONLY <1>2, <2>1, LeastNumber
<1>4. f[m] = IF m = 0 THEN con ELSE Putchar(f[m - 1], string[m])
  BY <1>1, <1>3 DEF Screens
<1>5. CASE m = 0
  BY <1>3, <1>4, <1>5
<1>6. CASE m # 0
  <2>1. m - 1 \in 0 .. n /\ m - 1 \notin Bad /\ m \in 1 .. n
    BY <1>3, <1>6
  <2>2. ConsoleOK(f[m - 1]) /\ string[m] \in Symbols
    BY <2>1
  <2>3. QED BY <1>3, <1>4, <1>6, <2>2, PutcharSound
<1>7. QED BY <1>5, <1>6

LEMMA PutsOne ==
  ASSUME NEW con, NEW c
  PROVE  Puts(con, <<c>>) = Putchar(con, c)
<1>1. Len(<<c>>) = 1 /\ <<c>>[1] = c
  OBVIOUS
<1>2. PICK f : Screens(f, con, <<c>>, 1) /\ Puts(con, <<c>>) = f[1]
  BY <1>1, PutsIs
<1>3. f[0] = con
  BY <1>2 DEF Screens
<1>4. f[1] = Putchar(f[0], <<c>>[1])
  BY <1>2 DEF Screens
<1>5. QED BY <1>1, <1>2, <1>3, <1>4

\* A visible character that meets no edge goes under the cursor, which moves
\* on by one, be it to the next row.
LEMMA PutcharVisible ==
  ASSUME NEW con \in Consoles, NEW c, c \notin {Nul, Newline, Backspace}, ~MeetsEdge(con, c)
  PROVE  /\ con.at < TextEnd
         /\ Putchar(con, c) = [cell |-> Written(con.cell, con.at, c), at |-> con.at + 1]
<1> DEFINE row == con.at \div Cols
           col == con.at % Cols
<1>1. row <= Rows - 2
  BY CursorRowAndColumn, Constants DEF MeetsEdge
<1>2. /\ row \in Nat /\ col \in 0 .. Cols - 1 /\ con.at = row * Cols + col
      /\ row * Cols \in Nat /\ (row + 1) * Cols = row * Cols + Cols
      /\ row * Cols + Cols <= TextEnd
  BY <1>1, CursorRowAndColumn
<1>3. ~(row > Rows - 2)
  BY <1>1, <1>2, Constants
<1>4. Putchar(con, c) = [cell |-> Written(con.cell, row * Cols + col, c),
                         at |-> IF col = Cols - 1 THEN (row + 1) * Cols
                                ELSE row * Cols + (col + 1)]
  BY <1>3 DEF Putchar
<1> HIDE DEF row, col
<1>5. (IF col = Cols - 1 THEN (row + 1) * Cols ELSE row * Cols + (col + 1)) = con.at + 1
  BY <1>2, Constants
<1>6. con.at < TextEnd
  BY <1>2, Constants
<1>7. QED BY <1>2, <1>4, <1>5, <1>6

\* A backspace that meets no edge moves the cursor back by one and leaves
\* that cell empty.
LEMMA PutcharErases ==
  ASSUME NEW con \in Consoles, ~MeetsEdge(con, Backspace)
  PROVE  /\ con.at \in Nat \ {0} /\ con.at - 1 < TextEnd
         /\ Putchar(con, Backspace) = [cell |-> Written(con.cell, con.at - 1, Nul),
                                       at |-> con.at - 1]
<1> DEFINE row == con.at \div Cols
           col == con.at % Cols
<1>1. row <= Rows - 2 /\ col \notin {0, Cols - 1}
  BY CursorRowAndColumn, Constants, SpecialCharacters DEF MeetsEdge
<1>2. /\ row \in Nat /\ col \in 1 .. Cols - 1 /\ con.at = row * Cols + col
      /\ row * Cols \in Nat /\ row * Cols + Cols <= TextEnd
  BY <1>1, CursorRowAndColumn, Constants
<1>3. ~(row > Rows - 2)
  BY <1>1, <1>2, Constants
<1>4. Putchar(con, Backspace) = [cell |-> Written(con.cell, row * Cols + (col - 1), Nul),
                                 at |-> row * Cols + (col - 1)]
  BY <1>1, <1>2, <1>3, SpecialCharacters DEF Putchar
<1> HIDE DEF row, col
<1>5. row * Cols + (col - 1) = con.at - 1
  BY <1>2, Constants
<1>6. con.at \in Nat \ {0} /\ con.at - 1 < TextEnd
  BY <1>2, Constants
<1>7. QED BY <1>4, <1>5, <1>6

-----------------------------------------------------------------------------
(* The line editor.                                                        *)

\* What a line can hold.
Letters == Characters \ {Backspace, Newline}

InBuffer(line) ==
  /\ line \in Seq(Letters) /\ Len(line) = i
  /\ \A k \in 1 .. i : buff[k] = line[k]

\* Behind the line: the blanks of erased characters up to a place, then zeros.
BlanksThenZeros(blanks) ==
  /\ \A k \in i + 1 .. blanks : buff[k] = Blank
  /\ \A k \in blanks + 1 .. BuffSize : buff[k] = Nul

EditorTypes ==
  /\ phase \in Phases
  /\ input \in Characters \cup {NoChar}
  /\ buff \in [1 .. BuffSize -> Characters \cup Empty]
  /\ i \in 0 .. BuffSize
  /\ output \in Seq(Seq(Symbols))
  /\ home \in Nat
  /\ fits \in BOOLEAN /\ tainted \in BOOLEAN

EditorInv ==
  /\ EditorTypes
  /\ phase = "print" <=> output # <<>>
  /\ phase = "echo" => input # NoChar
  /\ phase = "boot" => i = 0
  /\ LineToBe <= BuffSize
  /\ \E line : /\ InBuffer(line)
               /\ meant = IF phase = "echo" THEN LineAfter(line, input) ELSE line
  /\ ~tainted => \E blanks \in i .. BuffSize : BlanksThenZeros(blanks)

\* The keyboard's share of a step is one that the keyboard's invariant allows.
LEMMA TerminalStepIsPatient == [TerminalNext]_allVars => [PatientStep]_vars
<1> SUFFICES ASSUME [TerminalNext]_allVars PROVE [PatientStep]_vars
  OBVIOUS
<1>1. CASE (keyboard_input_on /\ Room /\ Type) /\ UNCHANGED terminalVars
  BY <1>1 DEF PatientStep
<1>2. CASE Interrupts /\ UNCHANGED terminalVars
  BY <1>2 DEF PatientStep
<1>3. CASE OtherProgram
  BY <1>3 DEF OtherProgram, PatientStep, Calls
<1>4. CASE Shell
  BY <1>4 DEF Shell, Boot, Display, Poll, Echo, Run, PatientStep, Calls
<1>5. CASE PutTime
  BY <1>5 DEF PutTime
<1>6. CASE UNCHANGED allVars
  BY <1>6 DEF allVars
<1>7. QED BY <1>1, <1>2, <1>3, <1>4, <1>5, <1>6 DEF TerminalNext

LEMMA Sequences1N ==
  ASSUME NEW S, NEW n \in Nat
  PROVE  /\ \A f \in [1 .. n -> S] : f \in Seq(S) /\ Len(f) = n
         /\ \A s \in Seq(S) : Len(s) = n => s \in [1 .. n -> S]
OBVIOUS

LEMMA EditorInitially == TerminalInit => EditorInv
<1> SUFFICES ASSUME TerminalInit PROVE EditorInv
  OBVIOUS
<1>1. InitialStack \in [1 .. BuffSize -> Characters \cup Empty] /\ BuffSize \in Nat
  BY Constants, TerminalAssumption, Sequences1N
<1>2. /\ phase = "boot" /\ input = NoChar /\ buff = InitialStack /\ i = 0 /\ output = <<>>
      /\ home = 0 /\ meant = <<>> /\ fits = TRUE /\ wire = <<>> /\ keyboard_buffer = NoChar
      /\ tainted = (\E k \in 1 .. BuffSize : InitialStack[k] # Nul)
  BY DEF TerminalInit, Init
<1>3. EditorTypes
  BY <1>1, <1>2 DEF EditorTypes, Phases
<1>4. LineToBe <= BuffSize
  BY <1>1, <1>2 DEF LineToBe
<1>5. InBuffer(<<>>)
  BY <1>2 DEF InBuffer
<1>6. ~tainted => BlanksThenZeros(0)
  BY <1>1, <1>2 DEF BlanksThenZeros
<1>7. QED BY <1>1, <1>2, <1>3, <1>4, <1>5, <1>6 DEF EditorInv

\* What the keyboard does leaves the editor alone; a key adds one character
\* at most to those on their way, for which there is room.
LEMMA KeyboardKeepsEditor ==
  ASSUME KeyboardInv, EditorInv, UNCHANGED terminalVars,
         \/ Room /\ Type
         \/ Interrupts
         \/ UNCHANGED <<wire, keyboard_buffer>>
  PROVE  EditorInv'
<1>1. UNCHANGED shellVars
  BY DEF terminalVars
<1>2. LineToBe' <= BuffSize
  <2>1. /\ wire \in Seq(Scancodes) /\ i \in 0 .. BuffSize /\ BuffSize \in Nat /\ LineToBe <= BuffSize
        /\ i' = i /\ phase' = phase
    BY <1>1, Constants DEF KeyboardInv, KeyboardTypes, TypeOK, EditorInv, EditorTypes, shellVars
  <2>2. CASE Room /\ Type
    <3>1. Len(wire') = Len(wire) + 1 /\ keyboard_buffer' = keyboard_buffer
      <4>1. PICK k \in Keys : Press(k) \/ ReleaseKey(k)
        BY <2>2 DEF Type
      <4>2. \E code : wire' = Append(wire, code)
        BY <4>1 DEF Press, ReleaseKey
      <4>3. keyboard_buffer' = keyboard_buffer
        BY <4>1 DEF Press, ReleaseKey, driverVars
      <4>4. QED BY <2>1, <4>2, <4>3
    <3>2. QED BY <2>1, <2>2, <3>1 DEF Room, LineToBe
  <2>3. CASE KeyboardInterrupt
    <3>1. Len(wire') = Len(wire) - 1
      BY <2>1, <2>3 DEF KeyboardInterrupt
    <3>2. QED BY <2>1, <3>1 DEF LineToBe
  <2>4. CASE TimerInterrupt
    BY <2>1, <2>4 DEF TimerInterrupt, driverVars, LineToBe
  <2>5. CASE UNCHANGED <<wire, keyboard_buffer>>
    BY <2>1, <2>5 DEF LineToBe
  <2>6. QED BY <2>2, <2>3, <2>4, <2>5 DEF Interrupts
<1>3. EditorTypes'
  BY <1>1 DEF EditorInv, EditorTypes, shellVars
<1>4. PICK line : InBuffer(line) /\ meant = IF phase = "echo" THEN LineAfter(line, input) ELSE line
  BY DEF EditorInv
<1>5. InBuffer(line)' /\ meant' = IF phase' = "echo" THEN LineAfter(line, input') ELSE line
  BY <1>1, <1>4 DEF InBuffer, shellVars
<1>6. ~tainted' => \E blanks \in i' .. BuffSize : BlanksThenZeros(blanks)'
  BY <1>1 DEF EditorInv, BlanksThenZeros, shellVars
<1>7. QED BY <1>1, <1>2, <1>3, <1>5, <1>6 DEF EditorInv, shellVars

LEMMA NoLength ==
  ASSUME NEW S, NEW s \in Seq(S)
  PROVE  Len(s) = 0 <=> s = <<>>
OBVIOUS

LEMMA TailFacts ==
  ASSUME NEW S, NEW s \in Seq(S), s # <<>>
  PROVE  /\ Tail(s) \in Seq(S) /\ Len(s) \in Nat \ {0} /\ Len(Tail(s)) = Len(s) - 1
         /\ Head(s) \in S /\ Head(s) = s[1]
         /\ \A k \in 1 .. Len(s) - 1 : Tail(s)[k] = s[k + 1]
         /\ Tail(s) = <<>> <=> Len(s) = 1
<1>1. /\ Tail(s) \in Seq(S) /\ Len(s) \in Nat \ {0} /\ Len(Tail(s)) = Len(s) - 1
      /\ Head(s) \in S /\ Head(s) = s[1]
      /\ \A k \in 1 .. Len(s) - 1 : Tail(s)[k] = s[k + 1]
  OBVIOUS
<1>2. Len(Tail(s)) = 0 <=> Tail(s) = <<>>
  BY <1>1, NoLength
<1>3. QED BY <1>1, <1>2

\* The prompt begins a line with what is left of the last one, which is
\* nothing.
LEMMA BootKeepsEditor ==
  ASSUME Boot, EditorInv
  PROVE  EditorInv'
<1>1. /\ phase = "boot" /\ phase' = "print" /\ output' = Prompt
      /\ UNCHANGED <<input, buff, i, home, meant, fits, tainted, wire, keyboard_buffer>>
  BY DEF Boot, KeyboardStateActivate, others
<1>2. Prompt \in Seq(Seq(Symbols)) /\ Prompt # <<>>
  BY TerminalAssumption DEF Symbols
<1>3. EditorTypes'
  BY <1>1, <1>2 DEF EditorInv, EditorTypes, Phases
<1>4. LineToBe' <= BuffSize
  BY <1>1 DEF EditorInv, LineToBe
<1>5. PICK line : InBuffer(line) /\ meant = line
  BY <1>1 DEF EditorInv
<1>6. InBuffer(line)' /\ meant' = line
  BY <1>1, <1>5 DEF InBuffer
<1>7. ~tainted' => \E blanks \in i' .. BuffSize : BlanksThenZeros(blanks)'
  BY <1>1 DEF EditorInv, BlanksThenZeros
<1>8. QED BY <1>1, <1>2, <1>3, <1>4, <1>6, <1>7 DEF EditorInv

LEMMA DisplayKeepsEditor ==
  ASSUME Display, EditorInv, ConsoleOK(console)
  PROVE  EditorInv'
<1>1. /\ phase = "print" /\ output # <<>> /\ output' = Tail(output)
      /\ phase' = IF Len(output) = 1 THEN "poll" ELSE "print"
      /\ UNCHANGED <<vars, input, buff, i, meant, tainted>>
  BY DEF Display, EditorInv
<1>2. output \in Seq(Seq(Symbols))
  BY DEF EditorInv, EditorTypes
<1>3. output' \in Seq(Seq(Symbols)) /\ (phase' = "print" <=> output' # <<>>)
      /\ phase' \in {"poll", "print"}
  <2>1. output' \in Seq(Seq(Symbols)) /\ (output' = <<>> <=> Len(output) = 1)
    BY <1>1, <1>2, TailFacts
  <2>2. QED BY <1>1, <2>1
<1>4. console'.at \in Nat
  BY <1>1, <1>2, PutsSound DEF Display, ConsoleOK, Consoles
<1>5. fits' \in BOOLEAN
  BY DEF Display, EditorInv, EditorTypes
<1>6. home' \in Nat
  BY <1>4 DEF Display, EditorInv, EditorTypes
<1>7. EditorTypes'
  BY <1>1, <1>3, <1>5, <1>6 DEF EditorInv, EditorTypes, Phases
<1>8. LineToBe' <= BuffSize
  BY <1>1, <1>3 DEF EditorInv, LineToBe, vars
<1>9. PICK line : InBuffer(line) /\ meant = line
  BY <1>1 DEF EditorInv
<1>10. InBuffer(line)' /\ meant' = line
  BY <1>1, <1>9 DEF InBuffer
<1>11. ~tainted' => \E blanks \in i' .. BuffSize : BlanksThenZeros(blanks)'
  BY <1>1 DEF EditorInv, BlanksThenZeros
<1>12. QED BY <1>1, <1>3, <1>7, <1>8, <1>10, <1>11 DEF EditorInv

\* A character polled is still to be worked into the line.
LEMMA PollKeepsEditor ==
  ASSUME Poll, KeyboardInv, EditorInv
  PROVE  EditorInv'
<1>1. /\ phase = "poll" /\ input' = keyboard_buffer /\ keyboard_buffer' = NoChar
      /\ phase' = IF keyboard_buffer = NoChar THEN "poll" ELSE "echo"
      /\ meant' = IF keyboard_buffer = NoChar THEN meant ELSE LineAfter(meant, keyboard_buffer)
      /\ UNCHANGED <<wire, buff, i, output, home, fits, tainted>>
  BY DEF Poll, GetKeyboardBuffer, others
<1>2. keyboard_buffer \in Characters \cup {NoChar}
  BY DEF KeyboardInv, KeyboardTypes, TypeOK
<1>3. EditorTypes'
  BY <1>1, <1>2 DEF EditorInv, EditorTypes, Phases
<1>4. LineToBe' <= BuffSize
  <2>1. Len(wire) \in Nat /\ i \in Nat
    BY Constants DEF KeyboardInv, KeyboardTypes, TypeOK, EditorInv, EditorTypes
  <2>2. LineToBe <= BuffSize /\ BuffSize \in Nat
    BY Constants DEF EditorInv
  <2>3. CASE keyboard_buffer = NoChar
    BY <1>1, <2>2, <2>3 DEF LineToBe
  <2>4. CASE keyboard_buffer # NoChar
    <3>1. LineToBe = i + 0 + 1 + Len(wire)
      BY <1>1, <2>4 DEF LineToBe
    <3>2. LineToBe' = i + 1 + 0 + Len(wire)
      BY <1>1, <2>4 DEF LineToBe
    <3>3. QED BY <2>1, <2>2, <3>1, <3>2
  <2>5. QED BY <2>3, <2>4
<1>5. PICK line : InBuffer(line) /\ meant = line
  BY <1>1 DEF EditorInv
<1>6. InBuffer(line)' /\ meant' = IF phase' = "echo" THEN LineAfter(line, input') ELSE line
  BY <1>1, <1>5 DEF InBuffer
<1>7. ~tainted' => \E blanks \in i' .. BuffSize : BlanksThenZeros(blanks)'
  BY <1>1 DEF EditorInv, BlanksThenZeros
<1>8. (phase' = "print" <=> output' # <<>>) /\ (phase' = "echo" => input' # NoChar)
      /\ phase' # "boot"
  BY <1>1 DEF EditorInv
<1>9. QED BY <1>3, <1>4, <1>6, <1>7, <1>8 DEF EditorInv

\* The line of the buffer is the line as a sequence.
LEMMA SubSeqIs ==
  ASSUME NEW S, NEW f \in [1 .. BuffSize -> S], NEW n \in 0 .. BuffSize,
         NEW line \in Seq(Letters), Len(line) = n, \A k \in 1 .. n : f[k] = line[k]
  PROVE  SubSeq(f, 1, n) = line
<1>1. n \in Nat /\ BuffSize \in Nat
  BY Constants
<1>2. SubSeq(f, 1, n) = [k \in 1 .. n |-> f[k]]
  BY <1>1
<1>3. line = [k \in 1 .. n |-> line[k]]
  BY <1>1
<1>4. QED BY <1>1, <1>2, <1>3

LEMMA LineIs ==
  ASSUME EditorInv, NEW line, InBuffer(line)
  PROVE  Line = line
BY SubSeqIs DEF EditorInv, EditorTypes, InBuffer, Line

\* Reprinting a word of the line prints what the screen can show.
LEMMA HighlightSound ==
  ASSUME NEW word \in Seq(Characters), word # <<>>
  PROVE  /\ Highlight(word) \in Seq(Seq(Symbols)) /\ Highlight(word) # <<>>
         /\ Len(word) \in Nat \ {0} /\ Len(Highlight(word)) = 2 * Len(word)
         /\ \A k \in 1 .. 2 * Len(word) :
              Highlight(word)[k] = IF k <= Len(word) THEN <<Backspace>> ELSE <<word[k - Len(word)]>>
<1>1. PICK n \in Nat \ {0} : n = Len(word)
  BY NoLength
<1>2. word \in [1 .. n -> Characters]
  BY <1>1
<1>3. Highlight(word) = [k \in 1 .. 2 * n |-> IF k <= n THEN <<Backspace>> ELSE <<word[k - n]>>]
  BY <1>1 DEF Highlight
<1>4. ASSUME NEW k \in 1 .. 2 * n
      PROVE  (IF k <= n THEN <<Backspace>> ELSE <<word[k - n]>>) \in Seq(Symbols)
  <2>1. CASE k <= n
    BY <2>1 DEF Symbols, Characters
  <2>2. CASE ~(k <= n)
    <3>1. word[k - n] \in Symbols
      BY <1>2, <2>2 DEF Symbols
    <3>2. QED BY <2>2, <3>1
  <2>3. QED BY <2>1, <2>2
<1>5. Highlight(word) \in [1 .. 2 * n -> Seq(Symbols)]
  BY <1>3, <1>4
<1>6. 2 * n \in Nat \ {0}
  OBVIOUS
<1>7. Highlight(word) \in Seq(Seq(Symbols)) /\ Len(Highlight(word)) = 2 * n
  BY <1>5, <1>6, Sequences1N
<1>8. QED BY <1>1, <1>3, <1>6, <1>7, NoLength

\* The line after a character is the edited line, and the buffer holds it.
LEMMA EchoKeepsEditor ==
  ASSUME Echo, EditorInv, KeyboardInv
  PROVE  /\ EditorInv'
         /\ \E edited : edited = LineAfter(Line, input) /\ InBuffer(edited)'
<1>1. /\ phase = "echo" /\ UNCHANGED <<vars, input, home, meant, tainted>>
      /\ fits' \in BOOLEAN
  BY DEF Echo, EditorInv, EditorTypes
<1>2. /\ input \in Characters /\ i \in 0 .. BuffSize /\ BuffSize \in Nat /\ i \in Nat
      /\ buff \in [1 .. BuffSize -> Characters \cup Empty]
      /\ home \in Nat /\ tainted \in BOOLEAN /\ output = <<>> /\ NoChar \notin Characters
  BY <1>1, Constants, SpecialCharacters DEF EditorInv, EditorTypes, Nul
<1>3. PICK line : InBuffer(line) /\ meant = LineAfter(line, input)
  BY <1>1 DEF EditorInv
<1>4. line \in Seq(Letters) /\ Len(line) = i /\ (\A k \in 1 .. i : buff[k] = line[k]) /\ Line = line
  BY <1>3, LineIs DEF InBuffer
<1>5. i < BuffSize /\ LineToBe = i + 1 + (IF keyboard_buffer = NoChar THEN 0 ELSE 1) + Len(wire)
      /\ Len(wire) \in Nat /\ LineToBe <= BuffSize
  BY <1>1, <1>2 DEF EditorInv, LineToBe, KeyboardInv, KeyboardTypes, TypeOK
<1>6. CASE input = Newline
  <2>1. phase' = "run" /\ UNCHANGED <<buff, i, output>>
    BY <1>6 DEF Echo
  <2>2. EditorTypes'
    BY <1>1, <1>2, <2>1 DEF EditorInv, EditorTypes, Phases
  <2>3. LineToBe' <= BuffSize
    BY <1>1, <1>2, <1>5, <2>1 DEF LineToBe, vars
  <2>4. LineAfter(line, input) = line
    BY <1>6, SpecialCharacters DEF LineAfter
  <2>8. InBuffer(line)' /\ meant' = line /\ Line = line
    BY <1>1, <1>3, <1>4, <2>1, <2>4 DEF InBuffer
  <2>5. ~tainted' => \E blanks \in i' .. BuffSize : BlanksThenZeros(blanks)'
    BY <1>1, <2>1 DEF EditorInv, BlanksThenZeros
  <2>6. QED BY <1>1, <1>2, <1>6, <2>1, <2>2, <2>3, <2>4, <2>5, <2>8 DEF EditorInv
<1>7. CASE input # Newline
  <2>1. /\ buff' = Edited(input).line /\ i' = Edited(input).length
        /\ output' = IF Line' \in Keywords THEN Highlight(Line') ELSE <<>>
        /\ phase' = IF Line' \in Keywords THEN "print" ELSE "poll"
    BY <1>7 DEF Echo
  <2>3. PICK edited : edited = LineAfter(line, input)
    OBVIOUS
  <2>2. /\ i' \in 0 .. BuffSize /\ i' <= i + 1
        /\ buff' \in [1 .. BuffSize -> Characters \cup Empty]
        /\ InBuffer(edited)'
        /\ ~tainted' => \E blanks \in i' .. BuffSize : BlanksThenZeros(blanks)'
    <3>1. CASE input = Backspace /\ i = 0
      <4>1. buff' = buff /\ i' = 0
        BY <2>1, <3>1 DEF Edited
      <4>2. line = <<>> /\ LineAfter(line, input) = line
        BY <1>4, <3>1, NoLength, SpecialCharacters DEF LineAfter
      <4>3. InBuffer(line)'
        BY <1>4, <3>1, <4>1 DEF InBuffer
      <4>4. ~tainted' => \E blanks \in i' .. BuffSize : BlanksThenZeros(blanks)'
        BY <1>1, <3>1, <4>1 DEF EditorInv, BlanksThenZeros
      <4>5. QED BY <1>2, <1>4, <2>3, <4>1, <4>2, <4>3, <4>4
    <3>2. CASE input = Backspace /\ i > 0
      <4>1. buff' = [buff EXCEPT ![i] = Blank] /\ i' = i - 1
        <5>1. i # 0
          BY <1>2, <3>2
        <5>2. Edited(input) = [line |-> [buff EXCEPT ![i] = Blank], length |-> i - 1]
          BY <3>2, <5>1 DEF Edited
        <5>3. QED BY <2>1, <5>2
      <4>2. LineAfter(line, input) = SubSeq(line, 1, i - 1)
        BY <1>4, <3>2, NoLength, SpecialCharacters DEF LineAfter, Front
      <4>3. PICK shorter : shorter = SubSeq(line, 1, i - 1)
        OBVIOUS
      <4>4. /\ shorter \in Seq(Letters) /\ Len(shorter) = i - 1
            /\ \A k \in 1 .. i - 1 : shorter[k] = line[k]
        BY <1>2, <1>4, <3>2, <4>3
      <4>5. InBuffer(shorter)'
        <5>1. \A k \in 1 .. i - 1 : buff'[k] = line[k]
          BY <1>2, <1>4, <4>1
        <5>2. QED BY <4>1, <4>4, <5>1 DEF InBuffer
      <4>6. ASSUME ~tainted'
            PROVE  \E blanks \in i' .. BuffSize : BlanksThenZeros(blanks)'
        <5>1. PICK blanks \in i .. BuffSize : BlanksThenZeros(blanks)
          BY <1>1, <4>6 DEF EditorInv
        <5>2. BlanksThenZeros(blanks)' /\ blanks \in i' .. BuffSize
          <6>1. \A k \in i' + 1 .. blanks : buff'[k] = Blank
            BY <1>2, <3>2, <4>1, <5>1 DEF BlanksThenZeros
          <6>2. \A k \in blanks + 1 .. BuffSize : buff'[k] = Nul
            BY <1>2, <3>2, <4>1, <5>1 DEF BlanksThenZeros
          <6>3. QED BY <1>2, <4>1, <5>1, <6>1, <6>2 DEF BlanksThenZeros
        <5>3. QED BY <5>2
      <4>7. buff' \in [1 .. BuffSize -> Characters \cup Empty]
        BY <1>2, <4>1 DEF Empty
      <4>8. InBuffer(edited)'
        BY <2>3, <4>2, <4>3, <4>5
      <4>9. QED BY <1>2, <3>2, <4>1, <4>6, <4>7, <4>8
    <3>3. CASE input # Backspace
      <4>1. buff' = [buff EXCEPT ![i + 1] = input] /\ i' = i + 1
        BY <2>1, <3>3 DEF Edited
      <4>2. LineAfter(line, input) = Append(line, input)
        BY <1>7, <3>3 DEF LineAfter
      <4>3. PICK longer : longer = Append(line, input)
        OBVIOUS
      <4>4. input \in Letters
        BY <1>2, <1>7, <3>3 DEF Letters
      <4>5. /\ longer \in Seq(Letters) /\ Len(longer) = i + 1 /\ longer[i + 1] = input
            /\ \A k \in 1 .. i : longer[k] = line[k]
        BY <1>2, <1>4, <4>3, <4>4
      <4>6. InBuffer(longer)'
        <5>1. ASSUME NEW k \in 1 .. i + 1 PROVE buff'[k] = longer[k]
          BY <1>2, <1>4, <1>5, <4>1, <4>5
        <5>2. QED BY <4>1, <4>5, <5>1 DEF InBuffer
      <4>7. ASSUME ~tainted'
            PROVE  \E blanks \in i' .. BuffSize : BlanksThenZeros(blanks)'
        <5>1. PICK blanks \in i .. BuffSize : BlanksThenZeros(blanks)
          BY <1>1, <4>7 DEF EditorInv
        <5>2. PICK rest \in i + 1 .. BuffSize :
                rest = IF blanks = i THEN i + 1 ELSE blanks
          BY <1>2, <1>5, <5>1
        <5>3. BlanksThenZeros(rest)'
          <6>1. \A k \in i' + 1 .. rest : buff'[k] = Blank
            BY <1>2, <1>5, <4>1, <5>1, <5>2 DEF BlanksThenZeros
          <6>2. \A k \in rest + 1 .. BuffSize : buff'[k] = Nul
            BY <1>2, <1>5, <4>1, <5>1, <5>2 DEF BlanksThenZeros
          <6>3. QED BY <6>1, <6>2 DEF BlanksThenZeros
        <5>4. QED BY <4>1, <5>2, <5>3
      <4>8. buff' \in [1 .. BuffSize -> Characters \cup Empty]
        BY <1>2, <4>1
      <4>9. InBuffer(edited)'
        BY <2>3, <4>2, <4>3, <4>6
      <4>10. QED BY <1>2, <1>5, <4>1, <4>7, <4>8, <4>9
    <3>4. QED BY <1>2, <3>1, <3>2, <3>3
  <2>4. InBuffer(edited)' /\ meant' = edited
    BY <1>1, <1>3, <2>2, <2>3
  <2>5. output' \in Seq(Seq(Symbols)) /\ (phase' = "print" <=> output' # <<>>)
        /\ phase' \in {"print", "poll"}
    <3>1. CASE Line' \in Keywords
      <4>1. PICK word \in Seq(Characters) : word # <<>> /\ word = Line'
        BY <3>1, TerminalAssumption
      <4>2. output' = Highlight(word) /\ phase' = "print"
        BY <2>1, <3>1, <4>1
      <4>3. QED BY <4>1, <4>2, HighlightSound
    <3>2. CASE Line' \notin Keywords
      BY <2>1, <3>2
    <3>3. QED BY <3>1, <3>2
  <2>6. EditorTypes'
    BY <1>1, <1>2, <2>2, <2>5 DEF EditorTypes, Phases
  <2>7. LineToBe' <= BuffSize
    <3>1. LineToBe' = i' + 0 + (IF keyboard_buffer = NoChar THEN 0 ELSE 1) + Len(wire)
      BY <1>1, <2>5 DEF LineToBe, vars
    <3>2. i' \in Nat
      BY <1>2, <2>2
    <3>3. QED BY <1>2, <1>5, <2>2, <3>1, <3>2
  <2>8. QED BY <1>4, <2>2, <2>3, <2>4, <2>5, <2>6, <2>7 DEF EditorInv
<1>8. QED BY <1>6, <1>7

\* What is printed before the next line, the prompt at least.
LEMMA AnswerSound ==
  ASSUME NEW reply \in Replies
  PROVE  /\ reply \o Prompt \in Seq(Seq(Symbols)) /\ reply \o Prompt # <<>>
         /\ Prompt \in Seq(Seq(Symbols)) /\ Prompt # <<>>
<1>1. reply \in Seq(Seq(Symbols)) /\ Prompt \in Seq(Seq(Symbols)) /\ Prompt # <<>>
  BY TerminalAssumption DEF Symbols
<1>2. /\ reply \o Prompt \in Seq(Seq(Symbols)) /\ Len(reply) \in Nat /\ Len(Prompt) \in Nat \ {0}
      /\ Len(reply \o Prompt) = Len(reply) + Len(Prompt)
  BY <1>1, NoLength
<1>3. Len(reply \o Prompt) # 0
  BY <1>2
<1>4. QED BY <1>1, <1>2, <1>3, NoLength

\* A command that is cleared entirely leaves nothing but zeros: the string
\* ends where the blanks do.
LEMMA WipedClean ==
  ASSUME EditorInv, ~tainted, CommandLength <= MaxInputBuffer
  PROVE  \A k \in 1 .. BuffSize : Wiped[k] = Nul
<1>1. /\ i \in Nat /\ BuffSize \in Nat /\ MaxInputBuffer \in Nat
      /\ buff \in [1 .. BuffSize -> Characters \cup Empty] /\ DOMAIN buff = 1 .. BuffSize
  BY Constants DEF EditorInv, EditorTypes
<1>2. PICK blanks \in i .. BuffSize : BlanksThenZeros(blanks)
  BY DEF EditorInv
<1>3. PICK line \in Seq(Letters) : Len(line) = i /\ \A k \in 1 .. i : buff[k] = line[k]
  BY DEF EditorInv, InBuffer
<1>4. ASSUME NEW k \in 1 .. BuffSize PROVE buff[k] # Nul <=> k <= blanks
  <2>1. CASE k <= i
    <3>1. buff[k] \in Letters
      BY <1>1, <1>3, <2>1
    <3>2. QED BY <1>1, <1>2, <2>1, <3>1, SpecialCharacters DEF Letters
  <2>2. CASE ~(k <= i) /\ k <= blanks
    <3>1. buff[k] = Blank
      BY <1>1, <1>2, <2>2 DEF BlanksThenZeros
    <3>2. QED BY <2>2, <3>1, SpecialCharacters
  <2>3. CASE ~(k <= blanks)
    BY <1>1, <1>2, <2>3 DEF BlanksThenZeros
  <2>4. QED BY <1>1, <1>2, <2>1, <2>2, <2>3
<1>5. {k \in DOMAIN buff : \A j \in 1 .. k : buff[j] # Nul} = 1 .. blanks
  BY <1>1, <1>2, <1>4
<1>6. CommandLength = blanks
  <2>1. blanks \in Nat /\ 1 \in Int /\ blanks \in Int
    BY <1>1, <1>2
  <2>2. Cardinality(1 .. blanks) = IF 1 > blanks THEN 0 ELSE blanks - 1 + 1
    BY <2>1, FS_Interval
  <2>3. CommandLength = Cardinality(1 .. blanks)
    BY <1>5 DEF CommandLength
  <2>4. QED BY <2>1, <2>2, <2>3
<1>7. ASSUME NEW k \in 1 .. BuffSize, ~(k <= MaxInputBuffer) PROVE Tokenised[k] = Nul
  <2>1. k \notin 2 .. CommandLength /\ buff[k] = Nul
    BY <1>1, <1>2, <1>4, <1>6, <1>7
  <2>2. QED BY <1>1, <2>1 DEF Tokenised
<1>8. QED BY <1>1, <1>7 DEF Wiped

LEMMA TokenisedSound ==
  ASSUME buff \in [1 .. BuffSize -> Characters \cup Empty]
  PROVE  /\ Tokenised \in [1 .. BuffSize -> Characters \cup Empty]
         /\ Wiped \in [1 .. BuffSize -> Characters \cup Empty]
<1>1. Nul \in Characters \cup Empty
  BY DEF Empty
<1>2. Tokenised \in [1 .. BuffSize -> Characters \cup Empty]
  BY <1>1 DEF Tokenised
<1>3. QED BY <1>1, <1>2 DEF Wiped

\* Every command ends with a fresh line, of a cleared buffer unless tainted.
LEMMA RunKeepsEditor ==
  ASSUME Run, EditorInv, KeyboardInv
  PROVE  EditorInv'
<1>1. /\ phase = "run" /\ phase' = "print" /\ i' = 0 /\ meant' = <<>>
      /\ UNCHANGED <<input, home, fits, keyboard_buffer, wire>>
      /\ tainted' = (tainted \/ IsPrefix(RefusedWord, Command) \/ CommandLength > MaxInputBuffer)
  BY DEF Run, vars
<1>2. buff' \in {Tokenised, Wiped} /\ (~IsPrefix(RefusedWord, Command) => buff' = Wiped)
  BY DEF Run
<1>3. output' \in Seq(Seq(Symbols)) /\ output' # <<>>
  <2>1. CASE output' = Prompt
    BY <2>1, TerminalAssumption DEF Symbols
  <2>2. CASE \E reply \in Replies : output' = reply \o Prompt
    BY <2>2, AnswerSound
  <2>3. QED BY <2>1, <2>2 DEF Run
<1>4. EditorTypes'
  <2>1. /\ i \in Nat /\ BuffSize \in Nat /\ input \in Characters \cup {NoChar} /\ home \in Nat
        /\ fits \in BOOLEAN /\ tainted' \in BOOLEAN
    BY <1>1, Constants DEF EditorInv, EditorTypes
  <2>2. buff' \in [1 .. BuffSize -> Characters \cup Empty]
    BY <1>2, TokenisedSound DEF EditorInv, EditorTypes
  <2>3. QED BY <1>1, <1>3, <2>1, <2>2 DEF EditorTypes, Phases
<1>5. LineToBe' <= BuffSize
  <2>1. /\ LineToBe' = 0 + 0 + (IF keyboard_buffer = NoChar THEN 0 ELSE 1) + Len(wire)
        /\ LineToBe = i + 0 + (IF keyboard_buffer = NoChar THEN 0 ELSE 1) + Len(wire)
    BY <1>1 DEF LineToBe
  <2>2. i \in Nat /\ BuffSize \in Nat /\ Len(wire) \in Nat
    BY Constants DEF EditorInv, EditorTypes, KeyboardInv, KeyboardTypes, TypeOK
  <2>3. QED BY <2>1, <2>2 DEF EditorInv
<1>6. InBuffer(<<>>)'
  BY <1>1 DEF InBuffer
<1>7. ASSUME ~tainted' PROVE \E blanks \in i' .. BuffSize : BlanksThenZeros(blanks)'
  <2>1. ~tainted /\ ~IsPrefix(RefusedWord, Command) /\ ~(CommandLength > MaxInputBuffer)
    BY <1>1, <1>7
  <2>2. CommandLength \in Nat
    <3>1. buff \in [1 .. BuffSize -> Characters \cup Empty] /\ BuffSize \in Nat
      BY Constants DEF EditorInv, EditorTypes
    <3>2. {k \in DOMAIN buff : \A j \in 1 .. k : buff[j] # Nul} \subseteq 1 .. BuffSize
      BY <3>1
    <3>3. IsFiniteSet(1 .. BuffSize)
      BY <3>1, FS_Interval
    <3>4. QED BY <3>2, <3>3, FS_Subset, FS_CardinalityType DEF CommandLength
  <2>3. CommandLength <= MaxInputBuffer
    BY <2>1, <2>2, Constants
  <2>4. \A k \in 1 .. BuffSize : buff'[k] = Nul
    BY <1>2, <2>1, <2>3, WipedClean
  <2>5. BlanksThenZeros(0)'
    BY <1>1, <2>4 DEF BlanksThenZeros
  <2>6. 0 \in i' .. BuffSize
    BY <1>1, Constants
  <2>7. QED BY <2>5, <2>6
<1>8. QED BY <1>1, <1>3, <1>4, <1>5, <1>6, <1>7 DEF EditorInv

LEMMA EditorStep == KeyboardInv /\ EditorInv /\ ConsoleOK(console) /\ [TerminalNext]_allVars
                      => EditorInv'
<1> SUFFICES ASSUME KeyboardInv, EditorInv, ConsoleOK(console), [TerminalNext]_allVars
             PROVE  EditorInv'
  OBVIOUS
<1>1. CASE (keyboard_input_on /\ Room /\ Type) /\ UNCHANGED terminalVars
  BY <1>1, KeyboardKeepsEditor
<1>2. CASE Interrupts /\ UNCHANGED terminalVars
  BY <1>2, KeyboardKeepsEditor
<1>3. CASE OtherProgram
  <2>1. UNCHANGED terminalVars /\ UNCHANGED <<wire, keyboard_buffer>>
    BY <1>3 DEF OtherProgram, KeyboardStateActivate, KeyboardStateDeactivate, others
  <2>2. QED BY <2>1, KeyboardKeepsEditor
<1>4. CASE Boot
  BY <1>4, BootKeepsEditor
<1>5. CASE Display
  BY <1>5, DisplayKeepsEditor
<1>6. CASE Poll
  BY <1>6, PollKeepsEditor
<1>7. CASE Echo
  BY <1>7, EchoKeepsEditor
<1>8. CASE Run
  BY <1>8, RunKeepsEditor
<1>9. CASE PutTime
  <2>1. UNCHANGED <<wire, keyboard_buffer>> /\ UNCHANGED shellVars
    BY <1>9 DEF PutTime, vars
  <2>2. LineToBe' <= BuffSize
    BY <2>1 DEF LineToBe, EditorInv, shellVars
  <2>3. QED BY <2>1, <2>2 DEF EditorInv, EditorTypes, InBuffer, BlanksThenZeros, shellVars
<1>10. CASE UNCHANGED allVars
  BY <1>10, KeyboardKeepsEditor DEF allVars, vars
<1>11. QED BY <1>1, <1>2, <1>3, <1>4, <1>5, <1>6, <1>7, <1>8, <1>9, <1>10 DEF TerminalNext, Shell

-----------------------------------------------------------------------------
(* What the screen shows of the line.                                      *)

\* The first n characters of the line stand right after the prompt, above
\* the last row, and the cursor behind them.
ShowsPart(n) ==
  /\ console.at = home + n
  /\ \A k \in 1 .. n : home + k - 1 < TextEnd /\ console.cell[home + k - 1] = buff[k]

\* A word is erased character by character, then printed again.
Reprinting(left) ==
  /\ left \in 1 .. 2 * i /\ Len(output) = left
  /\ \A k \in 1 .. left :
       output[k] = IF 2 * i - left + k <= i THEN <<Backspace>> ELSE <<buff[i - left + k]>>
  /\ ShowsPart(IF left > i THEN left - i ELSE i - left)

ScreenInv ==
  /\ ConsoleOK(console)
  /\ fits /\ phase \in {"poll", "echo"} => \E n : n = i /\ ShowsPart(n)
  /\ fits /\ phase = "print" /\ i > 0 => \E left : Reprinting(left)

\* One character less, and one more, on the screen and in the line.
LEMMA ErasedShows ==
  ASSUME NEW n \in Nat \ {0}, console \in Consoles, home \in Nat, home' = home, ShowsPart(n),
         ~MeetsEdge(console, Backspace), console' = Putchar(console, Backspace),
         \A k \in 1 .. n - 1 : buff'[k] = buff[k]
  PROVE  ShowsPart(n - 1)'
<1>1. /\ console.at = home + n /\ console.at - 1 < TextEnd
      /\ console'.at = console.at - 1
      /\ console'.cell = Written(console.cell, console.at - 1, Nul)
  BY PutcharErases DEF ShowsPart
<1>2. console'.at = home + (n - 1)
  BY <1>1
<1>3. PICK there \in Nat : there = console.at - 1
  BY <1>1
<1>4. \A q \in Cells : console'.cell[q] = IF q = there THEN Nul ELSE console.cell[q]
  <2>1. Nul \in Symbols /\ console.cell \in [Cells -> Symbols]
    BY DEF Symbols, Empty, Consoles
  <2>2. QED BY <1>1, <1>3, <2>1, WrittenSound
<1>5. ASSUME NEW k \in 1 .. n - 1
      PROVE  home + k - 1 < TextEnd /\ console'.cell[home + k - 1] = buff'[k]
  <2>1. home + k - 1 < TextEnd /\ console.cell[home + k - 1] = buff[k]
    BY DEF ShowsPart
  <2>2. home + k - 1 \in Cells /\ home + k - 1 # there
    BY <1>1, <1>3, <2>1, Constants
  <2>3. QED BY <1>4, <2>1, <2>2
<1>6. QED BY <1>2, <1>5 DEF ShowsPart

LEMMA PrintedShows ==
  ASSUME NEW n \in Nat, NEW c \in Letters, console \in Consoles, home \in Nat, home' = home,
         ShowsPart(n), ~MeetsEdge(console, c), console' = Putchar(console, c),
         buff'[n + 1] = c, \A k \in 1 .. n : buff'[k] = buff[k]
  PROVE  ShowsPart(n + 1)'
<1>1. c \notin {Nul, Newline, Backspace} /\ c \in Symbols
  BY SpecialCharacters DEF Letters, Symbols
<1>2. /\ console.at = home + n /\ console.at < TextEnd
      /\ console'.at = console.at + 1
      /\ console'.cell = Written(console.cell, console.at, c)
  BY <1>1, PutcharVisible DEF ShowsPart
<1>3. console'.at = home + (n + 1)
  BY <1>2
<1>4. PICK there \in Nat : there = console.at
  BY <1>2
<1>5. \A q \in Cells : console'.cell[q] = IF q = there THEN c ELSE console.cell[q]
  <2>1. console.cell \in [Cells -> Symbols]
    BY DEF Consoles
  <2>2. console'.cell = Written(console.cell, there, c)
    BY <1>2, <1>4
  <2>3. QED BY <1>1, <2>1, <2>2, WrittenSound
<1>6. ASSUME NEW k \in 1 .. n + 1
      PROVE  home + k - 1 < TextEnd /\ console'.cell[home + k - 1] = buff'[k]
  <2>1. CASE k = n + 1
    <3>1. there \in Cells /\ home + k - 1 = there /\ there < TextEnd
      BY <1>2, <1>4, <2>1, Constants
    <3>2. QED BY <1>5, <2>1, <3>1
  <2>2. CASE k \in 1 .. n
    <3>1. home + k - 1 < TextEnd /\ console.cell[home + k - 1] = buff[k]
      BY <2>2 DEF ShowsPart
    <3>2. home + k - 1 \in Cells /\ home + k - 1 # there
      BY <1>2, <1>4, <2>2, <3>1, Constants
    <3>3. QED BY <1>5, <2>2, <3>1, <3>2
  <2>3. QED BY <2>1, <2>2
<1>7. QED BY <1>3, <1>6 DEF ShowsPart

\* The screen is sound after every step that may write to it.
LEMMA ClearedConsole ==
  ASSUME ConsoleOK(console)
  PROVE  ConsoleOK([cell |-> Cleared(console.cell), at |-> 0])
BY ClearedSound DEF ConsoleOK, Consoles

LEMMA PutTimeSound ==
  ASSUME PutTime, ConsoleOK(console)
  PROVE  /\ ConsoleOK(console)' /\ console'.at = console.at
         /\ \A p \in Cells : p < TextEnd => console'.cell[p] = console.cell[p]
<1>1. /\ console \in Consoles /\ console.at \in Nat /\ console.cell \in [Cells -> Symbols]
      /\ \A p \in Cells : console.at <= p /\ p < TextEnd => console.cell[p] \in Empty
  BY DEF ConsoleOK, Consoles
<1>2. /\ TextEnd \in Nat /\ Rows * Cols = TextEnd + Cols /\ ClockWidth \in 0 .. Cols
      /\ Cols \in Nat /\ Cells \subseteq Nat /\ Digit \in Symbols
  BY Constants DEF Symbols
<1>3. console' = [cell |-> [p \in Cells |-> IF p >= Rows * Cols - ClockWidth THEN Digit
                                            ELSE console.cell[p]],
                  at |-> console.at]
  BY <1>1 DEF PutTime, Consoles
<1>4. console'.at = console.at
      /\ \A p \in Cells : console'.cell[p] = IF p >= Rows * Cols - ClockWidth THEN Digit
                                             ELSE console.cell[p]
  BY <1>3
<1>5. \A p \in Cells : p < TextEnd => ~(p >= Rows * Cols - ClockWidth)
  BY <1>2
<1>6. console' \in Consoles
  BY <1>1, <1>2, <1>3 DEF Consoles
<1>7. QED BY <1>1, <1>4, <1>5, <1>6 DEF ConsoleOK

\* The echo shows on the screen what it does to the line, and a complete word
\* is about to be erased from where it stands.
LEMMA EchoKeepsScreen ==
  ASSUME Echo, EditorInv, KeyboardInv, ScreenInv
  PROVE  ScreenInv'
<1>1. /\ phase = "echo" /\ input' = input /\ home' = home
      /\ console' = IF Echoes THEN Putchar(console, input) ELSE console
      /\ fits' = (fits /\ (Echoes => ~MeetsEdge(console, input)))
  BY DEF Echo
<1>2. /\ input \in Characters /\ i \in Nat /\ BuffSize \in Nat /\ i < BuffSize
      /\ buff \in [1 .. BuffSize -> Characters \cup Empty]
      /\ home \in Nat /\ console \in Consoles
  <2>1. /\ input \in Characters \cup {NoChar} /\ input # NoChar /\ i \in Nat /\ BuffSize \in Nat
        /\ buff \in [1 .. BuffSize -> Characters \cup Empty] /\ home \in Nat /\ console \in Consoles
    BY <1>1, Constants DEF EditorInv, EditorTypes, ScreenInv, ConsoleOK
  <2>2. LineToBe = i + 1 + (IF keyboard_buffer = NoChar THEN 0 ELSE 1) + Len(wire)
        /\ Len(wire) \in Nat /\ LineToBe <= BuffSize
    BY <1>1 DEF EditorInv, LineToBe, KeyboardInv, KeyboardTypes, TypeOK
  <2>3. QED BY <2>1, <2>2
<1>3. ConsoleOK(console)'
  <2>1. ConsoleOK(console) /\ input \in Symbols
    BY <1>2 DEF ScreenInv, Symbols
  <2>2. ConsoleOK(Putchar(console, input))
    BY <2>1, PutcharSound
  <2>3. QED BY <1>1, <2>1, <2>2
<1>4. ASSUME fits', input # Newline
      PROVE  \E n : n = i' /\ n \in Nat /\ ShowsPart(n)'
  <2>1. ShowsPart(i) /\ (Echoes => ~MeetsEdge(console, input))
    BY <1>1, <1>4 DEF ScreenInv
  <2>2. buff' = Edited(input).line /\ i' = Edited(input).length
    BY <1>4 DEF Echo
  <2>3. CASE input = Backspace /\ i = 0
    <3>1. i' = 0 /\ console' = console
      BY <1>1, <2>2, <2>3 DEF Edited, Echoes
    <3>2. ShowsPart(0)'
      BY <1>1, <2>1, <2>3, <3>1 DEF ShowsPart
    <3>3. QED BY <3>1, <3>2
  <2>4. CASE input = Backspace /\ i > 0
    <3>1. buff' = [buff EXCEPT ![i] = Blank] /\ i' = i - 1
      <4>1. i # 0
        BY <1>2, <2>4
      <4>2. Edited(input) = [line |-> [buff EXCEPT ![i] = Blank], length |-> i - 1]
        BY <2>4, <4>1 DEF Edited
      <4>3. QED BY <2>2, <4>2
    <3>2. PICK n \in Nat \ {0} : n = i
      BY <1>2, <2>4
    <3>3. /\ ShowsPart(n) /\ ~MeetsEdge(console, Backspace)
          /\ console' = Putchar(console, Backspace)
      BY <1>1, <1>2, <2>1, <2>4, <3>2 DEF Echoes
    <3>4. \A k \in 1 .. n - 1 : buff'[k] = buff[k]
      BY <1>2, <3>1, <3>2
    <3>5. ShowsPart(n - 1)'
      BY <1>1, <1>2, <3>3, <3>4, ErasedShows
    <3>6. n - 1 = i' /\ n - 1 \in Nat
      BY <3>1, <3>2
    <3>7. QED BY <3>5, <3>6
  <2>5. CASE input # Backspace
    <3>1. buff' = [buff EXCEPT ![i + 1] = input] /\ i' = i + 1
      BY <2>2, <2>5 DEF Edited
    <3>2. PICK n \in Nat : n = i
      BY <1>2
    <3>3. PICK c \in Letters : c = input
      BY <1>2, <1>4, <2>5 DEF Letters
    <3>4. ShowsPart(n) /\ ~MeetsEdge(console, c) /\ console' = Putchar(console, c)
      BY <1>1, <2>1, <2>5, <3>2, <3>3 DEF Echoes
    <3>5. buff'[n + 1] = c /\ \A k \in 1 .. n : buff'[k] = buff[k]
      BY <1>2, <3>1, <3>2, <3>3
    <3>6. ShowsPart(n + 1)'
      BY <1>1, <1>2, <3>4, <3>5, PrintedShows
    <3>7. n + 1 = i' /\ n + 1 \in Nat
      BY <3>1, <3>2
    <3>8. QED BY <3>6, <3>7
  <2>6. QED BY <1>2, <2>3, <2>4, <2>5
<1>5. ASSUME fits', phase' = "print"
      PROVE  \E left : Reprinting(left)'
  <2>1. input # Newline /\ Line' \in Keywords /\ output' = Highlight(Line')
    BY <1>5 DEF Echo
  <2>2. PICK n : n = i' /\ n \in Nat /\ ShowsPart(n)'
    BY <1>4, <1>5, <2>1
  <2>3. PICK word \in Seq(Characters) : word # <<>> /\ word = Line'
    BY <2>1, TerminalAssumption
  <2>4. Len(word) = n /\ \A k \in 1 .. n : word[k] = buff'[k]
    <3>1. EditorInv'
      BY EchoKeepsEditor
    <3>2. PICK line : InBuffer(line)'
      BY <3>1 DEF EditorInv
    <3>3. Line' = line
      <4>1. /\ i' \in 0 .. BuffSize /\ buff' \in [1 .. BuffSize -> Characters \cup Empty]
            /\ line \in Seq(Letters) /\ Len(line) = i' /\ \A k \in 1 .. i' : buff'[k] = line[k]
        BY <3>1, <3>2 DEF EditorInv, EditorTypes, InBuffer
      <4>2. SubSeq(buff', 1, i') = line
        BY <4>1, SubSeqIs
      <4>3. QED BY <4>2 DEF Line
    <3>4. QED BY <2>2, <2>3, <3>2, <3>3 DEF InBuffer
  <2>5. /\ n \in Nat \ {0} /\ Len(output') = 2 * n
        /\ \A k \in 1 .. 2 * n : output'[k] = IF k <= n THEN <<Backspace>> ELSE <<word[k - n]>>
    BY <2>1, <2>3, <2>4, HighlightSound
  <2>6. PICK left \in Nat : left = 2 * n
    BY <2>5
  <2>7. ASSUME NEW k \in 1 .. left
        PROVE  output'[k] = IF 2 * n - left + k <= n THEN <<Backspace>>
                            ELSE <<buff'[n - left + k]>>
    <3>1. 2 * n - left + k = k /\ n - left + k = k - n
      BY <2>5, <2>6
    <3>2. ~(k <= n) => k - n \in 1 .. n
      BY <2>5, <2>6
    <3>3. ~(k <= n) => word[k - n] = buff'[k - n]
      BY <2>4, <3>2
    <3>4. QED BY <2>5, <2>6, <3>1, <3>3
  <2>8. left \in 1 .. 2 * n /\ left > n /\ left - n = n
    BY <2>5, <2>6
  <2>9. ShowsPart(IF left > n THEN left - n ELSE n - left)'
    BY <2>2, <2>8
  <2>10. Reprinting(left)'
    BY <2>2, <2>5, <2>6, <2>7, <2>8, <2>9 DEF Reprinting
  <2>11. QED BY <2>10
<1>6. ASSUME fits', phase' \in {"poll", "echo"}
      PROVE  \E n : n = i' /\ ShowsPart(n)'
  <2>1. input # Newline
    BY <1>6 DEF Echo
  <2>2. QED BY <1>4, <1>6, <2>1
<1>7. QED BY <1>3, <1>5, <1>6 DEF ScreenInv

\* Each system call erases or prints one more character of the word; the
\* last one of the prompt starts an empty line.
LEMMA DisplayKeepsScreen ==
  ASSUME Display, EditorInv, ScreenInv
  PROVE  ScreenInv'
<1>1. /\ phase = "print" /\ output # <<>> /\ console' = Puts(console, Head(output))
      /\ output' = Tail(output) /\ buff' = buff /\ i' = i
      /\ phase' = IF Len(output) = 1 THEN "poll" ELSE "print"
      /\ home' = IF Len(output) = 1 /\ i = 0 THEN console'.at ELSE home
      /\ fits' = ((Len(output) = 1 /\ i = 0) \/ (fits /\ ~MeetsEdge(console, Head(Head(output)))))
  BY DEF Display, EditorInv
<1>2. /\ output \in Seq(Seq(Symbols)) /\ i \in Nat /\ home \in Nat
      /\ buff \in [1 .. BuffSize -> Characters \cup Empty]
      /\ BuffSize \in Nat /\ i <= BuffSize /\ console \in Consoles
  BY Constants DEF EditorInv, EditorTypes, ScreenInv, ConsoleOK
<1>3. /\ Tail(output) \in Seq(Seq(Symbols)) /\ Len(output) \in Nat \ {0}
      /\ Len(Tail(output)) = Len(output) - 1
      /\ Head(output) \in Seq(Symbols) /\ Head(output) = output[1]
      /\ \A k \in 1 .. Len(output) - 1 : Tail(output)[k] = output[k + 1]
  BY <1>1, <1>2, TailFacts
<1>4. ConsoleOK(console)'
  <2>1. ConsoleOK(Puts(console, Head(output)))
    BY <1>3, PutsSound DEF ScreenInv
  <2>2. QED BY <1>1, <2>1
<1>5. CASE i = 0
  <2>1. ASSUME phase' = "poll" PROVE ShowsPart(0)'
    <3>1. home' = console'.at /\ console'.at \in Nat
      BY <1>1, <1>4, <1>5, <2>1 DEF ConsoleOK, Consoles
    <3>2. QED BY <3>1 DEF ShowsPart
  <2>2. phase' \in {"poll", "print"}
    BY <1>1
  <2>3. i' = 0
    BY <1>1, <1>5
  <2>4. QED BY <1>4, <2>1, <2>2, <2>3 DEF ScreenInv
<1>6. CASE i > 0
  <2>1. SUFFICES ASSUME fits'
                 PROVE  /\ phase' = "poll" => ShowsPart(i)'
                        /\ phase' = "print" => \E left : Reprinting(left)'
    <3>1. phase' \in {"poll", "print"}
      BY <1>1
    <3>2. QED BY <1>1, <1>4, <2>1, <3>1 DEF ScreenInv
  <2>2. fits /\ ~MeetsEdge(console, Head(Head(output))) /\ home' = home
    <3>1. ~(Len(output) = 1 /\ i = 0)
      BY <1>2, <1>6
    <3>2. home' = home
      BY <1>1, <3>1
    <3>3. fits /\ ~MeetsEdge(console, Head(Head(output)))
      BY <1>1, <2>1, <3>1, Zenon
    <3>4. QED BY <3>2, <3>3
  <2>3. PICK left : Reprinting(left)
    BY <1>1, <1>6, <2>2 DEF ScreenInv
  <2>4. PICK m \in Nat \ {0} : m = i
    BY <1>2, <1>6
  <2>5. /\ left \in 1 .. 2 * m /\ Len(output) = left
        /\ \A k \in 1 .. left :
             output[k] = IF 2 * m - left + k <= m THEN <<Backspace>> ELSE <<buff[m - left + k]>>
        /\ ShowsPart(IF left > m THEN left - m ELSE m - left)
    BY <2>3, <2>4 DEF Reprinting
  <2>6. /\ left - 1 > 0 =>
             \A k \in 1 .. left - 1 :
               output'[k] = IF 2 * m - (left - 1) + k <= m THEN <<Backspace>>
                            ELSE <<buff'[m - (left - 1) + k]>>
    <3>1. ASSUME NEW k \in 1 .. left - 1
          PROVE  output'[k] = IF 2 * m - (left - 1) + k <= m THEN <<Backspace>>
                              ELSE <<buff'[m - (left - 1) + k]>>
      <4>1. output'[k] = output[k + 1] /\ k + 1 \in 1 .. left
        BY <1>1, <1>3, <2>5
      <4>2. /\ 2 * m - (left - 1) + k = 2 * m - left + (k + 1)
            /\ m - (left - 1) + k = m - left + (k + 1)
        BY <2>5
      <4>3. output[k + 1] = IF 2 * m - left + (k + 1) <= m THEN <<Backspace>>
                            ELSE <<buff[m - left + (k + 1)]>>
        BY <2>5, <4>1
      <4>4. QED BY <1>1, <4>1, <4>2, <4>3
    <3>2. QED BY <3>1
  <2>7. ShowsPart(IF left > m THEN left - 1 - m ELSE m - (left - 1))'
    <3>1. CASE left > m
      <4>1. output[1] = <<Backspace>>
        BY <2>5, <3>1
      <4>2. ~MeetsEdge(console, Backspace) /\ console' = Putchar(console, Backspace)
        <5>1. Head(output) = <<Backspace>> /\ Head(Head(output)) = Backspace
          BY <1>3, <4>1
        <5>2. Puts(console, <<Backspace>>) = Putchar(console, Backspace)
          BY PutsOne
        <5>3. ~MeetsEdge(console, Backspace)
          BY <2>2, <5>1
        <5>4. QED BY <1>1, <5>1, <5>2, <5>3
      <4>3. PICK n \in Nat \ {0} : n = left - m
        BY <2>5, <3>1
      <4>4. ShowsPart(n)
        BY <2>5, <3>1, <4>3
      <4>5. \A k \in 1 .. n - 1 : buff'[k] = buff[k]
        BY <1>1
      <4>6. ShowsPart(n - 1)'
        BY <1>2, <2>2, <4>2, <4>4, <4>5, ErasedShows
      <4>7. n - 1 = IF left > m THEN left - 1 - m ELSE m - (left - 1)
        BY <2>5, <3>1, <4>3
      <4>8. QED BY <4>6, <4>7
    <3>2. CASE ~(left > m)
      <4>1. PICK n \in Nat : n = m - left /\ n + 1 \in 1 .. m
        BY <2>5, <3>2
      <4>2. output[1] = <<buff[n + 1]>>
        BY <2>5, <3>2, <4>1
      <4>3. PICK c \in Letters : c = buff[n + 1]
        BY <2>4, <4>1 DEF EditorInv, InBuffer
      <4>4. ~MeetsEdge(console, c) /\ console' = Putchar(console, c)
        <5>1. Head(output) = <<c>> /\ Head(Head(output)) = c
          BY <1>3, <4>2, <4>3
        <5>2. Puts(console, <<c>>) = Putchar(console, c)
          BY PutsOne
        <5>3. ~MeetsEdge(console, c)
          BY <2>2, <5>1
        <5>4. QED BY <1>1, <5>1, <5>2, <5>3
      <4>5. ShowsPart(n)
        BY <2>5, <3>2, <4>1
      <4>6. buff'[n + 1] = c /\ \A k \in 1 .. n : buff'[k] = buff[k]
        BY <1>1, <4>3
      <4>7. ShowsPart(n + 1)'
        BY <1>2, <2>2, <4>4, <4>5, <4>6, PrintedShows
      <4>8. n + 1 = IF left > m THEN left - 1 - m ELSE m - (left - 1)
        BY <2>5, <3>2, <4>1
      <4>9. QED BY <4>7, <4>8
    <3>3. QED BY <3>1, <3>2
  <2>8. CASE left = 1
    <3>1. phase' = "poll"
      BY <1>1, <2>5, <2>8
    <3>2. m = IF left > m THEN left - 1 - m ELSE m - (left - 1)
      BY <2>8
    <3>3. ShowsPart(m)'
      BY <2>7, <3>2
    <3>4. QED BY <1>1, <2>4, <3>1, <3>3
  <2>9. CASE left # 1
    <3>1. phase' = "print"
      BY <1>1, <2>5, <2>9
    <3>2. PICK rest \in Nat \ {0} : rest = left - 1
      BY <2>5, <2>9
    <3>3. rest \in 1 .. 2 * m /\ Len(output') = rest
      BY <1>1, <1>3, <2>5, <3>2
    <3>4. \A k \in 1 .. rest : output'[k] = IF 2 * m - rest + k <= m THEN <<Backspace>>
                                           ELSE <<buff'[m - rest + k]>>
      BY <2>6, <3>2
    <3>5. (IF left > m THEN left - 1 - m ELSE m - (left - 1))
            = IF rest > m THEN rest - m ELSE m - rest
      BY <2>5, <3>2
    <3>6. ShowsPart(IF rest > m THEN rest - m ELSE m - rest)'
      BY <2>7, <3>5
    <3>7. i' = m
      BY <1>1, <2>4
    <3>8. Reprinting(rest)'
      BY <3>3, <3>4, <3>6, <3>7 DEF Reprinting
    <3>9. QED BY <3>1, <3>8
  <2>10. QED BY <2>8, <2>9
<1>7. QED BY <1>2, <1>5, <1>6

LEMMA ScreenInitially == TerminalInit => ScreenInv
<1> SUFFICES ASSUME TerminalInit PROVE ScreenInv
  OBVIOUS
<1>1. console = [cell |-> BlankScreen, at |-> 0] /\ phase = "boot"
  BY DEF TerminalInit
<1>2. Blank \in Symbols /\ Blank \in Empty /\ BlankScreen \in [Cells -> Symbols]
  BY DEF Symbols, Empty, BlankScreen
<1>3. ConsoleOK(console)
  BY <1>1, <1>2 DEF ConsoleOK, Consoles, BlankScreen
<1>4. QED BY <1>1, <1>3 DEF ScreenInv

\* Neither the keyboard nor a poll writes to the screen or into the line.
LEMMA StillScreen ==
  ASSUME ScreenInv, UNCHANGED <<console, buff, i, output, home, fits>>,
         phase' = phase \/ (phase = "poll" /\ phase' = "echo")
  PROVE  ScreenInv'
BY DEF ScreenInv, ShowsPart, Reprinting

LEMMA ScreenStep == KeyboardInv /\ EditorInv /\ ScreenInv /\ [TerminalNext]_allVars
                      => ScreenInv'
<1> SUFFICES ASSUME KeyboardInv, EditorInv, ScreenInv, [TerminalNext]_allVars
             PROVE  ScreenInv'
  OBVIOUS
<1>1. CASE UNCHANGED terminalVars
  BY <1>1, StillScreen DEF terminalVars, shellVars
<1>2. CASE Boot
  <2>1. ConsoleOK([cell |-> Cleared(console.cell), at |-> 0])
    BY ClearedConsole DEF ScreenInv
  <2>2. ConsoleOK(console)' /\ phase' = "print" /\ i' = 0
    BY <1>2, <2>1 DEF Boot, EditorInv
  <2>3. QED BY <2>2 DEF ScreenInv
<1>3. CASE Display
  BY <1>3, DisplayKeepsScreen
<1>4. CASE Poll
  BY <1>4, StillScreen DEF Poll
<1>5. CASE Echo
  BY <1>5, EchoKeepsScreen
<1>6. CASE Run
  <2>1. ConsoleOK([cell |-> Cleared(console.cell), at |-> 0]) /\ ConsoleOK(console)
    BY ClearedConsole DEF ScreenInv
  <2>2. console' = console \/ console' = [cell |-> Cleared(console.cell), at |-> 0]
    BY <1>6 DEF Run
  <2>3. ConsoleOK(console)' /\ phase' = "print" /\ i' = 0
    BY <1>6, <2>1, <2>2 DEF Run
  <2>4. QED BY <2>3 DEF ScreenInv
<1>7. CASE PutTime
  <2>1. UNCHANGED <<phase, buff, i, output, home, fits>>
    BY <1>7 DEF PutTime, shellVars
  <2>2. /\ ConsoleOK(console)' /\ console'.at = console.at
        /\ \A p \in Cells : p < TextEnd => console'.cell[p] = console.cell[p]
    BY <1>7, PutTimeSound DEF ScreenInv
  <2>3. ASSUME NEW n \in Nat, ShowsPart(n) PROVE ShowsPart(n)'
    <3>1. home \in Nat
      BY DEF EditorInv, EditorTypes
    <3>2. ASSUME NEW k \in 1 .. n
          PROVE  home + k - 1 < TextEnd /\ console'.cell[home + k - 1] = buff[k]
      <4>1. home + k - 1 < TextEnd /\ console.cell[home + k - 1] = buff[k]
        BY <2>3 DEF ShowsPart
      <4>2. home + k - 1 \in Cells
        BY <3>1, <4>1, Constants
      <4>3. QED BY <2>2, <4>1, <4>2
    <3>3. QED BY <2>1, <2>2, <2>3, <3>2 DEF ShowsPart
  <2>4. i \in Nat
    BY Constants DEF EditorInv, EditorTypes
  <2>5. ASSUME fits, phase \in {"poll", "echo"} PROVE \E n : n = i' /\ ShowsPart(n)'
    BY <2>1, <2>3, <2>4, <2>5 DEF ScreenInv
  <2>6. ASSUME fits, phase = "print", i > 0 PROVE \E left : Reprinting(left)'
    <3>1. PICK left : Reprinting(left)
      BY <2>6 DEF ScreenInv
    <3>2. PICK n : n = (IF left > i THEN left - i ELSE i - left) /\ ShowsPart(n)
      BY <3>1 DEF Reprinting
    <3>3. n \in Nat
      BY <2>4, <3>1, <3>2 DEF Reprinting
    <3>4. ShowsPart(n)'
      BY <2>3, <3>2, <3>3
    <3>5. Reprinting(left)'
      BY <2>1, <3>1, <3>2, <3>4 DEF Reprinting
    <3>6. QED BY <3>5
  <2>7. QED BY <2>1, <2>2, <2>5, <2>6 DEF ScreenInv
<1>8. CASE UNCHANGED allVars
  BY <1>1, <1>8 DEF allVars
<1>9. QED
  BY <1>1, <1>2, <1>3, <1>4, <1>5, <1>6, <1>7, <1>8 DEF TerminalNext, Shell, OtherProgram

-----------------------------------------------------------------------------
(* The theorems.                                                           *)

TerminalInv == KeyboardInv /\ EditorInv /\ ScreenInv

LEMMA TerminalInductive == TerminalSpec => []TerminalInv
<1>1. TerminalInit => TerminalInv
  BY KeyboardInitially, EditorInitially, ScreenInitially DEF TerminalInit, TerminalInv
<1>2. TerminalInv /\ [TerminalNext]_allVars => TerminalInv'
  <2> SUFFICES ASSUME TerminalInv, [TerminalNext]_allVars PROVE TerminalInv'
    OBVIOUS
  <2>1. KeyboardInv'
    BY TerminalStepIsPatient, KeyboardStep DEF TerminalInv
  <2>2. EditorInv' /\ ScreenInv'
    BY EditorStep, ScreenStep DEF TerminalInv, ScreenInv
  <2>3. QED BY <2>1, <2>2 DEF TerminalInv
<1>3. QED BY <1>1, <1>2, PTL DEF TerminalSpec

\* The driver, the editor and the screen keep their types, the command buffer
\* its length, and the shell prints exactly while it has something to print.
THEOREM TerminalTypesCorrect == TerminalSpec => []TerminalTypeOK
<1>1. TerminalInv => TerminalTypeOK
  <2> SUFFICES ASSUME TerminalInv PROVE TerminalTypeOK
    OBVIOUS
  <2>1. TypeOK
    BY DEF TerminalInv, KeyboardInv, KeyboardTypes
  <2>2. console \in Consoles
    BY DEF TerminalInv, ScreenInv, ConsoleOK
  <2>3. buff \in Seq(Characters \cup Empty) /\ Len(buff) = BuffSize
    BY Constants, Sequences1N DEF TerminalInv, EditorInv, EditorTypes
  <2>4. QED BY <2>1, <2>2, <2>3 DEF TerminalInv, EditorInv, EditorTypes, TerminalTypeOK, Consoles
<1>2. QED BY <1>1, TerminalInductive, PTL

\* Whatever keys are pressed, held and released, and however their interrupts
\* mix with the timer's and with programs switching the keyboard, the driver's
\* shift and caps lock follow the keys once all scancodes are handed over.
THEOREM ModifiersFollow == TerminalSpec => []ModifiersFollowKeys
BY KeyboardFollows, TerminalInductive, PTL DEF TerminalInv

\* The one-character buffer may lose characters, but what programs read is in
\* the order the user typed, every character as meant and none read twice.
THEOREM CharactersInOrder == TerminalSpec => []ReceivedInOrder
BY KeyboardOrdered, TerminalInductive, PTL DEF TerminalInv

\* The command handed to the dispatch is the line the user edited, whatever
\* the earlier commands left in the buffer.
THEOREM CommandsExact == TerminalSpec => []CommandExact
<1>1. TerminalInv => CommandExact
  <2> SUFFICES ASSUME TerminalInv, phase = "run", ~tainted
               PROVE  LET n == Len(meant)
                      IN  /\ SubSeq(buff, 1, n) = meant
                          /\ \A k \in n + 1 .. BuffSize :
                               /\ buff[k] \in Empty
                               /\ buff[k] = Blank /\ k > n + 1 => buff[k - 1] = Blank
    BY DEF CommandExact
  <2>1. EditorInv /\ i \in 0 .. BuffSize /\ BuffSize \in Nat
    BY Constants DEF TerminalInv, EditorInv, EditorTypes
  <2>2. InBuffer(meant) /\ Len(meant) = i
    BY <2>1 DEF EditorInv, InBuffer
  <2>3. SubSeq(buff, 1, i) = meant
    BY <2>1, <2>2, LineIs DEF Line
  <2>4. PICK blanks \in i .. BuffSize : BlanksThenZeros(blanks)
    BY <2>1 DEF EditorInv
  <2>5. ASSUME NEW k \in i + 1 .. BuffSize
        PROVE  buff[k] \in Empty /\ (buff[k] = Blank /\ k > i + 1 => buff[k - 1] = Blank)
    <3>1. CASE k <= blanks
      BY <2>1, <2>4, <3>1 DEF BlanksThenZeros, Empty
    <3>2. CASE ~(k <= blanks)
      BY <2>1, <2>4, <3>2, SpecialCharacters DEF BlanksThenZeros, Empty
    <3>3. QED BY <3>1, <3>2
  <2>6. QED BY <2>2, <2>3, <2>5
<1>2. QED BY <1>1, TerminalInductive, PTL

\* While the shell waits for a key the screen shows its line behind the
\* prompt, through erasures, reprinted words, row ends and the clock.
THEOREM ScreenFaithful == TerminalSpec => []ScreenShowsLine
<1>1. TerminalInv => ScreenShowsLine
  <2> SUFFICES ASSUME TerminalInv, phase = "poll", fits
               PROVE  /\ console.at = home + i
                      /\ \A k \in 1 .. i : console.cell[home + k - 1] = buff[k]
                      /\ console.at < TextEnd => console.cell[console.at] \in Empty
    BY DEF ScreenShowsLine, TextEnd
  <2>1. ShowsPart(i) /\ ConsoleOK(console)
    BY DEF TerminalInv, ScreenInv
  <2>2. console.at \in Nat
    BY <2>1 DEF ConsoleOK, Consoles
  <2>3. ASSUME console.at < TextEnd PROVE console.cell[console.at] \in Empty
    <3>1. console.at \in Cells
      BY <2>2, <2>3, Constants
    <3>2. QED BY <2>1, <2>2, <2>3, <3>1 DEF ConsoleOK
  <2>4. QED BY <2>1, <2>3 DEF ShowsPart
<1>2. QED BY <1>1, TerminalInductive, PTL
=============================================================================
