--------------------------- MODULE KeyboardProofs ---------------------------
(***************************************************************************)
(* Safety of the keyboard driver under users who type only while the input *)
(* is on, and programs that switch it off only when nothing is on the      *)
(* wire (PatientStep).  The scancodes on the wire are the user's future    *)
(* for the driver, so the inductive invariant says what the driver will    *)
(* have come to after each of them: Tracks gives the modifiers and the     *)
(* number of characters typed at every position of the wire.               *)
(***************************************************************************)
EXTENDS Keyboard, TLAPS

\* A step of the driver and its environment.
PatientStep ==
  \/ keyboard_input_on /\ Type
  \/ Interrupts
  \/ Calls
  \/ wire = <<>> /\ KeyboardStateDeactivate

\* The characters that processes have read, and the one still in the buffer.
Delivered == IF keyboard_buffer = NoChar THEN received
             ELSE Append(received, keyboard_buffer)

ModifierKeys == {"shift", "caps"}

\* The modifiers that are on after a scancode.
ModifiersAfter(mods, code) ==
  IF code.key = "shift" THEN IF code.up THEN mods \ {"shift"} ELSE mods \cup {"shift"}
  ELSE IF code.key = "caps" /\ ~code.up
    THEN IF "caps" \in mods THEN mods \ {"caps"} ELSE mods \cup {"caps"}
    ELSE mods

Prints(code) == code.key \in Printing /\ ~code.up

\* How many characters have been typed after a scancode.
CountAfter(count, code) == IF Prints(code) THEN count + 1 ELSE count

Character(mods, key) == Meant("shift" \in mods, "caps" \in mods, key)

KeyboardTypes ==
  /\ TypeOK
  /\ capsOn \in BOOLEAN
  /\ typed \in Seq(Characters)
  /\ received \in Seq(Characters)

\* mods[k] and count[k]: the modifiers that are on, and how many characters
\* have been typed, once k of the scancodes on the wire have been handled.
Tracks(mods, count) ==
  /\ mods \in [0 .. Len(wire) -> SUBSET ModifierKeys]
  /\ count \in [0 .. Len(wire) -> 0 .. Len(typed)]
  /\ isShift <=> "shift" \in mods[0]
  /\ isCapsLock <=> "caps" \in mods[0]
  /\ "shift" \in held <=> "shift" \in mods[Len(wire)]
  /\ capsOn <=> "caps" \in mods[Len(wire)]
  /\ count[Len(wire)] = Len(typed)
  /\ \A k \in 1 .. Len(wire) :
       /\ mods[k] = ModifiersAfter(mods[k - 1], wire[k])
       /\ count[k] = CountAfter(count[k - 1], wire[k])
       /\ Prints(wire[k]) => typed[count[k]] = Character(mods[k - 1], wire[k].key)

\* chars are among the first n characters typed, in that order.
Embeds(at, chars, n) ==
  /\ at \in [1 .. Len(chars) -> 1 .. n]
  /\ \A k, m \in 1 .. Len(chars) : k < m => at[k] < at[m]
  /\ \A k \in 1 .. Len(chars) : chars[k] = typed[at[k]]

KeyboardInv ==
  /\ KeyboardTypes
  /\ wire # <<>> => keyboard_input_on
  /\ \E mods, count, at : Tracks(mods, count) /\ Embeds(at, Delivered, count[0])

-----------------------------------------------------------------------------
(* The maps.                                                               *)

\* The map that the driver selects from its two flags gives the character the
\* user means, and it gives one for every printing key.
LEMMA MapsMeant ==
  ASSUME NEW shift \in BOOLEAN, NEW caps \in BOOLEAN, NEW key \in Printing
  PROVE  /\ AsciiMap(shift, caps)[key] = Meant(shift, caps, key)
         /\ Meant(shift, caps, key) \in Characters
         /\ Meant(shift, caps, key) # NoChar
<1>1. key \in {"letter", "digit", "backspace", "enter"}
  BY KeyboardAssumption
<1>2. (shift # caps) <=> (shift /\ ~caps) \/ (~shift /\ caps)
  OBVIOUS
<1>3. Meant(shift, caps, key) =
        IF key = "letter" THEN IF (shift /\ ~caps) \/ (~shift /\ caps) THEN "A" ELSE "a"
        ELSE IF key = "digit" THEN IF shift THEN "!" ELSE "1"
        ELSE IF key = "backspace" THEN Backspace ELSE Newline
  BY <1>1, <1>2 DEF Meant
<1>4. Meant(shift, caps, key) \in Characters /\ Meant(shift, caps, key) # NoChar
  BY <1>3 DEF Characters, NoChar, Backspace, Newline
<1>5. CASE shift /\ caps
  <2>1. AsciiMap(shift, caps) = ScancodeMap4
    BY <1>5 DEF AsciiMap
  <2>2. Meant(shift, caps, key) = ScancodeMap4[key]
    <3>1. CASE key = "letter"
      BY <1>3, <1>5, <3>1 DEF ScancodeMap4
    <3>2. CASE key = "digit"
      BY <1>3, <1>5, <3>2 DEF ScancodeMap4
    <3>3. CASE key \in {"backspace", "enter"}
      BY <1>3, <3>3 DEF ScancodeMap4
    <3>4. QED BY <1>1, <3>1, <3>2, <3>3
  <2>3. QED BY <1>4, <2>1, <2>2
<1>6. CASE shift /\ ~caps
  <2>1. AsciiMap(shift, caps) = ScancodeMap3
    BY <1>6 DEF AsciiMap
  <2>2. Meant(shift, caps, key) = ScancodeMap3[key]
    <3>1. CASE key = "letter"
      BY <1>3, <1>6, <3>1 DEF ScancodeMap3
    <3>2. CASE key = "digit"
      BY <1>3, <1>6, <3>2 DEF ScancodeMap3
    <3>3. CASE key \in {"backspace", "enter"}
      BY <1>3, <3>3 DEF ScancodeMap3
    <3>4. QED BY <1>1, <3>1, <3>2, <3>3
  <2>3. QED BY <1>4, <2>1, <2>2
<1>7. CASE ~shift /\ caps
  <2>1. AsciiMap(shift, caps) = ScancodeMap2
    BY <1>7 DEF AsciiMap
  <2>2. Meant(shift, caps, key) = ScancodeMap2[key]
    <3>1. CASE key = "letter"
      BY <1>3, <1>7, <3>1 DEF ScancodeMap2
    <3>2. CASE key = "digit"
      BY <1>3, <1>7, <3>2 DEF ScancodeMap2
    <3>3. CASE key \in {"backspace", "enter"}
      BY <1>3, <3>3 DEF ScancodeMap2
    <3>4. QED BY <1>1, <3>1, <3>2, <3>3
  <2>3. QED BY <1>4, <2>1, <2>2
<1>8. CASE ~shift /\ ~caps
  <2>1. AsciiMap(shift, caps) = ScancodeMap1
    BY <1>8 DEF AsciiMap
  <2>2. Meant(shift, caps, key) = ScancodeMap1[key]
    <3>1. CASE key = "letter"
      BY <1>3, <1>8, <3>1 DEF ScancodeMap1
    <3>2. CASE key = "digit"
      BY <1>3, <1>8, <3>2 DEF ScancodeMap1
    <3>3. CASE key \in {"backspace", "enter"}
      BY <1>3, <3>3 DEF ScancodeMap1
    <3>4. QED BY <1>1, <3>1, <3>2, <3>3
  <2>3. QED BY <1>4, <2>1, <2>2
<1>9. QED BY <1>5, <1>6, <1>7, <1>8

-----------------------------------------------------------------------------
(* The steps.                                                              *)

\* Modifiers and characters after a scancode are of the right kind.
LEMMA AfterTyped ==
  ASSUME NEW mods \in SUBSET ModifierKeys, NEW code \in Scancodes
  PROVE  /\ ModifiersAfter(mods, code) \in SUBSET ModifierKeys
         /\ Prints(code) => Character(mods, code.key) \in Characters
<1>1. ModifiersAfter(mods, code) \in SUBSET ModifierKeys
  BY DEF ModifiersAfter, ModifierKeys
<1>2. ("shift" \in mods) \in BOOLEAN /\ ("caps" \in mods) \in BOOLEAN
  OBVIOUS
<1>3. Prints(code) => Character(mods, code.key) \in Characters
  BY <1>2, MapsMeant DEF Prints, Character
<1>4. QED BY <1>1, <1>3

\* A key pressed or released adds a scancode and, if it prints, a character.
\* The driver has done nothing yet.
LEMMA WireGrows ==
  ASSUME NEW code \in Scancodes, NEW mods, NEW count, NEW at,
         KeyboardTypes, KeyboardTypes',
         Tracks(mods, count), Embeds(at, Delivered, count[0]),
         wire' = Append(wire, code),
         UNCHANGED <<driverVars, received>>,
         "shift" \in held' <=> "shift" \in ModifiersAfter(mods[Len(wire)], code),
         capsOn' <=> "caps" \in ModifiersAfter(mods[Len(wire)], code),
         typed' = IF Prints(code) THEN Append(typed, Character(mods[Len(wire)], code.key))
                  ELSE typed
  PROVE  \E m, c, a : Tracks(m, c)' /\ Embeds(a, Delivered, c[0])'
<1> DEFINE last == Len(wire)
<1>a. PICK m : m = [k \in 0 .. last + 1 |->
                      IF k <= last THEN mods[k] ELSE ModifiersAfter(mods[last], code)]
  OBVIOUS
<1>b. PICK c : c = [k \in 0 .. last + 1 |->
                      IF k <= last THEN count[k]
                      ELSE CountAfter(count[last], code)]
  OBVIOUS
<1>1. last \in Nat /\ Len(wire') = last + 1 /\ wire'[last + 1] = code
      /\ \A k \in 1 .. last : wire'[k] = wire[k]
  BY DEF KeyboardTypes, TypeOK
<1>2. Len(typed) \in Nat /\ Len(typed') = (IF Prints(code) THEN Len(typed) + 1 ELSE Len(typed))
      /\ Prints(code) => typed'[Len(typed) + 1] = Character(mods[last], code.key)
      /\ \A k \in 1 .. Len(typed) : typed'[k] = typed[k]
  BY DEF KeyboardTypes
<1>3. Delivered' = Delivered
  BY DEF Delivered, driverVars
<1>4. mods[last] \in SUBSET ModifierKeys /\ count[last] = Len(typed)
  BY <1>1 DEF Tracks
<1>5. ModifiersAfter(mods[last], code) \in SUBSET ModifierKeys
  BY <1>4, AfterTyped
<1>6. /\ m \in [0 .. Len(wire') -> SUBSET ModifierKeys]
      /\ c \in [0 .. Len(wire') -> 0 .. Len(typed')]
  BY <1>a, <1>b, <1>1, <1>2, <1>4, <1>5 DEF Tracks, CountAfter
<1>7. /\ isShift' <=> "shift" \in m[0]
      /\ isCapsLock' <=> "caps" \in m[0]
      /\ "shift" \in held' <=> "shift" \in m[Len(wire')]
      /\ capsOn' <=> "caps" \in m[Len(wire')]
      /\ c[Len(wire')] = Len(typed')
  BY <1>a, <1>b, <1>1, <1>2, <1>4 DEF Tracks, driverVars, CountAfter
<1>8. ASSUME NEW k \in 1 .. Len(wire')
      PROVE  /\ m[k] = ModifiersAfter(m[k - 1], wire'[k])
             /\ c[k] = CountAfter(c[k - 1], wire'[k])
             /\ Prints(wire'[k]) => typed'[c[k]] = Character(m[k - 1], wire'[k].key)
  <2>1. CASE k = last + 1
    BY <1>a, <1>b, <1>1, <1>2, <1>4, <2>1 DEF CountAfter
  <2>2. CASE k \in 1 .. last
    <3>1. k - 1 \in 0 .. last /\ m[k] = mods[k] /\ m[k - 1] = mods[k - 1]
          /\ c[k] = count[k] /\ c[k - 1] = count[k - 1] /\ wire'[k] = wire[k]
      BY <1>a, <1>b, <1>1, <2>2
    <3>2. /\ mods[k] = ModifiersAfter(mods[k - 1], wire[k])
          /\ count[k] = CountAfter(count[k - 1], wire[k])
          /\ Prints(wire[k]) => typed[count[k]] = Character(mods[k - 1], wire[k].key)
      BY <2>2 DEF Tracks
    <3>3. Prints(wire[k]) => count[k] \in 1 .. Len(typed)
      <4>1. count[k] \in 0 .. Len(typed) /\ count[k - 1] \in 0 .. Len(typed)
        <5>1. count \in [0 .. last -> 0 .. Len(typed)]
          BY DEF Tracks
        <5>2. QED BY <1>1, <2>2, <3>1, <5>1
      <4>2. QED BY <1>2, <3>2, <4>1 DEF CountAfter
    <3>4. Prints(wire[k]) => typed'[count[k]] = typed[count[k]]
      BY <1>2, <3>3
    <3>5. m[k] = ModifiersAfter(m[k - 1], wire'[k])
      BY <3>1, <3>2
    <3>6. c[k] = CountAfter(c[k - 1], wire'[k])
      BY <3>1, <3>2
    <3>7. Prints(wire'[k]) => typed'[c[k]] = Character(m[k - 1], wire'[k].key)
      BY <3>1, <3>2, <3>4
    <3>8. QED BY <3>5, <3>6, <3>7
  <2>3. k = last + 1 \/ k \in 1 .. last
    BY <1>1
  <2>4. QED BY <2>1, <2>2, <2>3
<1>9. Tracks(m, c)'
  BY <1>6, <1>7, <1>8 DEF Tracks
<1>10. Embeds(at, Delivered, c[0])'
  <2>1. c[0] = count[0] /\ count[0] \in 0 .. Len(typed)
    BY <1>b, <1>1 DEF Tracks
  <2>2. \A k \in 1 .. Len(Delivered) : at[k] \in 1 .. Len(typed)
    BY <1>2, <2>1 DEF Embeds
  <2>3. \A k \in 1 .. Len(Delivered) : typed'[at[k]] = typed[at[k]]
    BY <1>2, <2>2
  <2>4. QED BY <1>3, <2>1, <2>3 DEF Embeds
<1>11. QED BY <1>9, <1>10

\* What is among the first n characters typed is among the first n + 1.
LEMMA EmbedsInMore ==
  ASSUME NEW at, NEW chars \in Seq(Characters), NEW n \in Nat, Embeds(at, chars, n)
  PROVE  Embeds(at, chars, n + 1)
<1>1. at \in [1 .. Len(chars) -> 1 .. n + 1]
  BY DEF Embeds
<1>2. QED BY <1>1 DEF Embeds

\* Dropping the last character leaves an embedding.
LEMMA EmbedsShorter ==
  ASSUME NEW at, NEW n, KeyboardTypes, Embeds(at, Delivered, n)
  PROVE  \E b : Embeds(b, received, n)
<1>1. CASE Delivered = received
  BY <1>1
<1>2. CASE Delivered = Append(received, keyboard_buffer)
  <2> DEFINE b == [k \in 1 .. Len(received) |-> at[k]]
  <2>1. Len(received) \in Nat /\ Len(Delivered) = Len(received) + 1
        /\ \A k \in 1 .. Len(received) : Delivered[k] = received[k]
    BY <1>2 DEF KeyboardTypes
  <2>2. b \in [1 .. Len(received) -> 1 .. n]
    BY <2>1 DEF Embeds
  <2>3. \A k, m \in 1 .. Len(received) : k < m => b[k] < b[m]
    BY <2>1 DEF Embeds
  <2>4. \A k \in 1 .. Len(received) : received[k] = typed[b[k]]
    BY <2>1 DEF Embeds
  <2>5. Embeds(b, received, n)
    BY <2>2, <2>3, <2>4 DEF Embeds
  <2>6. QED BY <2>5
<1>3. QED BY <1>1, <1>2 DEF Delivered

\* The character typed next may follow.
LEMMA EmbedsLonger ==
  ASSUME NEW b, NEW chars \in Seq(Characters), NEW n \in Nat, Embeds(b, chars, n)
  PROVE  \E a : Embeds(a, Append(chars, typed[n + 1]), n + 1)
<1> DEFINE longer == Append(chars, typed[n + 1])
           a == [k \in 1 .. Len(chars) + 1 |-> IF k <= Len(chars) THEN b[k] ELSE n + 1]
<1>1. Len(chars) \in Nat /\ Len(longer) = Len(chars) + 1
      /\ longer[Len(chars) + 1] = typed[n + 1]
      /\ \A k \in 1 .. Len(chars) : longer[k] = chars[k]
  OBVIOUS
<1>2. \A k \in 1 .. Len(chars) : b[k] \in 1 .. n /\ a[k] = b[k]
  BY <1>1 DEF Embeds
<1>3. a[Len(chars) + 1] = n + 1
  BY <1>1
<1>4. a \in [1 .. Len(longer) -> 1 .. n + 1]
  <2>1. ASSUME NEW k \in 1 .. Len(longer) PROVE a[k] \in 1 .. n + 1
    <3>1. k \in 1 .. Len(chars) \/ k = Len(chars) + 1
      BY <1>1
    <3>2. QED BY <1>2, <1>3, <3>1
  <2>2. QED BY <1>1, <2>1
<1>5. \A k, m \in 1 .. Len(longer) : k < m => a[k] < a[m]
  <2>1. SUFFICES ASSUME NEW k \in 1 .. Len(longer), NEW m \in 1 .. Len(longer), k < m
                 PROVE  a[k] < a[m]
    OBVIOUS
  <2>2. k \in 1 .. Len(chars) /\ (m \in 1 .. Len(chars) \/ m = Len(chars) + 1)
    BY <1>1, <2>1
  <2>3. QED BY <1>2, <1>3, <2>1, <2>2 DEF Embeds
<1>6. \A k \in 1 .. Len(longer) : longer[k] = typed[a[k]]
  <2>1. SUFFICES ASSUME NEW k \in 1 .. Len(longer) PROVE longer[k] = typed[a[k]]
    OBVIOUS
  <2>2. k \in 1 .. Len(chars) \/ k = Len(chars) + 1
    BY <1>1
  <2>3. QED BY <1>1, <1>2, <1>3, <2>2 DEF Embeds
<1>7. Embeds(a, longer, n + 1)
  BY <1>4, <1>5, <1>6 DEF Embeds
<1>8. QED BY <1>7

-----------------------------------------------------------------------------
(* The user.                                                               *)

\* A key pressed: the scancode stands for the character the user means.
LEMMA PressTracked ==
  ASSUME NEW k \in Keys, Press(k), keyboard_input_on, KeyboardInv
  PROVE  KeyboardInv'
<1> DEFINE code == [key |-> k, up |-> FALSE]
<1>1. PICK mods, count, at : Tracks(mods, count) /\ Embeds(at, Delivered, count[0])
  BY DEF KeyboardInv
<1>2. code \in Scancodes
  BY DEF Scancodes
<1>3. mods[Len(wire)] \in SUBSET ModifierKeys
      /\ ("shift" \in held <=> "shift" \in mods[Len(wire)])
      /\ (capsOn <=> "caps" \in mods[Len(wire)])
  <2>1. Len(wire) \in Nat
    BY DEF KeyboardInv, KeyboardTypes, TypeOK
  <2>2. mods \in [0 .. Len(wire) -> SUBSET ModifierKeys]
    BY <1>1 DEF Tracks
  <2>3. QED BY <1>1, <2>1, <2>2 DEF Tracks
<1>4. Prints(code) <=> k \in Printing
  BY DEF Prints
<1>5. Meant("shift" \in held, capsOn, k) = Character(mods[Len(wire)], k)
  BY <1>3 DEF Character, KeyboardInv, KeyboardTypes
<1>6. typed' = IF Prints(code) THEN Append(typed, Character(mods[Len(wire)], code.key))
               ELSE typed
  BY <1>4, <1>5 DEF Press
<1>7. "shift" \notin Printing /\ "caps" \notin Printing
  BY KeyboardAssumption
<1>8. "shift" \in held' <=> "shift" \in ModifiersAfter(mods[Len(wire)], code)
  BY <1>3 DEF Press, ModifiersAfter
<1>9. capsOn' <=> "caps" \in ModifiersAfter(mods[Len(wire)], code)
  BY <1>3 DEF Press, ModifiersAfter, KeyboardInv, KeyboardTypes
<1>10. KeyboardTypes'
  <2>1. typed' \in Seq(Characters)
    <3>1. Prints(code) => Character(mods[Len(wire)], code.key) \in Characters
      BY <1>2, <1>3, AfterTyped
    <3>2. typed \in Seq(Characters)
      BY DEF KeyboardInv, KeyboardTypes
    <3>3. QED BY <1>6, <3>1, <3>2
  <2>2. wire' \in Seq(Scancodes)
    BY <1>2 DEF Press, KeyboardInv, KeyboardTypes, TypeOK
  <2>3. capsOn' \in BOOLEAN /\ held' \subseteq Keys /\ events' \in 0 .. MaxEvents
    BY KeyboardAssumption DEF Press, KeyboardInv, KeyboardTypes, TypeOK
  <2>4. QED BY <2>1, <2>2, <2>3 DEF Press, KeyboardInv, KeyboardTypes, TypeOK, driverVars
<1>11. wire' = Append(wire, code) /\ UNCHANGED <<driverVars, received>>
  BY DEF Press
<1>12. \E m, c, a : Tracks(m, c)' /\ Embeds(a, Delivered, c[0])'
  BY <1>1, <1>2, <1>6, <1>8, <1>9, <1>10, <1>11, WireGrows DEF KeyboardInv
<1>13. QED BY <1>10, <1>11, <1>12 DEF KeyboardInv, driverVars

\* A key released: the scancode gives no character.
LEMMA ReleaseTracked ==
  ASSUME NEW k \in Keys, ReleaseKey(k), keyboard_input_on, KeyboardInv
  PROVE  KeyboardInv'
<1> DEFINE code == [key |-> k, up |-> TRUE]
<1>1. PICK mods, count, at : Tracks(mods, count) /\ Embeds(at, Delivered, count[0])
  BY DEF KeyboardInv
<1>2. code \in Scancodes /\ ~Prints(code)
  BY DEF Scancodes, Prints
<1>3. ("shift" \in held <=> "shift" \in mods[Len(wire)])
      /\ (capsOn <=> "caps" \in mods[Len(wire)])
  BY <1>1 DEF Tracks
<1>4. "shift" \in held' <=> "shift" \in ModifiersAfter(mods[Len(wire)], code)
  BY <1>3 DEF ReleaseKey, ModifiersAfter
<1>5. capsOn' <=> "caps" \in ModifiersAfter(mods[Len(wire)], code)
  BY <1>3 DEF ReleaseKey, ModifiersAfter
<1>6. KeyboardTypes'
  <2>1. wire' \in Seq(Scancodes)
    BY <1>2 DEF ReleaseKey, KeyboardInv, KeyboardTypes, TypeOK
  <2>2. held' \subseteq Keys /\ events' \in 0 .. MaxEvents
    BY KeyboardAssumption DEF ReleaseKey, KeyboardInv, KeyboardTypes, TypeOK
  <2>3. QED BY <2>1, <2>2 DEF ReleaseKey, KeyboardInv, KeyboardTypes, TypeOK, driverVars
<1>7. wire' = Append(wire, code) /\ UNCHANGED <<driverVars, received>>
      /\ typed' = IF Prints(code) THEN Append(typed, Character(mods[Len(wire)], code.key))
                  ELSE typed
  BY <1>2 DEF ReleaseKey
<1>8. \E m, c, a : Tracks(m, c)' /\ Embeds(a, Delivered, c[0])'
  BY <1>1, <1>2, <1>4, <1>5, <1>6, <1>7, WireGrows DEF KeyboardInv
<1>9. QED BY <1>6, <1>7, <1>8 DEF KeyboardInv, driverVars

-----------------------------------------------------------------------------
(* The driver.                                                             *)

\* The interrupt takes the first scancode off the wire, and the driver comes
\* to what was foreseen for it.
LEMMA InterruptTracked ==
  ASSUME KeyboardInterrupt, KeyboardInv
  PROVE  KeyboardInv'
<1> DEFINE code == Head(wire)
<1>1. PICK mods, count, at : Tracks(mods, count) /\ Embeds(at, Delivered, count[0])
  BY DEF KeyboardInv
<1>2. wire # <<>> /\ wire \in Seq(Scancodes) /\ keyboard_input_on
  BY DEF KeyboardInterrupt, KeyboardInv, KeyboardTypes, TypeOK
<1>3. /\ Len(wire) \in Nat \ {0} /\ code \in Scancodes /\ code = wire[1]
      /\ Len(wire') = Len(wire) - 1 /\ wire' \in Seq(Scancodes)
      /\ \A k \in 1 .. Len(wire') : wire'[k] = wire[k + 1]
  BY <1>2 DEF KeyboardInterrupt
<1>4. /\ isShift' = ShiftAfter(code) /\ isCapsLock' = CapsLockAfter(code)
      /\ keyboard_buffer' = BufferAfter(code)
      /\ inService' = PicAck(inService \cup {1})
      /\ UNCHANGED <<keyboard_input_on, held, capsOn, events, typed, received>>
  BY <1>2 DEF KeyboardInterrupt, KeyboardIsr
<1>5. PICK m : m = [k \in 0 .. Len(wire) - 1 |-> mods[k + 1]]
  OBVIOUS
<1>6. PICK c : c = [k \in 0 .. Len(wire) - 1 |-> count[k + 1]]
  OBVIOUS
<1>7. /\ mods \in [0 .. Len(wire) -> SUBSET ModifierKeys]
      /\ count \in [0 .. Len(wire) -> 0 .. Len(typed)]
  BY <1>1 DEF Tracks
<1>8. /\ mods[1] = ModifiersAfter(mods[0], code)
      /\ count[1] = CountAfter(count[0], code)
      /\ Prints(code) => typed[count[1]] = Character(mods[0], code.key)
  BY <1>1, <1>3 DEF Tracks
<1>9. m[0] = mods[1] /\ c[0] = count[1] /\ mods[0] \in SUBSET ModifierKeys
      /\ count[0] \in Nat
  BY <1>3, <1>5, <1>6, <1>7
<1>10. "shift" \notin Printing /\ "caps" \notin Printing
  BY KeyboardAssumption
<1>11. Prints(code) <=> ~Modifier(code) /\ ~code.up
  BY <1>3, <1>10 DEF Prints, Modifier, Scancodes, Keys
<1>12. Prints(code) => /\ BufferAfter(code) = Meant(isShift, isCapsLock, code.key)
                      /\ BufferAfter(code) \in Characters /\ BufferAfter(code) # NoChar
  BY <1>11, MapsMeant DEF Prints, BufferAfter, KeyboardInv, KeyboardTypes, TypeOK
<1>13. ~Prints(code) => BufferAfter(code) \in {NoChar, keyboard_buffer}
  BY <1>11 DEF BufferAfter
<1>14. KeyboardTypes'
  <2>1. keyboard_buffer' \in Characters \cup {NoChar}
    BY <1>4, <1>12, <1>13 DEF KeyboardInv, KeyboardTypes, TypeOK
  <2>2. isShift' \in BOOLEAN
    BY <1>3, <1>4 DEF ShiftAfter, Scancodes, KeyboardInv, KeyboardTypes, TypeOK
  <2>3. isCapsLock' \in BOOLEAN
    BY <1>4 DEF CapsLockAfter, KeyboardInv, KeyboardTypes, TypeOK
  <2>4. inService' \subseteq Irqs
    BY <1>4 DEF PicAck, Irqs, KeyboardInv, KeyboardTypes, TypeOK
  <2>5. QED BY <1>3, <1>4, <2>1, <2>2, <2>3, <2>4 DEF KeyboardInv, KeyboardTypes, TypeOK
<1>15. Tracks(m, c)'
  <2>1. /\ m \in [0 .. Len(wire') -> SUBSET ModifierKeys]
        /\ c \in [0 .. Len(wire') -> 0 .. Len(typed')]
    BY <1>3, <1>4, <1>5, <1>6, <1>7
  <2>2. isShift' <=> "shift" \in m[0]
    <3>1. isShift <=> "shift" \in mods[0]
      BY <1>1 DEF Tracks
    <3>2. CASE code.key = "shift"
      <4>1. "shift" \in ModifiersAfter(mods[0], code) <=> ~code.up
        BY <3>2 DEF ModifiersAfter
      <4>2. isShift' <=> ~code.up
        BY <1>4, <3>2 DEF ShiftAfter
      <4>3. QED BY <1>8, <1>9, <4>1, <4>2
    <3>3. CASE code.key # "shift"
      <4>1. "shift" \in ModifiersAfter(mods[0], code) <=> "shift" \in mods[0]
        BY <3>3 DEF ModifiersAfter
      <4>2. isShift' = isShift
        BY <1>4, <3>3 DEF ShiftAfter
      <4>3. QED BY <1>8, <1>9, <3>1, <4>1, <4>2
    <3>4. QED BY <3>2, <3>3
  <2>3. isCapsLock' <=> "caps" \in m[0]
    <3>1. isCapsLock <=> "caps" \in mods[0]
      BY <1>1 DEF Tracks
    <3>2. code = [key |-> "caps", up |-> FALSE] <=> code.key = "caps" /\ ~code.up
      BY <1>3 DEF Scancodes
    <3>3. CASE code.key = "caps" /\ ~code.up
      <4>1. "caps" \in ModifiersAfter(mods[0], code) <=> "caps" \notin mods[0]
        BY <3>3 DEF ModifiersAfter
      <4>2. isCapsLock' = ~isCapsLock
        BY <1>4, <3>2, <3>3 DEF CapsLockAfter
      <4>3. QED BY <1>8, <1>9, <3>1, <4>1, <4>2
    <3>4. CASE ~(code.key = "caps" /\ ~code.up)
      <4>1. "caps" \in ModifiersAfter(mods[0], code) <=> "caps" \in mods[0]
        BY <3>4 DEF ModifiersAfter
      <4>2. isCapsLock' = isCapsLock
        BY <1>4, <3>2, <3>4 DEF CapsLockAfter
      <4>3. QED BY <1>8, <1>9, <3>1, <4>1, <4>2
    <3>5. QED BY <3>3, <3>4
  <2>4. m[Len(wire')] = mods[Len(wire)] /\ c[Len(wire')] = count[Len(wire)]
    BY <1>3, <1>5, <1>6
  <2>5. /\ "shift" \in held' <=> "shift" \in m[Len(wire')]
        /\ capsOn' <=> "caps" \in m[Len(wire')]
        /\ c[Len(wire')] = Len(typed')
    BY <1>1, <1>4, <2>4 DEF Tracks
  <2>6. ASSUME NEW k \in 1 .. Len(wire')
        PROVE  /\ m[k] = ModifiersAfter(m[k - 1], wire'[k])
               /\ c[k] = CountAfter(c[k - 1], wire'[k])
               /\ Prints(wire'[k]) => typed'[c[k]] = Character(m[k - 1], wire'[k].key)
    <3>1. k + 1 \in 1 .. Len(wire) /\ (k + 1) - 1 = k
      BY <1>3
    <3>2. /\ mods[k + 1] = ModifiersAfter(mods[k], wire[k + 1])
          /\ count[k + 1] = CountAfter(count[k], wire[k + 1])
          /\ Prints(wire[k + 1]) => typed[count[k + 1]] = Character(mods[k], wire[k + 1].key)
      BY <1>1, <3>1 DEF Tracks
    <3>3. m[k] = mods[k + 1] /\ m[k - 1] = mods[k] /\ c[k] = count[k + 1]
          /\ c[k - 1] = count[k] /\ wire'[k] = wire[k + 1]
      BY <1>3, <1>5, <1>6
    <3>4. QED BY <1>4, <3>2, <3>3
  <2>7. QED BY <2>1, <2>2, <2>3, <2>5, <2>6 DEF Tracks
<1>16. PICK b : Embeds(b, received, count[0])
  BY <1>1, EmbedsShorter DEF KeyboardInv
<1>17. received \in Seq(Characters) /\ Delivered \in Seq(Characters)
  BY DEF KeyboardInv, KeyboardTypes, TypeOK, Delivered
<1>18. \E a : Embeds(a, Delivered', c[0])
  <2>1. CASE Prints(code)
    <3>1. keyboard_buffer' = typed[count[0] + 1] /\ c[0] = count[0] + 1
      <4>1. isShift = ("shift" \in mods[0]) /\ isCapsLock = ("caps" \in mods[0])
        BY <1>1 DEF Tracks, KeyboardInv, KeyboardTypes, TypeOK
      <4>2. Meant(isShift, isCapsLock, code.key) = Character(mods[0], code.key)
        BY <4>1 DEF Character
      <4>3. QED BY <1>4, <1>8, <1>9, <1>12, <2>1, <4>2 DEF CountAfter
    <3>2. Delivered' = Append(received, typed[count[0] + 1])
      BY <1>4, <1>12, <2>1, <3>1 DEF Delivered
    <3>3. QED BY <1>9, <1>16, <1>17, <3>1, <3>2, EmbedsLonger
  <2>2. CASE ~Prints(code)
    <3>1. c[0] = count[0]
      BY <1>8, <1>9, <2>2 DEF CountAfter
    <3>2. Delivered' = received \/ Delivered' = Delivered
      BY <1>4, <1>13, <2>2 DEF Delivered
    <3>3. QED BY <1>1, <1>16, <3>1, <3>2
  <2>3. QED BY <2>1, <2>2
<1>19. \E a : Embeds(a, Delivered, c[0])'
  BY <1>4, <1>18 DEF Embeds
<1>20. QED BY <1>2, <1>4, <1>14, <1>15, <1>19 DEF KeyboardInv

\* A tick of the timer concerns the interrupt controller only.
LEMMA TimerTracked ==
  ASSUME TimerInterrupt, KeyboardInv
  PROVE  KeyboardInv'
<1>1. UNCHANGED <<driverVars, wire, held, capsOn, events, typed, received>>
      /\ inService' \subseteq Irqs
  BY DEF TimerInterrupt, PicAck, Irqs, KeyboardInv, KeyboardTypes, TypeOK
<1>2. KeyboardTypes'
  BY <1>1 DEF KeyboardInv, KeyboardTypes, TypeOK, driverVars
<1>3. PICK mods, count, at : Tracks(mods, count) /\ Embeds(at, Delivered, count[0])
  BY DEF KeyboardInv
<1>4. Tracks(mods, count)'
  BY <1>1, <1>3 DEF Tracks, driverVars
<1>5. Embeds(at, Delivered, count[0])'
  BY <1>1, <1>3 DEF Embeds, Delivered, driverVars
<1>6. QED BY <1>1, <1>2, <1>4, <1>5 DEF KeyboardInv, driverVars

\* A poll moves the character from the buffer to the process.
LEMMA PollTracked ==
  ASSUME GetKeyboardBuffer, KeyboardInv
  PROVE  KeyboardInv'
<1>1. keyboard_buffer' = NoChar /\ received' = Delivered
      /\ UNCHANGED <<keyboard_input_on, others>>
  BY DEF GetKeyboardBuffer, Delivered
<1>2. Delivered' = Delivered
  BY <1>1 DEF Delivered
<1>3. KeyboardTypes'
  BY <1>1 DEF KeyboardInv, KeyboardTypes, TypeOK, others, Delivered
<1>4. PICK mods, count, at : Tracks(mods, count) /\ Embeds(at, Delivered, count[0])
  BY DEF KeyboardInv
<1>5. Tracks(mods, count)'
  BY <1>1, <1>4 DEF Tracks, others
<1>6. Embeds(at, Delivered, count[0])'
  BY <1>1, <1>2, <1>4 DEF Embeds, others
<1>7. QED BY <1>1, <1>3, <1>5, <1>6 DEF KeyboardInv, others

\* Switching the input on, or off when nothing is on the wire.
LEMMA SwitchTracked ==
  ASSUME keyboard_input_on' \in BOOLEAN, wire = <<>> \/ keyboard_input_on',
         UNCHANGED <<keyboard_buffer, received, others>>, KeyboardInv
  PROVE  KeyboardInv'
<1>1. PICK mods, count, at : Tracks(mods, count) /\ Embeds(at, Delivered, count[0])
  BY DEF KeyboardInv
<1>2. KeyboardTypes'
  BY DEF KeyboardInv, KeyboardTypes, TypeOK, others
<1>3. Tracks(mods, count)'
  BY <1>1 DEF Tracks, others
<1>4. Embeds(at, Delivered, count[0])'
  BY <1>1 DEF Embeds, Delivered, others
<1>5. QED BY <1>2, <1>3, <1>4 DEF KeyboardInv, others

\* Everything else leaves the keyboard alone.
LEMMA StutterTracked ==
  ASSUME UNCHANGED vars, KeyboardInv
  PROVE  KeyboardInv'
<1>1. UNCHANGED <<keyboard_buffer, received, others>> /\ keyboard_input_on' = keyboard_input_on
  BY DEF vars, others
<1>2. QED BY <1>1, SwitchTracked DEF KeyboardInv, KeyboardTypes, TypeOK

-----------------------------------------------------------------------------
(* The invariant and what follows from it.                                 *)

LEMMA KeyboardInitially == Init => KeyboardInv
<1> SUFFICES ASSUME Init PROVE KeyboardInv
  OBVIOUS
<1>1. KeyboardTypes
  <2>1. <<>> \in Seq(Scancodes) /\ <<>> \in Seq(Characters) /\ 0 \in 0 .. MaxEvents
    BY KeyboardAssumption
  <2>2. TypeOK
    BY <2>1 DEF Init, TypeOK
  <2>3. QED BY <2>1, <2>2 DEF Init, KeyboardTypes
<1>2. wire = <<>> /\ typed = <<>> /\ Delivered = <<>>
  BY DEF Init, Delivered
<1>3. Tracks([k \in {0} |-> {}], [k \in {0} |-> 0])
  BY <1>2 DEF Init, Tracks
<1>4. Embeds([k \in {} |-> 0], Delivered, 0)
  BY <1>2 DEF Embeds
<1>5. QED BY <1>1, <1>2, <1>3, <1>4 DEF KeyboardInv

LEMMA KeyboardStep == KeyboardInv /\ [PatientStep]_vars => KeyboardInv'
<1> SUFFICES ASSUME KeyboardInv, [PatientStep]_vars PROVE KeyboardInv'
  OBVIOUS
<1>1. CASE keyboard_input_on /\ Type
  BY <1>1, PressTracked, ReleaseTracked DEF Type
<1>2. CASE Interrupts
  BY <1>2, TimerTracked, InterruptTracked DEF Interrupts
<1>3. CASE Calls
  BY <1>3, SwitchTracked, PollTracked DEF Calls, KeyboardStateActivate
<1>4. CASE wire = <<>> /\ KeyboardStateDeactivate
  BY <1>4, SwitchTracked DEF KeyboardStateDeactivate
<1>5. CASE UNCHANGED vars
  BY <1>5, StutterTracked
<1>6. QED BY <1>1, <1>2, <1>3, <1>4, <1>5 DEF PatientStep

\* Once the scancodes are handled nothing is left to foresee.
LEMMA KeyboardFollows == KeyboardInv => ModifiersFollowKeys
<1> SUFFICES ASSUME KeyboardInv, wire = <<>>
             PROVE  isShift = ("shift" \in held) /\ isCapsLock = capsOn
  BY DEF ModifiersFollowKeys
<1>1. PICK mods, count : Tracks(mods, count)
  BY DEF KeyboardInv
<1>2. Len(wire) = 0
  OBVIOUS
<1>3. isShift <=> "shift" \in held
  BY <1>1, <1>2 DEF Tracks
<1>4. isCapsLock <=> capsOn
  BY <1>1, <1>2 DEF Tracks
<1>5. QED BY <1>3, <1>4 DEF KeyboardInv, KeyboardTypes, TypeOK

LEMMA KeyboardOrdered == KeyboardInv => ReceivedInOrder
<1> SUFFICES ASSUME KeyboardInv PROVE IsSubsequence(Delivered, typed)
  BY DEF ReceivedInOrder, Delivered
<1>1. PICK mods, count, at : Tracks(mods, count) /\ Embeds(at, Delivered, count[0])
  BY DEF KeyboardInv
<1>2. typed \in Seq(Characters) /\ Delivered \in Seq(Characters) /\ wire \in Seq(Scancodes)
  BY DEF KeyboardInv, KeyboardTypes, TypeOK, Delivered
<1>3. count[0] \in 0 .. Len(typed)
  <2>1. Len(wire) \in Nat /\ count \in [0 .. Len(wire) -> 0 .. Len(typed)]
    BY <1>1, <1>2 DEF Tracks
  <2>2. QED BY <2>1
<1>4. at \in [DOMAIN Delivered -> DOMAIN typed]
  <2>1. at \in [1 .. Len(Delivered) -> 1 .. count[0]]
    BY <1>1 DEF Embeds
  <2>2. DOMAIN Delivered = 1 .. Len(Delivered) /\ DOMAIN typed = 1 .. Len(typed)
        /\ Len(typed) \in Nat
    BY <1>2
  <2>3. 1 .. count[0] \subseteq 1 .. Len(typed)
    BY <1>3, <2>2
  <2>4. QED BY <2>1, <2>2, <2>3
<1>5. QED BY <1>1, <1>2, <1>4 DEF Embeds, IsSubsequence
=============================================================================
