------------------------------ MODULE Keyboard ------------------------------
(***************************************************************************)
(* The keyboard driver of keyboard.c, from the keys a user presses, over   *)
(* the interrupt controller, to the one-character buffer that a process    *)
(* polls.  The controller accepts a request only if nothing of the same or *)
(* a higher priority is in service, and an acknowledgement takes the       *)
(* highest priority out of service.                                        *)
(***************************************************************************)
EXTENDS Integers, Sequences, SequencesExt

CONSTANTS
  MaxEvents,  \* bound: key presses and releases in a behaviour
  Printing    \* the keys the user has that give a character

ASSUME KeyboardAssumption ==
  /\ MaxEvents \in Nat
  /\ Printing \subseteq {"letter", "digit", "backspace", "enter"}

VARIABLES
  keyboard_input_on,  \* keyboard_state
  keyboard_buffer,    \* keyboard_state
  isShift,            \* static in keyboard_isr
  isCapsLock,         \* static in keyboard_isr
  wire,               \* scancodes the keyboard has yet to hand over
  inService,          \* the controller's requests in service
  held,               \* the user: keys that are down
  capsOn,             \* the user: the state of caps lock
  events,             \* bound: events so far
  typed,              \* history: the characters the user meant
  received            \* history: the characters processes have read

vars == <<keyboard_input_on, keyboard_buffer, isShift, isCapsLock, wire,
          inService, held, capsOn, events, typed, received>>

Keys      == Printing \cup {"shift", "caps"}
NoChar    == ""
Backspace == "BS"
Newline   == "NL"

Characters == {"a", "A", "1", "!", Backspace, Newline}

\* A scancode is a key and whether it was released.
Scancodes == [key: Keys, up: BOOLEAN]

\* The character the user means by a printing key.
Meant(shift, caps, key) ==
  CASE key = "letter"    -> IF shift # caps THEN "A" ELSE "a"
    [] key = "digit"     -> IF shift THEN "!" ELSE "1"
    [] key = "backspace" -> Backspace
    [] key = "enter"     -> Newline

\* keyboard_scancode_1..4_to_ascii_map, on one letter, one digit and
\* two keys that every map treats alike.
ScancodeMap1 == [letter |-> "a", digit |-> "1", backspace |-> Backspace, enter |-> Newline]
ScancodeMap2 == [letter |-> "A", digit |-> "1", backspace |-> Backspace, enter |-> Newline]
ScancodeMap3 == [letter |-> "A", digit |-> "!", backspace |-> Backspace, enter |-> Newline]
ScancodeMap4 == [letter |-> "a", digit |-> "!", backspace |-> Backspace, enter |-> Newline]

\* The map that keyboard_isr selects.
AsciiMap(shift, caps) ==
  CASE shift /\ caps   -> ScancodeMap4
    [] shift /\ ~caps  -> ScancodeMap3
    [] ~shift /\ caps  -> ScancodeMap2
    [] ~shift /\ ~caps -> ScancodeMap1

Irqs == {0, 1}          \* IRQ_TIMER, IRQ_KEYBOARD

TypeOK ==
  /\ keyboard_input_on \in BOOLEAN
  /\ keyboard_buffer \in Characters \cup {NoChar}
  /\ isShift \in BOOLEAN /\ isCapsLock \in BOOLEAN
  /\ wire \in Seq(Scancodes)
  /\ inService \subseteq Irqs
  /\ held \subseteq Keys
  /\ events \in 0 .. MaxEvents

Init ==
  /\ keyboard_input_on = FALSE
  /\ keyboard_buffer = NoChar
  /\ isShift = FALSE /\ isCapsLock = FALSE
  /\ wire = <<>>
  /\ inService = {}
  /\ held = {} /\ capsOn = FALSE
  /\ events = 0 /\ typed = <<>> /\ received = <<>>

driverVars == <<keyboard_input_on, keyboard_buffer, isShift, isCapsLock>>

-----------------------------------------------------------------------------
(* The user and the keyboard.                                              *)

\* A printing key that is held repeats.
Press(k) ==
  /\ events < MaxEvents
  /\ (k \in held => k \in Printing)
  /\ events' = events + 1
  /\ held' = held \cup {k}
  /\ capsOn' = (capsOn # (k = "caps"))
  /\ wire' = Append(wire, [key |-> k, up |-> FALSE])
  /\ typed' = IF k \in Printing THEN Append(typed, Meant("shift" \in held, capsOn, k))
              ELSE typed
  /\ UNCHANGED <<driverVars, inService, received>>

ReleaseKey(k) ==
  /\ events < MaxEvents /\ k \in held
  /\ events' = events + 1
  /\ held' = held \ {k}
  /\ wire' = Append(wire, [key |-> k, up |-> TRUE])
  /\ UNCHANGED <<driverVars, inService, capsOn, typed, received>>

Type == \E k \in Keys : Press(k) \/ ReleaseKey(k)

-----------------------------------------------------------------------------
(* Interrupts.                                                             *)

Accepted(irq) == \A i \in inService : irq < i

\* pic_ack of either request: the command does not say which.
PicAck(S) == S \ {CHOOSE i \in S : \A j \in S : i <= j}

TimerInterrupt ==
  /\ Accepted(0)
  /\ inService' = PicAck(inService \cup {0})
  /\ UNCHANGED <<driverVars, wire, held, capsOn, events, typed, received>>

\* Mutant: the release of shift is not noticed.
ShiftSticky(code) == code.key = "shift" \/ isShift

\* The modifiers, and what the maps give for the other scancodes: nothing
\* for a key released.
ShiftAfter(code) == IF code.key = "shift" THEN ~code.up ELSE isShift

CapsLockAfter(code) ==
  IF code = [key |-> "caps", up |-> FALSE] THEN ~isCapsLock ELSE isCapsLock

Modifier(code) == code.key = "shift" \/ code = [key |-> "caps", up |-> FALSE]

\* Mutant: the maps end at the last key, and a released key reads past them.
BufferAfterPastMap(code) ==
  IF Modifier(code) THEN keyboard_buffer
  ELSE IF code.up THEN "garbage"
  ELSE AsciiMap(isShift, isCapsLock)[code.key]

BufferAfter(code) ==
  IF Modifier(code) THEN keyboard_buffer
  ELSE IF code.up THEN NoChar
  ELSE AsciiMap(isShift, isCapsLock)[code.key]

\* Mutant: no request is acknowledged.
KeyboardIsrWithoutAck(code) ==
  /\ isShift' = ShiftAfter(code)
  /\ isCapsLock' = CapsLockAfter(code)
  /\ keyboard_buffer' = BufferAfter(code)
  /\ inService' = inService \cup {1}

\* keyboard_isr: with the input off the request is not acknowledged.
KeyboardIsr(code) ==
  \/ /\ keyboard_input_on
     /\ isShift' = ShiftAfter(code)
     /\ isCapsLock' = CapsLockAfter(code)
     /\ keyboard_buffer' = BufferAfter(code)
     /\ inService' = PicAck(inService \cup {1})
  \/ /\ ~keyboard_input_on
     /\ inService' = inService \cup {1}
     /\ UNCHANGED <<isShift, isCapsLock, keyboard_buffer>>

KeyboardInterrupt ==
  /\ wire # <<>> /\ Accepted(1)
  /\ wire' = Tail(wire)
  /\ KeyboardIsr(Head(wire))
  /\ UNCHANGED <<keyboard_input_on, held, capsOn, events, typed, received>>

-----------------------------------------------------------------------------
(* System calls.                                                           *)

others == <<isShift, isCapsLock, wire, inService, held, capsOn, events, typed>>

\* syscall 7
KeyboardStateActivate ==
  /\ keyboard_input_on' = TRUE
  /\ UNCHANGED <<keyboard_buffer, received, others>>

\* syscall 8
KeyboardStateDeactivate ==
  /\ keyboard_input_on' = FALSE
  /\ UNCHANGED <<keyboard_buffer, received, others>>

\* Mutant: the buffer is not flushed.
GetWithoutFlush ==
  /\ received' = IF keyboard_buffer = NoChar THEN received
                 ELSE Append(received, keyboard_buffer)
  /\ UNCHANGED <<keyboard_input_on, keyboard_buffer, others>>

\* syscall 4
GetKeyboardBuffer ==
  /\ received' = IF keyboard_buffer = NoChar THEN received
                 ELSE Append(received, keyboard_buffer)
  /\ keyboard_buffer' = NoChar
  /\ UNCHANGED <<keyboard_input_on, others>>

Interrupts == TimerInterrupt \/ KeyboardInterrupt

Calls == KeyboardStateActivate \/ GetKeyboardBuffer

\* Interrupts are enabled outside handlers and every handler returns; the
\* shell activates the keyboard before anything else.
Fairness == WF_vars(KeyboardInterrupt) /\ WF_vars(KeyboardStateActivate)

\* A user who may type at any time, with the programs in the repository:
\* none of them deactivates the keyboard.
ImpatientSpec == Init /\ [][Type \/ Interrupts \/ Calls]_vars /\ Fairness

-----------------------------------------------------------------------------
(* Properties.                                                             *)

\* seq with some of its elements left out, in the same order.
IsSubsequence(sub, seq) ==
  \E at \in [DOMAIN sub -> DOMAIN seq] :
    /\ \A m, n \in DOMAIN sub : m < n => at[m] < at[n]
    /\ \A n \in DOMAIN sub : sub[n] = seq[at[n]]

\* Characters may be overwritten before a process polls them, but what the
\* processes read is what the user typed, in the order typed, each character
\* once and in the case meant, including the one still in the buffer.
ReceivedInOrder ==
  IsSubsequence(IF keyboard_buffer = NoChar THEN received
                ELSE Append(received, keyboard_buffer), typed)

\* Once the scancodes are handled the driver's modifiers are the user's.
ModifiersFollowKeys ==
  wire = <<>> => isShift = ("shift" \in held) /\ isCapsLock = capsOn

\* Every key pressed or released is handled.
KeysHandled == (wire # <<>>) ~> (wire = <<>>)

\* Documented in keyboard.h (45, "Activate keyboard ISR / start listen
\* keyboard & save to buffer"): while the keyboard is active its scancodes
\* are handled.
ListensOnceActivated ==
  (keyboard_input_on /\ wire # <<>>) ~> (wire = <<>> \/ ~keyboard_input_on)
=============================================================================
