------------------------------ MODULE Keyboard ------------------------------
(***************************************************************************)
(* The PS/2 keyboard driver (kernel/keyboard.c): the interrupt handler     *)
(* turns scan codes into characters and pushes them in a ring buffer; the  *)
(* shell's keyboard_getchar waits for the ring with "hlt" and pops it.     *)
(*                                                                         *)
(* The handler runs to completion between two machine-level steps of the   *)
(* reader, so it is one action, and the reader takes one action for each   *)
(* access to what it shares with the handler.  Scan codes are the bytes    *)
(* of the code.  A character is <<scan code, table>>: the entry of one of  *)
(* the two tables that produced it.                                        *)
(***************************************************************************)
EXTENDS Integers, Sequences

CONSTANTS
    KB_BUFFER_SIZE,     \* slots in the ring (256 in the code)
    Keyboards,          \* bound: the keyboards there may be, each a set of keys,
                        \* which are what they send
    IrqRouted,          \* does IRQ1 reach keyboard_handler?
    WireMax             \* bound: bytes the controller holds for the handler

Byte == 0..255
Keys == UNION Keyboards

ShiftCodes == {42, 54}                  \* KEY_LSHIFT, KEY_RSHIFT
CtrlCode == 29
AltCode == 56
CapsCode == 58
Modifiers == ShiftCodes \union {CtrlCode, AltCode, CapsCode}

ASSUME RingAssumption == KB_BUFFER_SIZE \in Nat /\ KB_BUFFER_SIZE > 1
ASSUME WireAssumption == WireMax \in Nat /\ IrqRouted \in BOOLEAN
\* A key sends "make" when it goes down, "repeat" while it stays down and
\* "break" when it comes up.
ASSUME KeysAssumption ==
    Keys \subseteq [make : Seq(Byte), repeat : Seq(Byte), break : Seq(Byte)]

Sends(bytes, codes) == \E i \in DOMAIN bytes : bytes[i] \in codes

\* A key that sends the code of a modifier, of its own or as a fake shift,
\* sends it when it goes down and takes it back when it comes up.
ASSUME ReleaseAssumption ==
    \A k \in Keys, codes \in {ShiftCodes, {CtrlCode}, {AltCode}} :
        /\ Sends(k.repeat, codes) => Sends(k.make, codes)
        /\ Sends(k.make, codes) => Sends(k.break, {c + 128 : c \in codes})
        /\ ~Sends(k.break, codes)

\* The scan codes with a character in both tables.
Printing == (1..57) \ {CtrlCode, AltCode, 42, 54}
Chars == Printing \X {0, 1}
NUL == <<0, 0>>

VARIABLES
    kb_buffer, kb_head, kb_tail,                        \* the ring
    shift_pressed, ctrl_pressed, alt_pressed,           \* the modifiers
    capslock_on, extended,
    pc, sc, ret,        \* keyboard_getchar: where it is, its local, its result
    reloads,            \* does the compiled wait loop read kb_head again?
    keys,               \* the keys of the keyboard
    wire,               \* bytes sent by the keyboard, not yet handled
    held,               \* the keys that are physically down
    offered             \* auxiliary: the last character handed to the ring

ring == <<kb_buffer, kb_head, kb_tail>>
modifiers == <<shift_pressed, ctrl_pressed, alt_pressed, capslock_on, extended>>
reader == <<pc, sc, ret>>
fixed == <<reloads, keys>>
kbVars == <<ring, modifiers, reader, fixed, wire, held, offered>>

Pcs == {"caller", "check", "hlt", "halted", "popcheck", "popread", "advance"}

TypeOK ==
    /\ kb_buffer \in [0..(KB_BUFFER_SIZE - 1) -> Chars \union {NUL}]
    /\ kb_head \in 0..(KB_BUFFER_SIZE - 1)
    /\ kb_tail \in 0..(KB_BUFFER_SIZE - 1)
    /\ shift_pressed \in {0, 1}
    /\ ctrl_pressed \in {0, 1}
    /\ alt_pressed \in {0, 1}
    /\ capslock_on \in {0, 1}
    /\ extended \in {0, 1}
    /\ pc \in Pcs
    /\ sc \in Chars \union {NUL}
    /\ ret \in Chars \union {NUL}
    /\ reloads \in BOOLEAN
    /\ keys \in Keyboards
    /\ wire \in Seq(Byte)
    /\ held \subseteq Keys
    /\ offered \in (Chars \union {NUL}) \X {0, 1}

\* kb_head and kb_tail are not volatile and "hlt" clobbers no memory: a build
\* may keep the value that the wait loop read first.
Init ==
    /\ kb_buffer = [i \in 0..(KB_BUFFER_SIZE - 1) |-> NUL]
    /\ kb_head = 0 /\ kb_tail = 0
    /\ shift_pressed = 0 /\ ctrl_pressed = 0 /\ alt_pressed = 0
    /\ capslock_on = 0 /\ extended = 0
    /\ pc = "caller" /\ sc = NUL /\ ret = NUL
    /\ reloads \in BOOLEAN /\ keys \in Keyboards
    /\ wire = <<>> /\ held = {}
    /\ offered = <<NUL, 0>>

-----------------------------------------------------------------------------
(* The user.  A key may be pressed, held long enough to repeat, released.  *)

Send(bytes) ==
    /\ Len(wire) + Len(bytes) <= WireMax
    /\ wire' = wire \o bytes
    /\ UNCHANGED <<ring, modifiers, reader, fixed, offered>>

Press(k) == k \notin held /\ Send(k.make) /\ held' = held \union {k}
Repeat(k) == k \in held /\ Send(k.repeat) /\ UNCHANGED held
Release(k) == k \in held /\ Send(k.break) /\ held' = held \ {k}

User == \E k \in keys : Press(k) \/ Repeat(k) \/ Release(k)

-----------------------------------------------------------------------------
(* keyboard_handler, entered by IRQ1.                                      *)

\* Mutant of RingNext: the index does not wrap.
RingNextNoWrap(i) == i + 1

RingNext(i) == (i + 1) % KB_BUFFER_SIZE

\* Mutants of kb_buffer_push: no test for a full ring; a slot too few.
PushUnchecked(c) ==
    /\ kb_buffer' = [kb_buffer EXCEPT ![kb_head] = c]
    /\ kb_head' = RingNext(kb_head)
    /\ UNCHANGED kb_tail

PushEarlyFull(c) ==
    /\ IF RingNext(RingNext(kb_head)) # kb_tail
       THEN PushUnchecked(c)
       ELSE UNCHANGED ring

kb_buffer_push(c) ==
    /\ IF RingNext(kb_head) # kb_tail
       THEN /\ kb_buffer' = [kb_buffer EXCEPT ![kb_head] = c]
            /\ kb_head' = RingNext(kb_head)
       ELSE UNCHANGED <<kb_buffer, kb_head>>
    /\ UNCHANGED kb_tail

\* scancode_to_ascii (table 0) and scancode_to_ascii_shift (table 1)
ToAscii(code, table) == IF code \in Printing THEN <<code, table>> ELSE NUL

\* Mutant of BreakCode: a modifier is cleared by the code of its make.
BreakUnmasked(code) ==
    /\ shift_pressed' = IF code + 128 \in ShiftCodes THEN 0 ELSE shift_pressed
    /\ ctrl_pressed' = IF code + 128 = CtrlCode THEN 0 ELSE ctrl_pressed
    /\ alt_pressed' = IF code + 128 = AltCode THEN 0 ELSE alt_pressed
    /\ extended' = 0
    /\ UNCHANGED <<ring, capslock_on, offered>>

BreakCode(code) ==
    /\ shift_pressed' = IF code \in ShiftCodes THEN 0 ELSE shift_pressed
    /\ ctrl_pressed' = IF code = CtrlCode THEN 0 ELSE ctrl_pressed
    /\ alt_pressed' = IF code = AltCode THEN 0 ELSE alt_pressed
    /\ extended' = 0
    /\ UNCHANGED <<ring, capslock_on, offered>>

Prefix ==
    /\ extended' = 1
    /\ UNCHANGED <<ring, shift_pressed, ctrl_pressed, alt_pressed,
                   capslock_on, offered>>

MakeCode(code) ==
    /\ shift_pressed' = IF code \in ShiftCodes THEN 1 ELSE shift_pressed
    /\ ctrl_pressed' = IF code = CtrlCode THEN 1 ELSE ctrl_pressed
    /\ alt_pressed' = IF code = AltCode THEN 1 ELSE alt_pressed
    /\ capslock_on' = IF code = CapsCode THEN 1 - capslock_on ELSE capslock_on
    /\ extended' = 0
    /\ LET table == IF shift_pressed # capslock_on THEN 1 ELSE 0
           c == IF code \in Modifiers THEN NUL ELSE ToAscii(code, table)
       IN  IF c # NUL
           THEN kb_buffer_push(c) /\ offered' = <<c, 1 - offered[2]>>
           ELSE UNCHANGED <<ring, offered>>

\* The code tests bit 7 before it tests for the prefix 0xE0.
Decode(scancode) ==
    IF scancode >= 128 THEN BreakCode(scancode - 128)
    ELSE IF scancode = 224 THEN Prefix
    ELSE MakeCode(scancode)

\* Mutant of WakeUp: the wait halts again without looking at the ring.
WakeUpBlind ==
    /\ pc' = IF pc = "halted" THEN "hlt" ELSE pc
    /\ UNCHANGED <<sc, ret>>

\* The instruction after "hlt" runs once an interrupt has been served.
WakeUp ==
    /\ pc' = IF pc # "halted" THEN pc
             ELSE IF reloads THEN "check" ELSE "hlt"
    /\ UNCHANGED <<sc, ret>>

keyboard_handler ==
    /\ IrqRouted
    /\ wire # <<>>
    /\ Decode(Head(wire))
    /\ wire' = Tail(wire)
    /\ WakeUp
    /\ UNCHANGED <<fixed, held>>

-----------------------------------------------------------------------------
(* keyboard_getchar, called by the shell in a loop.                        *)

keyboard_has_key == kb_head # kb_tail

Goto(from, to) == pc = from /\ pc' = to
ReaderOnly == UNCHANGED <<modifiers, fixed, wire, held, offered>>

Call == Goto("caller", "check") /\ ReaderOnly /\ UNCHANGED <<ring, sc, ret>>

Check ==
    /\ Goto("check", IF keyboard_has_key THEN "popcheck" ELSE "hlt")
    /\ ReaderOnly /\ UNCHANGED <<ring, sc, ret>>

Hlt == Goto("hlt", "halted") /\ ReaderOnly /\ UNCHANGED <<ring, sc, ret>>

PopCheck ==
    /\ Goto("popcheck", IF kb_head = kb_tail THEN "caller" ELSE "popread")
    /\ ret' = IF kb_head = kb_tail THEN NUL ELSE ret
    /\ ReaderOnly /\ UNCHANGED <<ring, sc>>

PopRead ==
    /\ Goto("popread", "advance")
    /\ sc' = kb_buffer[kb_tail]
    /\ ReaderOnly /\ UNCHANGED <<ring, ret>>

PopAdvance ==
    /\ Goto("advance", "caller")
    /\ kb_tail' = RingNext(kb_tail)
    /\ ret' = sc
    /\ ReaderOnly /\ UNCHANGED <<kb_buffer, kb_head, sc>>

keyboard_getchar == Call \/ Check \/ Hlt \/ PopCheck \/ PopRead \/ PopAdvance

Next == User \/ keyboard_handler \/ keyboard_getchar

\* The processor executes the next instruction of the reader and serves a
\* pending interrupt; nobody has to type.
Fairness == WF_kbVars(keyboard_getchar) /\ WF_kbVars(keyboard_handler)

Spec == Init /\ [][Next]_kbVars
FairSpec == Spec /\ Fairness

-----------------------------------------------------------------------------
(* Properties                                                              *)

Used == IF kb_head >= kb_tail THEN kb_head - kb_tail
                              ELSE kb_head - kb_tail + KB_BUFFER_SIZE
Slot(i) == IF kb_tail + i < KB_BUFFER_SIZE THEN kb_tail + i
                                           ELSE kb_tail + i - KB_BUFFER_SIZE
Waiting == [i \in 1..Used |-> kb_buffer[Slot(i - 1)]]

KQ == INSTANCE KeyQueue WITH Capacity <- KB_BUFFER_SIZE - 1, Nothing <- NUL,
                             queue <- Waiting, taken <- ret

\* The ring, filled by the interrupt handler while the shell is anywhere in
\* keyboard_getchar, is the bounded queue of KeyQueue: no character is lost
\* but by a full ring, none is delivered twice, torn or out of order.
RefinesKeyQueue == KQ!Spec

\* keyboard_getchar tests the ring before kb_buffer_pop does, with interrupts
\* in between: what it found is still there when it pops, so it never returns
\* 0, and the slot it copied is not rewritten before kb_tail has passed it.
PopFindsTheKey ==
    /\ pc \in {"popcheck", "popread", "advance"} => keyboard_has_key
    /\ pc = "advance" => sc = kb_buffer[kb_tail]

\* Once every byte has been handled, a modifier is on only while a key that
\* switches it on is down: no order of presses, repeats and releases leaves
\* one stuck.  (The keys that send a fake shift are among those keys.)
NoStuckModifier ==
    wire = <<>> =>
        /\ shift_pressed = 1 => \E k \in held : Sends(k.make, ShiftCodes)
        /\ ctrl_pressed = 1 => \E k \in held : Sends(k.make, {CtrlCode})
        /\ alt_pressed = 1 => \E k \in held : Sends(k.make, {AltCode})

\* A reader halted with a character in the ring is released by the next
\* interrupt: while interrupts keep coming, and in a build that reads kb_head
\* again, a character in the ring is always read in the end.
DeliveredUnderTraffic ==
    (reloads /\ []<><<keyboard_handler>>_kbVars)
        => (keyboard_has_key ~> pc = "advance")

\* A character that reached the ring is read, whether or not the user types
\* another: what the prompt of kernel.c:41 ("Tapez 'help'") tells the user.
EveryCharIsRead == reloads => (keyboard_has_key ~> pc = "advance")

=============================================================================
