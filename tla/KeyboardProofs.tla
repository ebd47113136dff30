--------------------------- MODULE KeyboardProofs ---------------------------
(***************************************************************************)
(* What holds of the keyboard driver for every ring size, every keyboard   *)
(* and every order of interrupts: the types, that a pop finds the key the  *)
(* wait found, that the ring implements the bounded queue of KeyQueue, and *)
(* that no modifier outlives the keys that switched it on.                 *)
(***************************************************************************)
EXTENDS Keyboard, SequenceTheorems, TLAPS

\* The index arithmetic of the ring: the successor of the last slot is slot 0.
LEMMA RingNextIs ==
    ASSUME NEW i \in 0..(KB_BUFFER_SIZE - 1)
    PROVE  RingNext(i) = IF i = KB_BUFFER_SIZE - 1 THEN 0 ELSE i + 1
<1>1. CASE i = KB_BUFFER_SIZE - 1
  BY <1>1, RingAssumption DEF RingNext
<1>2. CASE i # KB_BUFFER_SIZE - 1
  BY <1>2, RingAssumption DEF RingNext
<1> QED BY <1>1, <1>2

LEMMA RingNextType ==
    ASSUME NEW i \in 0..(KB_BUFFER_SIZE - 1)
    PROVE  RingNext(i) \in 0..(KB_BUFFER_SIZE - 1)
BY RingNextIs, RingAssumption

\* A scan code translates to a character of a table, or to none.
LEMMA ToAsciiType ==
    ASSUME NEW code, NEW table \in {0, 1}
    PROVE  ToAscii(code, table) \in Chars \union {NUL}
BY DEF ToAscii, Chars

LEMMA SendType ==
    ASSUME TypeOK, NEW bytes \in Seq(Byte), Send(bytes), held' \subseteq Keys
    PROVE  TypeOK'
<1>1. wire' \in Seq(Byte)
  BY DEF TypeOK, Send
<1> QED
  BY <1>1 DEF TypeOK, Send, ring, modifiers, reader, fixed

\* The keys of the keyboard that is plugged in are among those of all.
LEMMA PluggedKeys == TypeOK => keys \subseteq Keys
BY DEF TypeOK, Keys

LEMMA UserType == TypeOK /\ User => TypeOK'
<1> SUFFICES ASSUME TypeOK, NEW k \in Keys,
                    Press(k) \/ Repeat(k) \/ Release(k)
             PROVE  TypeOK'
  BY PluggedKeys DEF User
<1>1. /\ k.make \in Seq(Byte)
      /\ k.repeat \in Seq(Byte)
      /\ k.break \in Seq(Byte)
  BY KeysAssumption
<1>2. CASE Press(k)
  BY <1>1, <1>2, SendType DEF Press, TypeOK
<1>3. CASE Repeat(k)
  BY <1>1, <1>3, SendType DEF Repeat, TypeOK
<1>4. CASE Release(k)
  BY <1>1, <1>4, SendType DEF Release, TypeOK
<1> QED BY <1>2, <1>3, <1>4

\* What a byte may do to the ring: push one character of a table, or nothing.
LEMMA DecodeRing ==
    ASSUME TypeOK, NEW scancode \in Byte, Decode(scancode)
    PROVE  \/ UNCHANGED <<ring, offered>>
           \/ \E c \in Chars : /\ kb_buffer_push(c)
                               /\ offered' = <<c, 1 - offered[2]>>
<1>1. CASE BreakCode(scancode - 128)
  BY <1>1 DEF BreakCode
<1>2. CASE Prefix
  BY <1>2 DEF Prefix
<1>3. CASE MakeCode(scancode)
  <2> DEFINE table == IF shift_pressed # capslock_on THEN 1 ELSE 0
             c == IF scancode \in Modifiers THEN NUL ELSE ToAscii(scancode, table)
  <2>1. c \in Chars \union {NUL}
    BY ToAsciiType
  <2>2. IF c # NUL THEN kb_buffer_push(c) /\ offered' = <<c, 1 - offered[2]>>
                   ELSE UNCHANGED <<ring, offered>>
    BY <1>3 DEF MakeCode
  <2> HIDE DEF c
  <2> QED BY <2>1, <2>2
<1> QED BY <1>1, <1>2, <1>3 DEF Decode

LEMMA PushType ==
    ASSUME TypeOK, NEW c \in Chars, kb_buffer_push(c)
    PROVE  /\ kb_buffer' \in [0..(KB_BUFFER_SIZE - 1) -> Chars \union {NUL}]
           /\ kb_head' \in 0..(KB_BUFFER_SIZE - 1)
           /\ kb_tail' \in 0..(KB_BUFFER_SIZE - 1)
<1>1. CASE RingNext(kb_head) # kb_tail
  BY <1>1, RingNextType DEF TypeOK, kb_buffer_push
<1>2. CASE RingNext(kb_head) = kb_tail
  BY <1>2 DEF TypeOK, kb_buffer_push
<1> QED BY <1>1, <1>2

\* Whatever byte the handler reads, the modifiers stay booleans.
LEMMA DecodeModifiers ==
    ASSUME TypeOK, NEW scancode \in Byte, Decode(scancode)
    PROVE  /\ shift_pressed' \in {0, 1}
           /\ ctrl_pressed' \in {0, 1}
           /\ alt_pressed' \in {0, 1}
           /\ capslock_on' \in {0, 1}
           /\ extended' \in {0, 1}
<1>1. CASE BreakCode(scancode - 128)
  BY <1>1 DEF BreakCode, TypeOK
<1>2. CASE Prefix
  BY <1>2 DEF Prefix, TypeOK
<1>3. CASE MakeCode(scancode)
  BY <1>3 DEF MakeCode, TypeOK
<1> QED BY <1>1, <1>2, <1>3 DEF Decode

LEMMA HandlerType == TypeOK /\ keyboard_handler => TypeOK'
<1> SUFFICES ASSUME TypeOK, keyboard_handler PROVE TypeOK'
  OBVIOUS
<1> DEFINE scancode == Head(wire)
<1>1. scancode \in Byte /\ Tail(wire) \in Seq(Byte) /\ Decode(scancode)
  BY DEF keyboard_handler, TypeOK
<1>2. /\ kb_buffer' \in [0..(KB_BUFFER_SIZE - 1) -> Chars \union {NUL}]
      /\ kb_head' \in 0..(KB_BUFFER_SIZE - 1)
      /\ kb_tail' \in 0..(KB_BUFFER_SIZE - 1)
      /\ offered' \in (Chars \union {NUL}) \X {0, 1}
  <2>1. CASE UNCHANGED <<ring, offered>>
    BY <2>1 DEF TypeOK, ring
  <2>2. CASE \E c \in Chars : /\ kb_buffer_push(c)
                              /\ offered' = <<c, 1 - offered[2]>>
    BY <2>2, PushType DEF TypeOK
  <2> QED BY <1>1, <2>1, <2>2, DecodeRing
<1>3. /\ shift_pressed' \in {0, 1}
      /\ ctrl_pressed' \in {0, 1}
      /\ alt_pressed' \in {0, 1}
      /\ capslock_on' \in {0, 1}
      /\ extended' \in {0, 1}
  BY <1>1, DecodeModifiers
<1>4. /\ pc' \in Pcs
      /\ UNCHANGED <<sc, ret, reloads, keys, held>>
      /\ wire' = Tail(wire)
  BY DEF keyboard_handler, WakeUp, TypeOK, Pcs, fixed
<1> QED
  BY <1>1, <1>2, <1>3, <1>4 DEF TypeOK

LEMMA ReaderType == TypeOK /\ keyboard_getchar => TypeOK'
<1> SUFFICES ASSUME TypeOK, keyboard_getchar PROVE TypeOK'
  OBVIOUS
<1> USE DEF TypeOK, Goto, ReaderOnly, ring, modifiers, fixed, Pcs
<1>1. CASE Call
  BY <1>1 DEF Call
<1>2. CASE Check
  BY <1>2 DEF Check
<1>3. CASE Hlt
  BY <1>3 DEF Hlt
<1>4. CASE PopCheck
  BY <1>4 DEF PopCheck
<1>5. CASE PopRead
  BY <1>5 DEF PopRead
<1>6. CASE PopAdvance
  BY <1>6, RingNextType DEF PopAdvance
<1> QED BY <1>1, <1>2, <1>3, <1>4, <1>5, <1>6 DEF keyboard_getchar

LEMMA TypeInit == Init => TypeOK
BY RingAssumption DEF Init, TypeOK, Pcs

LEMMA TypeNext == TypeOK /\ [Next]_kbVars => TypeOK'
<1> SUFFICES ASSUME TypeOK, [Next]_kbVars PROVE TypeOK'
  OBVIOUS
<1>1. CASE Next
  BY <1>1, UserType, HandlerType, ReaderType DEF Next
<1>2. CASE UNCHANGED kbVars
  BY <1>2 DEF TypeOK, kbVars, ring, modifiers, reader, fixed
<1> QED BY <1>1, <1>2

\* In every behaviour the ring's indices stay in range, the slots hold
\* characters of the tables, and the modifiers are booleans.
THEOREM TypeCorrect == Spec => []TypeOK
BY TypeInit, TypeNext, PTL DEF Spec

-----------------------------------------------------------------------------
(* The pop finds the key that the wait found.                              *)

Inv == TypeOK /\ PopFindsTheKey

\* A push never writes the slot at kb_tail of a ring that is not empty, and
\* never makes such a ring look empty.
LEMMA PushKeepsTail ==
    ASSUME TypeOK, NEW c \in Chars, kb_buffer_push(c), keyboard_has_key
    PROVE  /\ kb_tail' = kb_tail
           /\ kb_buffer'[kb_tail] = kb_buffer[kb_tail]
           /\ keyboard_has_key'
<1>1. CASE RingNext(kb_head) # kb_tail
  BY <1>1, RingNextType DEF TypeOK, kb_buffer_push, keyboard_has_key
<1>2. CASE RingNext(kb_head) = kb_tail
  BY <1>2 DEF TypeOK, kb_buffer_push, keyboard_has_key
<1> QED BY <1>1, <1>2

LEMMA HandlerFinds == Inv /\ keyboard_handler => PopFindsTheKey'
<1> SUFFICES ASSUME Inv, keyboard_handler PROVE PopFindsTheKey'
  OBVIOUS
<1>1. TypeOK /\ Head(wire) \in Byte /\ Decode(Head(wire))
  BY DEF Inv, keyboard_handler, TypeOK
<1>2. /\ sc' = sc
      /\ pc \in {"popcheck", "popread", "advance"} => pc' = pc
      /\ pc' \in {"popcheck", "popread", "advance"} => pc' = pc
  BY DEF keyboard_handler, WakeUp
<1>3. CASE UNCHANGED <<ring, offered>>
  BY <1>2, <1>3 DEF Inv, PopFindsTheKey, keyboard_has_key, ring
<1>4. CASE \E c \in Chars : /\ kb_buffer_push(c)
                            /\ offered' = <<c, 1 - offered[2]>>
  BY <1>1, <1>2, <1>4, PushKeepsTail DEF Inv, PopFindsTheKey
<1> QED BY <1>1, <1>3, <1>4, DecodeRing

LEMMA ReaderFinds == Inv /\ keyboard_getchar => PopFindsTheKey'
<1> SUFFICES ASSUME Inv, keyboard_getchar PROVE PopFindsTheKey'
  OBVIOUS
<1> USE DEF Inv, PopFindsTheKey, Goto, keyboard_has_key, ring
<1>1. CASE Call
  BY <1>1 DEF Call
<1>2. CASE Check
  BY <1>2 DEF Check
<1>3. CASE Hlt
  BY <1>3 DEF Hlt
<1>4. CASE PopCheck
  BY <1>4 DEF PopCheck
<1>5. CASE PopRead
  BY <1>5 DEF PopRead
<1>6. CASE PopAdvance
  BY <1>6 DEF PopAdvance
<1> QED BY <1>1, <1>2, <1>3, <1>4, <1>5, <1>6 DEF keyboard_getchar

LEMMA InvNext == Inv /\ [Next]_kbVars => Inv'
<1> SUFFICES ASSUME Inv, [Next]_kbVars PROVE Inv'
  OBVIOUS
<1>1. TypeOK'
  BY TypeNext DEF Inv
<1>2. CASE User
  BY <1>1, <1>2 DEF User, Press, Repeat, Release, Send, Inv, PopFindsTheKey,
                    keyboard_has_key, ring, reader
<1>3. CASE keyboard_handler
  BY <1>1, <1>3, HandlerFinds DEF Inv
<1>4. CASE keyboard_getchar
  BY <1>1, <1>4, ReaderFinds DEF Inv
<1>5. CASE UNCHANGED kbVars
  BY <1>1, <1>5 DEF kbVars, ring, reader, Inv, PopFindsTheKey, keyboard_has_key
<1> QED BY <1>2, <1>3, <1>4, <1>5 DEF Next

LEMMA InvInit == Init => Inv
BY TypeInit DEF Init, Inv, PopFindsTheKey

LEMMA InvHolds == Spec => []Inv
BY InvInit, InvNext, PTL DEF Spec

\* keyboard_getchar never returns 0: between the test of the wait and the pop
\* no interrupt empties the ring or rewrites the slot that is copied.
THEOREM PopSafe == Spec => []PopFindsTheKey
<1>1. Inv => PopFindsTheKey
  BY DEF Inv
<1> QED BY <1>1, InvHolds, PTL

-----------------------------------------------------------------------------
(* The ring implements the bounded queue.                                  *)

LEMMA WaitingType ==
    ASSUME TypeOK
    PROVE  /\ Used \in 0..(KB_BUFFER_SIZE - 1)
           /\ \A i \in 0..(Used - 1) : Slot(i) \in 0..(KB_BUFFER_SIZE - 1)
           /\ Waiting \in Seq(Chars \union {NUL})
           /\ Len(Waiting) = Used
<1>1. Used \in 0..(KB_BUFFER_SIZE - 1)
  BY RingAssumption DEF TypeOK, Used
<1>2. \A i \in 0..(Used - 1) : Slot(i) \in 0..(KB_BUFFER_SIZE - 1)
  BY <1>1, RingAssumption DEF TypeOK, Slot
<1>3. \A i \in 1..Used : kb_buffer[Slot(i - 1)] \in Chars \union {NUL}
  <2> SUFFICES ASSUME NEW i \in 1..Used
               PROVE  kb_buffer[Slot(i - 1)] \in Chars \union {NUL}
    OBVIOUS
  <2>1. i - 1 \in 0..(Used - 1)
    BY <1>1
  <2>2. Slot(i - 1) \in 0..(KB_BUFFER_SIZE - 1)
    BY <1>2, <2>1
  <2> QED BY <2>2 DEF TypeOK
<1>4. Waiting \in [1..Used -> Chars \union {NUL}]
  BY <1>3 DEF Waiting
<1>5. Used \in Nat /\ Waiting \in Seq(Chars \union {NUL})
  BY <1>1, <1>4
<1>6. Len(Waiting) = Used
  BY <1>5 DEF Waiting
<1> QED BY <1>1, <1>2, <1>5, <1>6

\* The ring is full when a push would move kb_head to kb_tail: it then holds
\* one character less than it has slots.
LEMMA FullRing ==
    ASSUME TypeOK
    PROVE  RingNext(kb_head) = kb_tail <=> Used = KB_BUFFER_SIZE - 1
BY RingNextIs, RingAssumption DEF TypeOK, Used

\* Appending to a sequence and dropping its head, element by element.
LEMMA AppendIs ==
    ASSUME NEW S, NEW s \in Seq(S), NEW e \in S
    PROVE  Append(s, e)
             = [i \in 1..(Len(s) + 1) |-> IF i = Len(s) + 1 THEN e ELSE s[i]]
<1> DEFINE t == [i \in 1..(Len(s) + 1) |-> IF i = Len(s) + 1 THEN e ELSE s[i]]
<1>1. Len(s) \in Nat
  BY LenProperties
<1>2. \A i \in 1..(Len(s) + 1) : t[i] \in S
  BY <1>1, ElementOfSeq
<1>3. t \in Seq(S) /\ Len(t) = Len(s) + 1
  BY <1>1, <1>2, LenProperties
<1>4. /\ Append(s, e) \in Seq(S)
      /\ Len(Append(s, e)) = Len(s) + 1
      /\ \A i \in 1..Len(s) : Append(s, e)[i] = s[i]
      /\ Append(s, e)[Len(s) + 1] = e
  BY AppendProperties
<1>5. \A i \in 1..Len(t) : t[i] = Append(s, e)[i]
  BY <1>1, <1>3, <1>4
<1> HIDE DEF t
<1>6. t = Append(s, e)
  BY <1>3, <1>4, <1>5, SeqEqual
<1> QED BY <1>6 DEF t

LEMMA TailIs ==
    ASSUME NEW S, NEW s \in Seq(S), s # <<>>
    PROVE  Tail(s) = [i \in 1..(Len(s) - 1) |-> s[i + 1]]
<1> DEFINE t == [i \in 1..(Len(s) - 1) |-> s[i + 1]]
<1>1. Len(s) \in Nat \ {0}
  BY EmptySeq
<1>2. \A i \in 1..(Len(s) - 1) : t[i] \in S
  BY <1>1, ElementOfSeq
<1>3. t \in Seq(S) /\ Len(t) = Len(s) - 1
  BY <1>1, <1>2, LenProperties
<1>4. /\ Tail(s) \in Seq(S)
      /\ Len(Tail(s)) = Len(s) - 1
      /\ \A i \in 1..Len(Tail(s)) : Tail(s)[i] = s[i + 1]
  BY HeadTailProperties
<1>5. \A i \in 1..Len(t) : t[i] = Tail(s)[i]
  BY <1>1, <1>3, <1>4
<1> HIDE DEF t
<1>6. t = Tail(s)
  BY <1>3, <1>4, <1>5, SeqEqual
<1> QED BY <1>6 DEF t

LEMMA PushAppends ==
    ASSUME TypeOK, NEW c \in Chars, kb_buffer_push(c)
    PROVE  Waiting' = IF Len(Waiting) < KB_BUFFER_SIZE - 1
                      THEN Append(Waiting, c) ELSE Waiting
<1> DEFINE N == KB_BUFFER_SIZE
<1>1. CASE RingNext(kb_head) # kb_tail
  <2>1. /\ kb_buffer' = [kb_buffer EXCEPT ![kb_head] = c]
        /\ kb_head' = RingNext(kb_head)
        /\ kb_tail' = kb_tail
    BY <1>1 DEF kb_buffer_push
  <2>2. Used' = Used + 1
    <3>1. kb_head' = IF kb_head = N - 1 THEN 0 ELSE kb_head + 1
      BY <2>1, RingNextIs DEF TypeOK
    <3>2. kb_head' # kb_tail
      BY <1>1, <2>1
    <3> QED BY <2>1, <3>1, <3>2, RingAssumption DEF TypeOK, Used
  <2>3. Slot(Used) = kb_head
    BY RingAssumption DEF TypeOK, Used, Slot
  <2>4. \A i \in 0..(Used - 1) : Slot(i) # kb_head /\ Slot(i) \in 0..(N - 1)
    BY RingAssumption DEF TypeOK, Used, Slot
  <2>5. Used \in 0..(N - 1) /\ Len(Waiting) = Used
    BY WaitingType
  <2>6. Waiting' = [i \in 1..(Used + 1) |-> kb_buffer'[Slot(i - 1)]]
    BY <2>1, <2>2 DEF Waiting, Slot
  <2>7. Append(Waiting, c)
           = [i \in 1..(Used + 1) |-> IF i = Used + 1 THEN c ELSE Waiting[i]]
    BY <2>5, WaitingType, AppendIs
  <2>8. ASSUME NEW i \in 1..(Used + 1)
        PROVE  kb_buffer'[Slot(i - 1)] = IF i = Used + 1 THEN c ELSE Waiting[i]
    <3>1. CASE i = Used + 1
      <4>1. i - 1 = Used
        BY <2>5, <3>1
      <4> QED BY <2>1, <2>3, <3>1, <4>1 DEF TypeOK
    <3>2. CASE i # Used + 1
      <4>1. i \in 1..Used /\ i - 1 \in 0..(Used - 1)
        BY <2>5, <3>2
      <4>2. kb_buffer'[Slot(i - 1)] = kb_buffer[Slot(i - 1)]
        BY <2>1, <2>4, <4>1 DEF TypeOK
      <4> QED BY <3>2, <4>1, <4>2 DEF Waiting
    <3> QED BY <3>1, <3>2
  <2>9. Waiting' = Append(Waiting, c)
    BY <2>6, <2>7, <2>8
  <2>10. Used < N - 1
    BY <1>1, <2>5, FullRing, RingAssumption
  <2> QED BY <2>5, <2>9, <2>10
<1>2. CASE RingNext(kb_head) = kb_tail
  <2>1. UNCHANGED <<kb_buffer, kb_head, kb_tail>>
    BY <1>2 DEF kb_buffer_push
  <2>2. Waiting' = Waiting
    BY <2>1 DEF Waiting, Used, Slot
  <2>3. Len(Waiting) = KB_BUFFER_SIZE - 1
    BY <1>2, FullRing, WaitingType
  <2> QED BY <2>2, <2>3, RingAssumption
<1> QED BY <1>1, <1>2

LEMMA AdvanceRemoves ==
    ASSUME TypeOK, keyboard_has_key, kb_tail' = RingNext(kb_tail),
           UNCHANGED <<kb_buffer, kb_head>>
    PROVE  /\ Waiting # <<>>
           /\ Head(Waiting) = kb_buffer[kb_tail]
           /\ Waiting' = Tail(Waiting)
<1> DEFINE N == KB_BUFFER_SIZE
<1>1. /\ Used \in 1..(N - 1)
      /\ Len(Waiting) = Used
      /\ Waiting \in Seq(Chars \union {NUL})
  BY WaitingType, RingAssumption DEF TypeOK, Used, keyboard_has_key
<1>2. Used' = Used - 1
  BY RingNextIs, RingAssumption DEF TypeOK, Used, keyboard_has_key
<1>3. \A i \in 0..(Used - 2) : Slot(i)' = Slot(i + 1)
  <2>1. kb_tail' = IF kb_tail = N - 1 THEN 0 ELSE kb_tail + 1
    BY RingNextIs DEF TypeOK
  <2> SUFFICES ASSUME NEW i \in 0..(Used - 2) PROVE Slot(i)' = Slot(i + 1)
    OBVIOUS
  <2>2. i \in Nat /\ i <= N - 3
    BY <1>1, RingAssumption
  <2> QED BY <2>1, <2>2, RingAssumption DEF TypeOK, Slot
<1>4. Waiting # <<>> /\ Head(Waiting) = kb_buffer[kb_tail]
  <2>1. Slot(0) = kb_tail
    BY RingAssumption DEF TypeOK, Slot
  <2>2. Waiting[1] = kb_buffer[Slot(1 - 1)]
    BY <1>1 DEF Waiting
  <2> QED BY <1>1, <2>1, <2>2
<1>5. Tail(Waiting) = [i \in 1..(Used - 1) |-> Waiting[i + 1]]
  BY <1>1, <1>4, TailIs
<1>6. ASSUME NEW i \in 1..(Used - 1)
      PROVE  Waiting'[i] = Waiting[i + 1]
  <2>1. i - 1 \in 0..(Used - 2) /\ i + 1 \in 1..Used /\ i \in 1..Used'
    BY <1>1, <1>2
  <2>2. Slot(i - 1)' = Slot(i)
    BY <1>3, <2>1
  <2>3. Waiting'[i] = kb_buffer'[Slot(i - 1)']
    BY <2>1 DEF Waiting
  <2>4. Waiting[i + 1] = kb_buffer[Slot(i)]
    BY <2>1 DEF Waiting
  <2> QED BY <2>2, <2>3, <2>4
<1>7. Waiting' = [i \in 1..(Used - 1) |-> Waiting'[i]]
  BY <1>2 DEF Waiting
<1> QED BY <1>4, <1>5, <1>6, <1>7

LEMMA RefinementInit == Init => KQ!Init
BY RingAssumption DEF Init, KQ!Init, Waiting, Used, NUL

LEMMA RefinementHandler ==
    ASSUME Inv, keyboard_handler
    PROVE  KQ!Next \/ UNCHANGED KQ!kqVars
<1>1. TypeOK /\ Head(wire) \in Byte /\ Decode(Head(wire)) /\ ret' = ret
  BY DEF Inv, keyboard_handler, TypeOK, WakeUp
<1>2. CASE UNCHANGED <<ring, offered>>
  BY <1>1, <1>2 DEF ring, KQ!kqVars, Waiting, Used, Slot
<1>3. ASSUME NEW c \in Chars, kb_buffer_push(c),
             offered' = <<c, 1 - offered[2]>>
      PROVE  KQ!Put(c)
  BY <1>1, <1>3, PushAppends DEF KQ!Put
<1> QED BY <1>1, <1>2, <1>3, DecodeRing DEF KQ!Next

LEMMA RefinementReader ==
    ASSUME Inv, keyboard_getchar
    PROVE  KQ!Next \/ UNCHANGED KQ!kqVars
<1> USE DEF Goto, ReaderOnly
<1>1. CASE PopAdvance
  <2>1. keyboard_has_key /\ sc = kb_buffer[kb_tail] /\ TypeOK
    BY <1>1 DEF PopAdvance, Inv, PopFindsTheKey
  <2> QED BY <1>1, <2>1, AdvanceRemoves DEF PopAdvance, KQ!Next, KQ!Get
<1>2. CASE PopCheck
  <2>1. kb_head # kb_tail
    BY <1>2 DEF PopCheck, Inv, PopFindsTheKey, keyboard_has_key
  <2> QED BY <1>2, <2>1 DEF PopCheck, ring, KQ!kqVars, Waiting, Used, Slot
<1>3. CASE Call \/ Check \/ Hlt \/ PopRead
  BY <1>3 DEF Call, Check, Hlt, PopRead, ring, KQ!kqVars, Waiting, Used, Slot
<1> QED BY <1>1, <1>2, <1>3 DEF keyboard_getchar

\* The ring buffer of keyboard.c, its interrupt handler and its reader are the
\* bounded queue of KeyQueue, for every ring size and every keyboard.
THEOREM Refinement == Spec => RefinesKeyQueue
<1>1. Inv /\ [Next]_kbVars => [KQ!Next]_KQ!kqVars
  <2> SUFFICES ASSUME Inv, [Next]_kbVars
               PROVE  KQ!Next \/ UNCHANGED KQ!kqVars
    OBVIOUS
  <2>1. CASE User
    BY <2>1 DEF User, Press, Repeat, Release, Send, ring, reader,
                KQ!kqVars, Waiting, Used, Slot
  <2>2. CASE keyboard_handler
    BY <2>2, RefinementHandler
  <2>3. CASE keyboard_getchar
    BY <2>3, RefinementReader
  <2>4. CASE UNCHANGED kbVars
    BY <2>4 DEF kbVars, ring, reader, KQ!kqVars, Waiting, Used, Slot
  <2> QED BY <2>1, <2>2, <2>3, <2>4 DEF Next
<1> QED BY <1>1, RefinementInit, InvHolds, PTL DEF Spec, RefinesKeyQueue, KQ!Spec

-----------------------------------------------------------------------------
(* No modifier stays on.                                                   *)

Breaks(codes) == {c + 128 : c \in codes}

\* Is a modifier on once the bytes w have been handled, when flag says whether
\* it is on before?
StaysOn(w, flag, codes) ==
    \/ flag = 1 /\ \A j \in 1..Len(w) : w[j] \notin Breaks(codes)
    \/ \E i \in 1..Len(w) :
          w[i] \in codes /\ \A j \in (i + 1)..Len(w) : w[j] \notin Breaks(codes)

\* Then a key that switches it on is down.
ModifierInv(flag, codes) ==
    StaysOn(wire, flag, codes) => \E k \in held : Sends(k.make, codes)

ReleasedInv ==
    /\ ModifierInv(shift_pressed, ShiftCodes)
    /\ ModifierInv(ctrl_pressed, {CtrlCode})
    /\ ModifierInv(alt_pressed, {AltCode})

Classes == {ShiftCodes, {CtrlCode}, {AltCode}}

\* Bytes with no make of the modifier leave it on only if it was.
LEMMA MoreBytes ==
    ASSUME NEW w \in Seq(Byte), NEW bytes \in Seq(Byte), NEW flag, NEW codes,
           ~Sends(bytes, codes), StaysOn(w \o bytes, flag, codes)
    PROVE  StaysOn(w, flag, codes) /\ ~Sends(bytes, Breaks(codes))
<1> DEFINE z == w \o bytes
<1>1. /\ Len(w) \in Nat /\ Len(bytes) \in Nat /\ Len(z) = Len(w) + Len(bytes)
      /\ \A i \in 1..(Len(w) + Len(bytes)) :
            z[i] = IF i <= Len(w) THEN w[i] ELSE bytes[i - Len(w)]
      /\ DOMAIN bytes = 1..Len(bytes)
  BY ConcatProperties, LenProperties
<1>2. StaysOn(z, flag, codes)
  OBVIOUS
<1> HIDE DEF z
<1>3. /\ \A i \in 1..Len(w) : i \in 1..Len(z) /\ z[i] = w[i]
      /\ \A i \in 1..Len(bytes) :
            Len(w) + i \in (Len(w) + 1)..Len(z) /\ z[Len(w) + i] = bytes[i]
  BY <1>1
<1>4. ASSUME NEW i \in 1..Len(z), z[i] \in codes
      PROVE  i \in 1..Len(w)
  <2>1. CASE i > Len(w)
    <3>1. i - Len(w) \in 1..Len(bytes) /\ z[i] = bytes[i - Len(w)]
      BY <1>1, <2>1
    <3> QED BY <1>1, <1>4, <3>1 DEF Sends
  <2>2. CASE ~(i > Len(w))
    BY <1>1, <2>2
  <2> QED BY <2>1, <2>2
<1>5. CASE flag = 1 /\ \A j \in 1..Len(z) : z[j] \notin Breaks(codes)
  <2>1. StaysOn(w, flag, codes)
    BY <1>3, <1>5 DEF StaysOn
  <2>2. \A i \in 1..Len(bytes) : Len(w) + i \in 1..Len(z)
    BY <1>1
  <2> QED BY <1>1, <1>3, <1>5, <2>1, <2>2 DEF Sends
<1>6. ASSUME NEW i \in 1..Len(z), z[i] \in codes,
             \A j \in (i + 1)..Len(z) : z[j] \notin Breaks(codes)
      PROVE  StaysOn(w, flag, codes) /\ ~Sends(bytes, Breaks(codes))
  <2>1. i \in 1..Len(w) /\ w[i] \in codes
    BY <1>3, <1>4, <1>6
  <2>2. \A j \in (i + 1)..Len(w) : j \in 1..Len(w) /\ j \in (i + 1)..Len(z)
    BY <1>1, <2>1
  <2>3. \A j \in (i + 1)..Len(w) : w[j] \notin Breaks(codes)
    BY <1>3, <1>6, <2>2
  <2>4. \A j \in 1..Len(bytes) : Len(w) + j \in (i + 1)..Len(z)
    BY <1>1, <2>1
  <2> QED BY <1>1, <1>3, <1>6, <2>1, <2>3, <2>4 DEF StaysOn, Sends
<1> QED BY <1>2, <1>5, <1>6 DEF StaysOn

LEMMA UserReleases ==
    ASSUME TypeOK, NEW k \in Keys, Press(k) \/ Repeat(k) \/ Release(k),
           NEW codes \in Classes, NEW flag, ModifierInv(flag, codes),
           StaysOn(wire', flag, codes)
    PROVE  \E l \in held' : Sends(l.make, codes)
<1>1. /\ k.make \in Seq(Byte) /\ k.repeat \in Seq(Byte) /\ k.break \in Seq(Byte)
      /\ wire \in Seq(Byte)
  BY KeysAssumption DEF TypeOK
<1>2. /\ Sends(k.repeat, codes) => Sends(k.make, codes)
      /\ Sends(k.make, codes) => Sends(k.break, Breaks(codes))
      /\ ~Sends(k.break, codes)
  BY ReleaseAssumption DEF Classes, Breaks
<1>3. CASE Press(k)
  <2>1. wire' = wire \o k.make /\ held' = held \union {k}
    BY <1>3 DEF Press, Send
  <2>2. CASE Sends(k.make, codes)
    BY <2>1, <2>2
  <2>3. CASE ~Sends(k.make, codes)
    BY <1>1, <2>1, <2>3, MoreBytes DEF ModifierInv
  <2> QED BY <2>2, <2>3
<1>4. CASE Repeat(k)
  <2>1. wire' = wire \o k.repeat /\ held' = held /\ k \in held
    BY <1>4 DEF Repeat, Send
  <2>2. CASE Sends(k.repeat, codes)
    BY <1>2, <2>1, <2>2
  <2>3. CASE ~Sends(k.repeat, codes)
    BY <1>1, <2>1, <2>3, MoreBytes DEF ModifierInv
  <2> QED BY <2>2, <2>3
<1>5. CASE Release(k)
  <2>1. wire' = wire \o k.break /\ held' = held \ {k}
    BY <1>5 DEF Release, Send
  <2>2. StaysOn(wire, flag, codes) /\ ~Sends(k.break, Breaks(codes))
    BY <1>1, <1>2, <2>1, MoreBytes
  <2> QED BY <1>2, <2>1, <2>2 DEF ModifierInv
<1> QED BY <1>3, <1>4, <1>5

\* One byte less, and the modifier as that byte leaves it
LEMMA ByteHandled ==
    ASSUME NEW w \in Seq(Byte), w # <<>>, NEW codes, NEW flag, NEW after,
           after = (IF Head(w) \in codes THEN 1
                    ELSE IF Head(w) \in Breaks(codes) THEN 0 ELSE flag),
           StaysOn(Tail(w), after, codes)
    PROVE  StaysOn(w, flag, codes)
<1>1. /\ Len(w) \in Nat \ {0} /\ Head(w) = w[1] /\ Len(Tail(w)) = Len(w) - 1
      /\ \A i \in 1..(Len(w) - 1) : Tail(w)[i] = w[i + 1]
  BY EmptySeq, HeadTailProperties
<1>2. \A j \in 2..Len(w) : j - 1 \in 1..(Len(w) - 1) /\ (j - 1) + 1 = j
  BY <1>1
<1>3. CASE after = 1 /\ \A j \in 1..Len(Tail(w)) : Tail(w)[j] \notin Breaks(codes)
  <2>1. \A j \in 2..Len(w) : w[j] \notin Breaks(codes)
    BY <1>1, <1>2, <1>3
  <2>2. CASE Head(w) \in codes
    <3>1. 1 \in 1..Len(w) /\ (1 + 1)..Len(w) = 2..Len(w)
      BY <1>1
    <3> QED BY <1>1, <2>1, <2>2, <3>1 DEF StaysOn
  <2>3. CASE Head(w) \notin codes
    <3>1. flag = 1 /\ w[1] \notin Breaks(codes)
      BY <1>1, <1>3, <2>3
    <3>2. \A j \in 1..Len(w) : j = 1 \/ j \in 2..Len(w)
      BY <1>1
    <3> QED BY <2>1, <3>1, <3>2 DEF StaysOn
  <2> QED BY <2>2, <2>3
<1>4. ASSUME NEW i \in 1..Len(Tail(w)), Tail(w)[i] \in codes,
             \A j \in (i + 1)..Len(Tail(w)) : Tail(w)[j] \notin Breaks(codes)
      PROVE  StaysOn(w, flag, codes)
  <2>1. i + 1 \in 1..Len(w) /\ w[i + 1] \in codes
    BY <1>1, <1>4
  <2>2. ASSUME NEW j \in ((i + 1) + 1)..Len(w)
        PROVE  w[j] \notin Breaks(codes)
    <3>1. j \in 2..Len(w) /\ j - 1 \in (i + 1)..Len(Tail(w))
      BY <1>1
    <3> QED BY <1>1, <1>2, <1>4, <3>1
  <2> QED BY <2>1, <2>2 DEF StaysOn
<1> QED BY <1>3, <1>4 DEF StaysOn

\* What a byte does to each modifier: 0xE0 is a break of a key that is none.
LEMMA DecodeSets ==
    ASSUME NEW b \in Byte, Decode(b)
    PROVE  /\ shift_pressed' = (IF b \in ShiftCodes THEN 1
                               ELSE IF b \in Breaks(ShiftCodes) THEN 0 ELSE shift_pressed)
           /\ ctrl_pressed' = (IF b \in {CtrlCode} THEN 1
                              ELSE IF b \in Breaks({CtrlCode}) THEN 0 ELSE ctrl_pressed)
           /\ alt_pressed' = (IF b \in {AltCode} THEN 1
                             ELSE IF b \in Breaks({AltCode}) THEN 0 ELSE alt_pressed)
<1>1. /\ Breaks(ShiftCodes) = {170, 182} /\ Breaks({CtrlCode}) = {157}
      /\ Breaks({AltCode}) = {184}
  BY DEF Breaks, ShiftCodes, CtrlCode, AltCode
<1>2. CASE b >= 128
  <2>1. /\ shift_pressed' = (IF b - 128 \in ShiftCodes THEN 0 ELSE shift_pressed)
        /\ ctrl_pressed' = (IF b - 128 = CtrlCode THEN 0 ELSE ctrl_pressed)
        /\ alt_pressed' = (IF b - 128 = AltCode THEN 0 ELSE alt_pressed)
    BY <1>2 DEF Decode, BreakCode
  <2>2. /\ b \notin ShiftCodes /\ b \notin {CtrlCode} /\ b \notin {AltCode}
        /\ b - 128 \in ShiftCodes <=> b \in {170, 182}
        /\ b - 128 = CtrlCode <=> b \in {157}
        /\ b - 128 = AltCode <=> b \in {184}
    BY <1>2 DEF Byte, ShiftCodes, CtrlCode, AltCode
  <2> QED BY <1>1, <2>1, <2>2
<1>3. CASE ~(b >= 128)
  <2>1. MakeCode(b)
    <3>1. b # 224
      BY <1>3
    <3> QED BY <1>3, <3>1 DEF Decode
  <2>2. /\ shift_pressed' = (IF b \in ShiftCodes THEN 1 ELSE shift_pressed)
        /\ ctrl_pressed' = (IF b = CtrlCode THEN 1 ELSE ctrl_pressed)
        /\ alt_pressed' = (IF b = AltCode THEN 1 ELSE alt_pressed)
    BY <2>1 DEF MakeCode
  <2>3. b \notin {170, 182} /\ b \notin {157} /\ b \notin {184}
    BY <1>3 DEF Byte
  <2> QED BY <1>1, <2>2, <2>3
<1> QED BY <1>2, <1>3

LEMMA ReleasedInit == Init => ReleasedInv
BY DEF Init, ReleasedInv, ModifierInv, StaysOn

LEMMA ReleasedStep == TypeOK /\ ReleasedInv /\ [Next]_kbVars => ReleasedInv'
<1> SUFFICES ASSUME TypeOK, ReleasedInv, [Next]_kbVars PROVE ReleasedInv'
  OBVIOUS
<1>0. ShiftCodes \in Classes /\ {CtrlCode} \in Classes /\ {AltCode} \in Classes
  BY DEF Classes
<1>1. CASE User
  <2>1. PICK k \in Keys : Press(k) \/ Repeat(k) \/ Release(k)
    BY <1>1, PluggedKeys DEF User
  <2>2. UNCHANGED <<shift_pressed, ctrl_pressed, alt_pressed>>
    BY <2>1 DEF Press, Repeat, Release, Send, modifiers
  <2>3. /\ ModifierInv(shift_pressed, ShiftCodes) /\ ModifierInv(ctrl_pressed, {CtrlCode})
        /\ ModifierInv(alt_pressed, {AltCode})
    BY DEF ReleasedInv
  <2>4. /\ StaysOn(wire', shift_pressed, ShiftCodes)
              => \E l \in held' : Sends(l.make, ShiftCodes)
        /\ StaysOn(wire', ctrl_pressed, {CtrlCode})
              => \E l \in held' : Sends(l.make, {CtrlCode})
        /\ StaysOn(wire', alt_pressed, {AltCode})
              => \E l \in held' : Sends(l.make, {AltCode})
    BY <1>0, <2>1, <2>3, UserReleases
  <2> QED BY <2>2, <2>4 DEF ReleasedInv, ModifierInv
<1>2. CASE keyboard_handler
  <2>1. /\ wire \in Seq(Byte) /\ wire # <<>> /\ Decode(Head(wire))
        /\ wire' = Tail(wire) /\ held' = held
    BY <1>2 DEF keyboard_handler, TypeOK
  <2>2. Head(wire) \in Byte
    BY <2>1, HeadTailProperties
  <2>3. /\ StaysOn(wire', shift_pressed', ShiftCodes)
              => StaysOn(wire, shift_pressed, ShiftCodes)
        /\ StaysOn(wire', ctrl_pressed', {CtrlCode})
              => StaysOn(wire, ctrl_pressed, {CtrlCode})
        /\ StaysOn(wire', alt_pressed', {AltCode})
              => StaysOn(wire, alt_pressed, {AltCode})
    BY <2>1, <2>2, DecodeSets, ByteHandled
  <2> QED BY <2>1, <2>3 DEF ReleasedInv, ModifierInv
<1>3. CASE keyboard_getchar \/ UNCHANGED kbVars
  <2>1. UNCHANGED <<shift_pressed, ctrl_pressed, alt_pressed, wire, held>>
    BY <1>3 DEF keyboard_getchar, Call, Check, Hlt, PopCheck, PopRead, PopAdvance,
         ReaderOnly, modifiers, kbVars
  <2> QED BY <2>1 DEF ReleasedInv, ModifierInv
<1> QED BY <1>1, <1>2, <1>3 DEF Next

\* Once every byte has been handled, a modifier is on only while a key that
\* switches it on is down, for every keyboard whose keys take back what they
\* send, and every order of presses, repeats and releases (keyboard_handler).
THEOREM NoneStuck == Spec => []NoStuckModifier
<1>1. ReleasedInv => NoStuckModifier
  <2> SUFFICES ASSUME ReleasedInv, wire = <<>>
               PROVE  /\ shift_pressed = 1 => \E k \in held : Sends(k.make, ShiftCodes)
                      /\ ctrl_pressed = 1 => \E k \in held : Sends(k.make, {CtrlCode})
                      /\ alt_pressed = 1 => \E k \in held : Sends(k.make, {AltCode})
    BY DEF NoStuckModifier
  <2>1. \A flag, codes : flag = 1 => StaysOn(wire, flag, codes)
    <3>1. Len(wire) = 0 /\ 1..0 = {}
      OBVIOUS
    <3> QED BY <3>1 DEF StaysOn
  <2> QED BY <2>1 DEF ReleasedInv, ModifierInv
<1> QED BY <1>1, TypeCorrect, ReleasedInit, ReleasedStep, PTL DEF Spec

=============================================================================
