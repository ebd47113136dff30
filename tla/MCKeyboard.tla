----------------------------- MODULE MCKeyboard -----------------------------
(***************************************************************************)
(* Instances of Keyboard for TLC: keyboards of a few keys, scan code set 1.*)
(* A plain key with make code c sends c and, released, c + 128; a key of   *)
(* the grey blocks sends 0xE0 first.  Print Screen sends a fake shift too, *)
(* and so does Home while Num Lock is on.                                  *)
(***************************************************************************)
EXTENDS Keyboard

Plain(c) == [make |-> <<c>>, repeat |-> <<c>>, break |-> <<c + 128>>]
Grey(c) == [make |-> <<224, c>>, repeat |-> <<224, c>>,
            break |-> <<224, c + 128>>]
GreyShift(c) == [make |-> <<224, 42, 224, c>>, repeat |-> <<224, c>>,
               break |-> <<224, c + 128, 224, 170>>]

KeyA == Plain(30)
LShift == Plain(42)
CapsLock == Plain(58)
LAlt == Plain(56)
RCtrl == Grey(29)
Home == GreyShift(71)
PrintScreen == GreyShift(55)

\* The code of Print Screen, 55, has a character, "*": it is one of the keys that
\* fill the ring.
Printer == {PrintScreen, LShift}
Shifting == {LShift, CapsLock, Home}
Control == {LShift, LAlt, RCtrl, Home}
Several == {Printer, Shifting, Control}
OneKey == {{KeyA}}

=============================================================================
