--------------------------- MODULE MCKeyboardInit ---------------------------
(***************************************************************************)
(* Instances of KeyboardInit for TLC.                                      *)
(***************************************************************************)
EXTENDS KeyboardInit

\* Interrupt and translation off; both on; everything on, both clocks off
Left == {0, 65, 119}
\* A key, and the codes that are the answers awaited: 0xAA is the release of
\* the left shift in set 1, 0x55 the key = in set 2, 0 an overrun
Typing == {30, 170, 85, 0}

=============================================================================
