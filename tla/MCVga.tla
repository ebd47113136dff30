------------------------------- MODULE MCVga --------------------------------
(***************************************************************************)
(* An instance of Vga for TLC: three rows of five columns, so that a tab   *)
(* may stay on its row or leave it, and one glyph besides the space.       *)
(***************************************************************************)
EXTENDS Vga

TwoGlyphs == {" ", "a"}

=============================================================================
