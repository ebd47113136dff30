------------------------------ MODULE MCShell -------------------------------
(***************************************************************************)
(* An instance of Shell for TLC: a screen of a few rows and columns and    *)
(* commands of one letter.                                                 *)
(***************************************************************************)
EXTENDS Shell

MCGlyphs == {" ", ">", "c", "e", "h", "x", "r", "l", "d", "?", "!"}
MCBanner == <<"!", Newline>>
MCPrompt == <<">">>
MCUnknownText == <<"?">>
MCHelpText == <<"!", "!", "!", Newline>>
MCRebootText == <<"!", Newline>>
MCHelp == <<"h">>
MCClear == <<"c">>
MCReboot == <<"r">>
MCListings == {<<"l">>}
MCRead == <<"d">>
MCEcho == <<"e">>
MCReports == {<<>>, <<"!", Newline>>}
MCTyped == {"c", "e", "d", "r"}

\* Bound: after a backspace has met the start of a row, typing and erasing
\* across it fills the screen without end; such a screen is followed until
\* its cursor is on the last row.
CrossedBriefly == crossed /\ out = <<>> => term_row < VGA_HEIGHT - 1

=============================================================================
