-------------------------------- MODULE Vga ---------------------------------
(***************************************************************************)
(* The text console (kernel/vga.c): a screen of VGA_HEIGHT rows, a cursor  *)
(* that wraps at the end of a row, and rows that scroll off the top.       *)
(* Colours are left out.                                                   *)
(***************************************************************************)
EXTENDS Integers, Sequences

CONSTANTS
    VGA_WIDTH, VGA_HEIGHT,          \* 80 and 25
    Glyphs,                         \* the characters that are drawn
    Blank,                          \* the space
    Newline, Return, Tab, Backspace \* the characters that move the cursor

Controls == {Newline, Return, Tab, Backspace}

ASSUME VgaAssumption ==
    /\ VGA_WIDTH \in Nat \ {0} /\ VGA_HEIGHT \in Nat \ {0}
    /\ Blank \in Glyphs
    /\ Controls \intersect Glyphs = {}
    /\ Newline \notin {Return, Tab, Backspace}
    /\ Backspace \notin {Return, Tab}

VARIABLES
    term_row, term_col,     \* the cursor
    term_buffer             \* the screen, row by row

vgaVars == <<term_row, term_col, term_buffer>>

Rows == 0..(VGA_HEIGHT - 1)
Columns == 0..(VGA_WIDTH - 1)
Screens == [Rows -> [Columns -> Glyphs]]
BlankRow == [x \in Columns |-> Blank]

VgaInit ==
    /\ term_row = 0 /\ term_col = 0
    /\ term_buffer = [y \in Rows |-> BlankRow]

vga_clear ==
    /\ term_buffer' = [y \in Rows |-> BlankRow]
    /\ term_row' = 0 /\ term_col' = 0

\* Mutant: the last row is left as it was.
ScrolledKeepsLast(buffer) ==
    [y \in Rows |-> buffer[IF y + 1 < VGA_HEIGHT THEN y + 1 ELSE y]]

\* vga_scroll: the rows of a screen moved up by one, the last one blank
Scrolled(buffer) ==
    [y \in Rows |-> IF y + 1 < VGA_HEIGHT THEN buffer[y + 1] ELSE BlankRow]

\* Mutant: the row comes in one row late.
NextRowLate(buffer) ==
    IF term_row = VGA_HEIGHT
    THEN term_buffer' = Scrolled(buffer) /\ term_row' = VGA_HEIGHT - 1
    ELSE term_buffer' = buffer /\ term_row' = term_row + 1

\* ++term_row, with the scroll that keeps it on the screen
NextRow(buffer) ==
    IF term_row + 1 = VGA_HEIGHT
    THEN term_buffer' = Scrolled(buffer) /\ term_row' = VGA_HEIGHT - 1
    ELSE term_buffer' = buffer /\ term_row' = term_row + 1

PutNewline(c) == c = Newline /\ term_col' = 0 /\ NextRow(term_buffer)

PutReturn(c) ==
    c = Return /\ term_col' = 0 /\ UNCHANGED <<term_row, term_buffer>>

TabStop == ((term_col + 4) \div 4) * 4      \* (term_col + 4) & ~3

PutTab(c) ==
    /\ c = Tab
    /\ IF TabStop >= VGA_WIDTH
       THEN term_col' = 0 /\ NextRow(term_buffer)
       ELSE term_col' = TabStop /\ UNCHANGED <<term_row, term_buffer>>

\* At the start of a row there is nothing to erase.
PutBackspace(c) ==
    /\ c = Backspace
    /\ IF term_col > 0
       THEN /\ term_col' = term_col - 1
            /\ term_buffer' = [term_buffer EXCEPT ![term_row][term_col - 1] = Blank]
            /\ UNCHANGED term_row
       ELSE UNCHANGED vgaVars

\* The row ends when its last column is written, not when the next character
\* comes.
PutGlyph(c) ==
    /\ c \in Glyphs
    /\ LET drawn == [term_buffer EXCEPT ![term_row][term_col] = c]
       IN  IF term_col + 1 = VGA_WIDTH
           THEN term_col' = 0 /\ NextRow(drawn)
           ELSE term_col' = term_col + 1 /\ term_buffer' = drawn
                /\ UNCHANGED term_row

vga_putchar(c) ==
    PutNewline(c) \/ PutReturn(c) \/ PutTab(c) \/ PutBackspace(c) \/ PutGlyph(c)

\* vga_scroll_up(lines): lines times vga_scroll.  The cursor goes to the last
\* row, wherever it was, unless lines is 0 or less.
vga_scroll_up(lines) ==
    /\ term_buffer' = [y \in Rows |-> IF y + lines < VGA_HEIGHT
                                      THEN term_buffer[y + lines] ELSE BlankRow]
    /\ term_row' = IF lines > 0 THEN VGA_HEIGHT - 1 ELSE term_row
    /\ UNCHANGED term_col

\* A place off the screen is refused without a word.
vga_set_cursor(row, col) ==
    /\ row < VGA_HEIGHT /\ col < VGA_WIDTH
    /\ term_row' = row /\ term_col' = col
    /\ UNCHANGED term_buffer

VgaNext ==
    \/ \E c \in Glyphs \union Controls : vga_putchar(c)
    \/ vga_clear
    \/ \E lines \in 0..VGA_HEIGHT : vga_scroll_up(lines)
    \/ \E row \in 0..VGA_HEIGHT, col \in 0..VGA_WIDTH : vga_set_cursor(row, col)

\* The calls of vga.h in any order; one place past each edge of the screen
\* stands for every place that vga_set_cursor refuses.
VgaSpec == VgaInit /\ [][VgaNext]_vgaVars

-----------------------------------------------------------------------------
\* Type correctness: whatever is called, the cursor is on the screen, so that
\* no write leaves term_buffer (kernel/vga.c).
VgaTypeOK ==
    /\ term_row \in Rows
    /\ term_col \in Columns
    /\ term_buffer \in Screens

\* The screen moved up by k rows: the rows that came in are blank, and the old
\* ones are as they were but for the cell of the cursor and the one before it.
MovedUp(k) ==
    /\ \A y \in Rows, x \in Columns :
            y + k >= VGA_HEIGHT => term_buffer'[y][x] = Blank
    /\ \A y \in Rows, x \in Columns :
            y + k < VGA_HEIGHT /\ ~(y + k = term_row /\ x \in {term_col - 1, term_col})
                => term_buffer'[y][x] = term_buffer[y + k][x]

\* A call moves the text as a whole: no row is lost but at the top, none is
\* doubled, and only the cell at the cursor is written (vga_putchar,
\* vga_scroll, vga_clear).
TextMovesAsAWhole == [][\E k \in 0..VGA_HEIGHT : MovedUp(k)]_vgaVars

=============================================================================
