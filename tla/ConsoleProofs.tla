--------------------------- MODULE ConsoleProofs ----------------------------
(***************************************************************************)
(* What holds of the console and of the shell on it for every size of the  *)
(* screen and of the buffers, every command and every typing: the cursor   *)
(* stays on the screen, text moves as a whole, the command line leaves a   *)
(* place for the 0 that ends it, the line that runs is the line the screen *)
(* shows, every prompt starts a line, and the screen shows the text that   *)
(* was printed.                                                            *)
(***************************************************************************)
EXTENDS Shell, SequenceTheorems, TLAPS

-----------------------------------------------------------------------------
\* The console

LEMMA BlankRowType == BlankRow \in [Columns -> Glyphs]
BY VgaAssumption DEF BlankRow, Columns

LEMMA ScrolledType ==
    ASSUME NEW buffer \in Screens
    PROVE  Scrolled(buffer) \in Screens
<1>1. \A y \in Rows : y + 1 < VGA_HEIGHT => y + 1 \in Rows
  BY VgaAssumption DEF Rows
<1> QED
  BY <1>1, BlankRowType DEF Scrolled, Screens

\* A new row keeps the cursor on the screen.
LEMMA NextRowType ==
    ASSUME VgaTypeOK, NEW buffer \in Screens, NextRow(buffer)
    PROVE  term_row' \in Rows /\ term_buffer' \in Screens
<1>1. CASE term_row + 1 = VGA_HEIGHT
  BY <1>1, ScrolledType, VgaAssumption DEF NextRow, Rows
<1>2. CASE term_row + 1 # VGA_HEIGHT
  BY <1>2, VgaAssumption DEF NextRow, VgaTypeOK, Rows
<1> QED BY <1>1, <1>2

LEMMA TabStopType == VgaTypeOK => TabStop \in Nat
BY VgaAssumption DEF VgaTypeOK, TabStop, Columns

\* Drawing in a cell of the screen gives a screen.
LEMMA DrawnType ==
    ASSUME NEW buffer \in Screens, NEW y \in Rows, NEW x \in Columns, NEW g \in Glyphs
    PROVE  [buffer EXCEPT ![y][x] = g] \in Screens
BY DEF Screens

LEMMA PutcharType ==
    ASSUME VgaTypeOK, NEW c, vga_putchar(c)
    PROVE  VgaTypeOK'
<1> USE VgaAssumption
<1>0. 0 \in Columns
  BY DEF Columns
<1>1. CASE PutNewline(c)
  BY <1>0, <1>1, NextRowType DEF PutNewline, VgaTypeOK
<1>2. CASE PutReturn(c)
  BY <1>0, <1>2 DEF PutReturn, VgaTypeOK
<1>3. CASE PutTab(c)
  <2>1. CASE TabStop >= VGA_WIDTH
    BY <1>0, <1>3, <2>1, NextRowType DEF PutTab, VgaTypeOK
  <2>2. CASE ~(TabStop >= VGA_WIDTH)
    BY <1>3, <2>2, TabStopType DEF PutTab, VgaTypeOK, Columns
  <2> QED BY <2>1, <2>2
<1>4. CASE PutBackspace(c)
  <2>1. CASE term_col > 0
    <3>1. term_col - 1 \in Columns
      BY <2>1 DEF VgaTypeOK, Columns
    <3> QED
      BY <1>4, <2>1, <3>1, DrawnType DEF PutBackspace, VgaTypeOK
  <2>2. CASE ~(term_col > 0)
    BY <1>4, <2>2 DEF PutBackspace, VgaTypeOK, vgaVars
  <2> QED BY <2>1, <2>2
<1>5. CASE PutGlyph(c)
  <2> DEFINE drawn == [term_buffer EXCEPT ![term_row][term_col] = c]
  <2>1. drawn \in Screens
    BY <1>5, DrawnType DEF PutGlyph, VgaTypeOK
  <2>2. CASE term_col + 1 = VGA_WIDTH
    <3>1. term_col' = 0 /\ NextRow(drawn)
      BY <1>5, <2>2 DEF PutGlyph
    <3> HIDE DEF drawn
    <3> QED
      BY <1>0, <2>1, <3>1, NextRowType DEF VgaTypeOK
  <2>3. CASE term_col + 1 # VGA_WIDTH
    <3>1. term_col' = term_col + 1 /\ term_buffer' = drawn /\ term_row' = term_row
      BY <1>5, <2>3 DEF PutGlyph
    <3>2. term_col + 1 \in Columns
      BY <2>3 DEF VgaTypeOK, Columns
    <3> QED
      BY <2>1, <3>1, <3>2 DEF VgaTypeOK
  <2> QED BY <2>2, <2>3
<1> QED
  BY <1>1, <1>2, <1>3, <1>4, <1>5 DEF vga_putchar

LEMMA ClearType == vga_clear => VgaTypeOK'
BY BlankRowType, VgaAssumption DEF vga_clear, VgaTypeOK, Rows, Columns, Screens

LEMMA ScrollUpType ==
    ASSUME VgaTypeOK, NEW lines \in Nat, vga_scroll_up(lines)
    PROVE  VgaTypeOK'
<1>1. \A y \in Rows : y + lines < VGA_HEIGHT => y + lines \in Rows
  BY VgaAssumption DEF Rows
<1>2. term_buffer' \in Screens
  BY <1>1, BlankRowType DEF vga_scroll_up, VgaTypeOK, Screens
<1> QED
  BY <1>2, VgaAssumption DEF vga_scroll_up, VgaTypeOK, Rows

LEMMA VgaInitType == VgaInit => VgaTypeOK
BY BlankRowType, VgaAssumption DEF VgaInit, VgaTypeOK, Rows, Columns, Screens

\* Whatever is called in whatever order, the cursor is on the screen and no
\* write leaves term_buffer, for every width and height (kernel/vga.c).
THEOREM VgaTypeCorrect == VgaSpec => []VgaTypeOK
<1>1. VgaInit => VgaTypeOK
  BY VgaInitType
<1>2. VgaTypeOK /\ [VgaNext]_vgaVars => VgaTypeOK'
  <2> SUFFICES ASSUME VgaTypeOK, [VgaNext]_vgaVars PROVE VgaTypeOK'
    OBVIOUS
  <2>1. ASSUME NEW c \in Glyphs \union Controls, vga_putchar(c) PROVE VgaTypeOK'
    BY <2>1, PutcharType
  <2>2. ASSUME NEW lines \in 0..VGA_HEIGHT, vga_scroll_up(lines) PROVE VgaTypeOK'
    BY <2>2, ScrollUpType, VgaAssumption
  <2>3. ASSUME NEW row \in 0..VGA_HEIGHT, NEW col \in 0..VGA_WIDTH,
               vga_set_cursor(row, col)
        PROVE  VgaTypeOK'
    BY <2>3, VgaAssumption DEF vga_set_cursor, VgaTypeOK, Rows, Columns
  <2>4. CASE UNCHANGED vgaVars
    BY <2>4 DEF VgaTypeOK, vgaVars
  <2> QED
    BY <2>1, <2>2, <2>3, <2>4, ClearType DEF VgaNext
<1> QED
  BY <1>1, <1>2, PTL DEF VgaSpec

-----------------------------------------------------------------------------
\* How the text moves

\* A scroll moves a screen up by one row.
LEMMA ScrolledIs ==
    ASSUME NEW buffer, NEW y \in Rows
    PROVE  /\ y + 1 >= VGA_HEIGHT => Scrolled(buffer)[y] = BlankRow
           /\ y + 1 < VGA_HEIGHT => Scrolled(buffer)[y] = buffer[y + 1]
BY VgaAssumption DEF Scrolled, Rows

LEMMA BlankRowIs == \A x \in Columns : BlankRow[x] = Blank
BY DEF BlankRow

\* A new row after a change of the cursor's cell, or of none, moves the text
\* as a whole.
LEMMA NextRowMoves ==
    ASSUME VgaTypeOK, NEW buffer \in Screens, NextRow(buffer),
           \A y \in Rows, x \in Columns :
               ~(y = term_row /\ x = term_col) => buffer[y][x] = term_buffer[y][x]
    PROVE  \E k \in 0..VGA_HEIGHT : MovedUp(k)
<1>1. CASE term_row + 1 = VGA_HEIGHT
  <2>1. term_buffer' = Scrolled(buffer)
    BY <1>1 DEF NextRow
  <2>2. ASSUME NEW y \in Rows, NEW x \in Columns, y + 1 >= VGA_HEIGHT
        PROVE  term_buffer'[y][x] = Blank
    BY <2>1, <2>2, ScrolledIs, BlankRowIs
  <2>3. ASSUME NEW y \in Rows, NEW x \in Columns, y + 1 < VGA_HEIGHT,
               ~(y + 1 = term_row /\ x \in {term_col - 1, term_col})
        PROVE  term_buffer'[y][x] = term_buffer[y + 1][x]
    <3>1. y + 1 \in Rows
      BY <2>3, VgaAssumption DEF Rows
    <3>2. term_buffer'[y] = buffer[y + 1]
      BY <2>1, <2>3, ScrolledIs
    <3>3. buffer[y + 1][x] = term_buffer[y + 1][x]
      BY <2>3, <3>1
    <3> QED
      BY <3>2, <3>3
  <2>4. MovedUp(1)
    BY <2>2, <2>3 DEF MovedUp
  <2> QED
    BY <2>4, VgaAssumption
<1>2. CASE term_row + 1 # VGA_HEIGHT
  <2>1. term_buffer' = buffer
    BY <1>2 DEF NextRow
  <2>2. MovedUp(0)
    BY <2>1, VgaAssumption DEF MovedUp, Rows
  <2> QED
    BY <2>2, VgaAssumption
<1> QED BY <1>1, <1>2

\* A step that writes no other cell than these two moves no text.
LEMMA StaysPut ==
    ASSUME VgaTypeOK,
           \A y \in Rows, x \in Columns :
               ~(y = term_row /\ x \in {term_col - 1, term_col})
                   => term_buffer'[y][x] = term_buffer[y][x]
    PROVE  \E k \in 0..VGA_HEIGHT : MovedUp(k)
<1>1. MovedUp(0)
  BY VgaAssumption DEF MovedUp, Rows
<1> QED
  BY <1>1, VgaAssumption

LEMMA PutcharMoves ==
    ASSUME VgaTypeOK, NEW c, vga_putchar(c)
    PROVE  \E k \in 0..VGA_HEIGHT : MovedUp(k)
<1>1. CASE PutNewline(c)
  BY <1>1, NextRowMoves DEF PutNewline, VgaTypeOK
<1>2. CASE PutReturn(c)
  BY <1>2, StaysPut DEF PutReturn
<1>3. CASE PutTab(c)
  <2>1. CASE TabStop >= VGA_WIDTH
    BY <1>3, <2>1, NextRowMoves DEF PutTab, VgaTypeOK
  <2>2. CASE ~(TabStop >= VGA_WIDTH)
    BY <1>3, <2>2, StaysPut DEF PutTab
  <2> QED BY <2>1, <2>2
<1>4. CASE PutBackspace(c)
  <2>1. \A y \in Rows, x \in Columns :
            ~(y = term_row /\ x \in {term_col - 1, term_col})
                => term_buffer'[y][x] = term_buffer[y][x]
    BY <1>4 DEF PutBackspace, VgaTypeOK, Screens, vgaVars
  <2> QED BY <2>1, StaysPut
<1>5. CASE PutGlyph(c)
  <2> DEFINE drawn == [term_buffer EXCEPT ![term_row][term_col] = c]
  <2>1. drawn \in Screens
    BY <1>5, DrawnType DEF PutGlyph, VgaTypeOK
  <2>2. \A y \in Rows, x \in Columns :
            ~(y = term_row /\ x = term_col) => drawn[y][x] = term_buffer[y][x]
    BY DEF VgaTypeOK, Screens
  <2>3. \/ NextRow(drawn)
        \/ term_buffer' = drawn
    BY <1>5 DEF PutGlyph
  <2> HIDE DEF drawn
  <2> QED
    BY <2>1, <2>2, <2>3, NextRowMoves, StaysPut
<1> QED
  BY <1>1, <1>2, <1>3, <1>4, <1>5 DEF vga_putchar

LEMMA ScrollUpMoves ==
    ASSUME VgaTypeOK, NEW lines \in 0..VGA_HEIGHT, vga_scroll_up(lines)
    PROVE  \E k \in 0..VGA_HEIGHT : MovedUp(k)
<1>1. ASSUME NEW y \in Rows, NEW x \in Columns
      PROVE  /\ y + lines >= VGA_HEIGHT => term_buffer'[y][x] = Blank
             /\ y + lines < VGA_HEIGHT => term_buffer'[y][x] = term_buffer[y + lines][x]
  BY <1>1, BlankRowIs, VgaAssumption DEF vga_scroll_up, Rows
<1>2. MovedUp(lines)
  BY <1>1 DEF MovedUp
<1> QED BY <1>2

LEMMA ClearMoves ==
    ASSUME VgaTypeOK, vga_clear
    PROVE  \E k \in 0..VGA_HEIGHT : MovedUp(k)
<1>1. ASSUME NEW y \in Rows, NEW x \in Columns
      PROVE  term_buffer'[y][x] = Blank
  BY <1>1, BlankRowIs DEF vga_clear
<1>2. \A y \in Rows : ~(y + VGA_HEIGHT < VGA_HEIGHT)
  BY VgaAssumption DEF Rows
<1>3. MovedUp(VGA_HEIGHT)
  BY <1>1, <1>2 DEF MovedUp
<1> QED
  BY <1>3, VgaAssumption

\* No call loses a row but at the top, doubles one, or writes another cell
\* than the one at the cursor or before it (vga_putchar, vga_scroll,
\* vga_clear), for every width and height.
THEOREM TextMoves == VgaSpec => TextMovesAsAWhole
<1>1. VgaTypeOK /\ [VgaNext]_vgaVars => [\E k \in 0..VGA_HEIGHT : MovedUp(k)]_vgaVars
  <2> SUFFICES ASSUME VgaTypeOK, VgaNext
               PROVE  \E k \in 0..VGA_HEIGHT : MovedUp(k)
    OBVIOUS
  <2>1. ASSUME NEW row \in 0..VGA_HEIGHT, NEW col \in 0..VGA_WIDTH,
               vga_set_cursor(row, col)
        PROVE  \E k \in 0..VGA_HEIGHT : MovedUp(k)
    BY <2>1, StaysPut DEF vga_set_cursor
  <2> QED
    BY <2>1, PutcharMoves, ScrollUpMoves, ClearMoves DEF VgaNext
<1> QED
  BY <1>1, VgaTypeCorrect, PTL DEF VgaSpec, TextMovesAsAWhole

-----------------------------------------------------------------------------
\* The shell

\* A part of a sequence is a sequence over the same set.
LEMMA PartType ==
    ASSUME NEW S, NEW s \in Seq(S), NEW i \in Nat \ {0}, NEW j \in Nat, j <= Len(s)
    PROVE  SubSeq(s, i, j) \in Seq(S)
<1>1. \A k \in i..j : s[k] \in S
  OBVIOUS
<1> QED
  BY <1>1, SubSeqProperties

\* A sequence over a set is one over a larger set.
LEMMA WiderType ==
    ASSUME NEW S, NEW T, S \subseteq T, NEW s \in Seq(S)
    PROVE  s \in Seq(T)
OBVIOUS

LEMMA PrintedType ==
    ASSUME NEW S, NEW text \in Seq(S)
    PROVE  Printed(text) \in Seq(S)
<1>1. CASE Len(text) < PRINTF_SIZE
  BY <1>1 DEF Printed
<1>2. CASE ~(Len(text) < PRINTF_SIZE)
  <2>1. PRINTF_SIZE - 1 \in Nat /\ PRINTF_SIZE - 1 <= Len(text)
    BY <1>2, ShellAssumption
  <2>2. SubSeq(text, 1, PRINTF_SIZE - 1) \in Seq(S)
    BY <2>1, PartType
  <2> QED
    BY <1>2, <2>2 DEF Printed
<1> QED BY <1>1, <1>2

LEMMA TextIsOutput == ASSUME NEW s \in Text PROVE s \in Seq(Outputs)
BY WiderType DEF Text, Outputs

\* Nothing that is printed but the echo of an erased character moves back.
Printables == Outputs \ {Backspace}

LEMMA PrintablesAre ==
    /\ Glyphs \subseteq Printables /\ {Newline, Clear, Halt} \subseteq Printables
    /\ Printables \subseteq Outputs
BY VgaAssumption, ShellAssumption DEF Printables, Outputs, Controls

LEMMA TextIsPrintable == ASSUME NEW s \in Text PROVE s \in Seq(Printables)
<1>1. Glyphs \union {Newline} \subseteq Printables
  BY PrintablesAre
<1> QED BY <1>1, WiderType DEF Text

\* What a command line prints
LEMMA RepliesPrintable ==
    ASSUME NEW line \in Seq(Glyphs), NEW text \in Replies(line)
    PROVE  text \in Seq(Printables)
<1>1. Glyphs \subseteq Printables /\ {Newline, Clear, Halt} \subseteq Printables
  BY PrintablesAre
<1>2. <<>> \in Seq(Printables) /\ <<Clear>> \in Seq(Printables)
      /\ <<Halt>> \in Seq(Printables) /\ <<Newline>> \in Seq(Printables)
  BY <1>1
<1>3. HelpText \in Seq(Printables) /\ RebootText \o <<Halt>> \in Seq(Printables)
  BY <1>2, TextIsPrintable, ShellAssumption, ConcatProperties
<1>4. \A report \in Reports : report \in Seq(Printables)
  BY TextIsPrintable, ShellAssumption
<1>5. SubSeq(line, Len(Echo) + 1, Len(line)) \o <<Newline>> \in Seq(Printables)
  <2>1. Len(Echo) + 1 \in Nat \ {0} /\ Len(line) \in Nat
    BY ShellAssumption
  <2>2. SubSeq(line, Len(Echo) + 1, Len(line)) \in Seq(Glyphs)
    BY <2>1, PartType
  <2> QED
    BY <1>1, <1>2, <2>2, WiderType, ConcatProperties
<1>6. Printed(Unknown(line)) \in Seq(Printables)
  <2>1. line \in Seq(Printables) /\ UnknownText \in Seq(Printables)
    BY <1>1, WiderType, ShellAssumption
  <2>2. Unknown(line) \in Seq(Printables)
    BY <1>2, <2>1, ConcatProperties DEF Unknown
  <2> QED
    BY <2>2, PrintedType
<1> QED
  BY <1>2, <1>3, <1>4, <1>5, <1>6 DEF Replies

LEMMA RepliesType ==
    ASSUME NEW line \in Seq(Glyphs), NEW text \in Replies(line)
    PROVE  text \in Seq(Outputs)
BY RepliesPrintable, PrintablesAre, WiderType

\* One key keeps the line shorter than its buffer and what is left to print
\* printable.
LEMMA KeyType ==
    ASSUME TypeOK, TakeKey
    PROVE  TypeOK'
<1> PICK c \in Keys : EndLine(c) \/ Erase(c) \/ Insert(c) \/ Ignore(c)
  BY DEF TakeKey
<1> DEFINE LineAndOutput ==
      /\ cmd_buf' \in Seq(Glyphs) /\ Len(cmd_buf') < CMD_SIZE
      /\ out' \in Seq(Outputs) /\ cut' \in BOOLEAN
<1>1. ASSUME EndLine(c) PROVE LineAndOutput
  <2>1. PICK text \in Replies(cmd_buf) : out' = <<Newline>> \o text \o Prompt
    BY <1>1 DEF EndLine
  <2>2. text \in Seq(Outputs)
    BY RepliesType DEF TypeOK
  <2>3. Prompt \in Seq(Outputs) /\ <<Newline>> \in Seq(Outputs)
    BY WiderType, ShellAssumption DEF Outputs
  <2>4. out' \in Seq(Outputs)
    BY <2>1, <2>2, <2>3, ConcatProperties
  <2>5. cmd_buf' = <<>> /\ cut' \in BOOLEAN
    BY <1>1 DEF EndLine, Cuts
  <2> QED
    BY <2>4, <2>5, ShellAssumption
<1>2. ASSUME Erase(c) PROVE LineAndOutput
  <2>1. cmd_buf \in Seq(Glyphs) /\ cmd_buf # <<>> /\ Len(cmd_buf) < CMD_SIZE
    BY <1>2 DEF Erase, TypeOK
  <2>2. cmd_buf' = SubSeq(cmd_buf, 1, Len(cmd_buf) - 1)
    BY <1>2 DEF Erase, Front
  <2>3. Len(cmd_buf) - 1 \in Nat
    BY <2>1
  <2>4. cmd_buf' \in Seq(Glyphs)
    BY <2>1, <2>2, <2>3, PartType
  <2>5. Len(cmd_buf') < CMD_SIZE
    BY <2>1, <2>2, <2>3, ShellAssumption, LenProperties
  <2> QED
    BY <1>2, <2>4, <2>5 DEF Erase, TypeOK, Outputs
<1>3. ASSUME Insert(c) PROVE LineAndOutput
  <2>1. cmd_buf' \in Seq(Glyphs) /\ Len(cmd_buf') = Len(cmd_buf) + 1
    BY <1>3, AppendProperties DEF Insert, TypeOK
  <2>2. Len(cmd_buf') < CMD_SIZE
    BY <1>3, <2>1, ShellAssumption DEF Insert, TypeOK
  <2> QED
    BY <1>3, <2>1, <2>2 DEF Insert, TypeOK, Outputs
<1>4. ASSUME Ignore(c) PROVE LineAndOutput
  BY <1>4 DEF Ignore, TypeOK
<1>5. LineAndOutput
  BY <1>1, <1>2, <1>3, <1>4
<1> QED
  BY <1>5 DEF TakeKey, TypeOK, VgaTypeOK, vgaVars

LEMMA ShownType ==
    ASSUME shown \in Text, NEW c \in Outputs \ {Clear, Halt}
    PROVE  Shows(c) \in Text
<1>1. CASE c # Backspace
  BY <1>1, AppendProperties DEF Shows, Text, Outputs
<1>2. CASE c = Backspace /\ shown # <<>>
  <2>1. Len(shown) - 1 \in Nat
    BY <1>2 DEF Text
  <2>2. SubSeq(shown, 1, Len(shown) - 1) \in Text
    BY <2>1, PartType DEF Text
  <2> QED
    BY <1>2, <2>2 DEF Shows, Front
<1>3. CASE c = Backspace /\ shown = <<>>
  BY <1>3 DEF Shows
<1> QED BY <1>1, <1>2, <1>3

LEMMA PrintType ==
    ASSUME TypeOK, PutChar \/ ClearScreen \/ HaltForever
    PROVE  TypeOK'
<1>1. out # <<>> /\ out \in Seq(Outputs)
  BY DEF PutChar, ClearScreen, HaltForever, TypeOK
<1>2. Head(out) \in Outputs /\ Tail(out) \in Seq(Outputs)
  BY <1>1, HeadTailProperties
<1>3. CASE PutChar
  <2>1. VgaTypeOK'
    BY <1>3, PutcharType DEF PutChar, TypeOK
  <2>2. shown' \in Text
    BY <1>2, <1>3, ShownType DEF PutChar, TypeOK
  <2>3. crossed' \in BOOLEAN
    BY <1>3 DEF PutChar, TypeOK
  <2> QED
    BY <1>2, <1>3, <2>1, <2>2, <2>3 DEF PutChar, TypeOK
<1>4. CASE ClearScreen
  <2>1. VgaTypeOK'
    BY <1>4, ClearType DEF ClearScreen
  <2>2. shown' \in Text
    BY <1>4 DEF ClearScreen, Text
  <2>3. crossed' \in BOOLEAN
    BY <1>4 DEF ClearScreen
  <2> QED
    BY <1>2, <1>4, <2>1, <2>2, <2>3 DEF ClearScreen, TypeOK
<1>5. CASE HaltForever
  BY <1>5 DEF HaltForever, TypeOK, VgaTypeOK, vgaVars
<1> QED BY <1>3, <1>4, <1>5

\* The shell never writes past cmd_buf, its final 0 included, and never moves
\* the cursor off the screen, for every size of the two and every text
\* (kernel_main).
THEOREM ShellTypeCorrect == Spec => []TypeOK
<1>1. Init => TypeOK
  <2> SUFFICES ASSUME Init PROVE TypeOK
    OBVIOUS
  <2>1. Banner \in Seq(Outputs) /\ Prompt \in Seq(Outputs)
    BY TextIsOutput, WiderType, ShellAssumption DEF Outputs
  <2>2. out \in Seq(Outputs)
    BY <2>1, ConcatProperties DEF Init
  <2>3. cmd_buf \in Seq(Glyphs) /\ Len(cmd_buf) < CMD_SIZE /\ shown \in Text
    BY ShellAssumption DEF Init, Text
  <2>4. halted \in BOOLEAN /\ crossed \in BOOLEAN /\ cut \in BOOLEAN
    BY DEF Init
  <2>5. VgaTypeOK
    BY VgaInitType DEF Init
  <2> QED
    BY <2>2, <2>3, <2>4, <2>5 DEF TypeOK
<1>2. TypeOK /\ [Next]_vars => TypeOK'
  <2> SUFFICES ASSUME TypeOK, [Next]_vars PROVE TypeOK'
    OBVIOUS
  <2>1. CASE UNCHANGED vars
    BY <2>1 DEF TypeOK, VgaTypeOK, vars, vgaVars, shellVars
  <2> QED
    BY <2>1, KeyType, PrintType DEF Next
<1> QED
  BY <1>1, <1>2, PTL DEF Spec

-----------------------------------------------------------------------------
\* What the user sees and what Enter runs

Ends == {Newline, Clear, Halt}

EndsWith(s, l) ==
    /\ Len(l) <= Len(s)
    /\ \A i \in 1..Len(l) : s[(Len(s) - Len(l)) + i] = l[i]

\* The line l is the end of s, and starts a line there, unless it need not.
Settled(s, l, free) ==
    /\ EndsWith(s, l)
    /\ free \/ Len(s) = Len(l) \/ s[Len(s) - Len(l)] \in Ends

\* The text on the screen when what is left to print has been printed
Coming ==
    IF out = <<Backspace>> /\ shown # <<>> THEN Front(shown) ELSE shown \o out

\* All that is left to print moves forward, or it is the echo of one erased
\* character, which is on the screen; and then the screen ends with the line.
EchoInv ==
    /\ IF out = <<Backspace>> THEN shown # <<>> ELSE out \in Seq(Printables)
    /\ Settled(Coming, Prompt \o cmd_buf, cut)

LEMMA SuffixIs ==
    ASSUME NEW S, NEW s \in Seq(S), NEW l \in Seq(S)
    PROVE  IsSuffix(l, s) <=> EndsWith(s, l)
<1> DEFINE rs == Reverse(s)
           rl == Reverse(l)
<1>1. Len(s) \in Nat /\ Len(l) \in Nat
  OBVIOUS
<1>2. /\ rs \in Seq(S) /\ Len(rs) = Len(s)
      /\ \A i \in 1..Len(s) : rs[i] = s[(Len(s) - i) + 1]
  BY DEF Reverse
<1>3. /\ rl \in Seq(S) /\ Len(rl) = Len(l)
      /\ \A i \in 1..Len(l) : rl[i] = l[(Len(l) - i) + 1]
  BY DEF Reverse
<1> HIDE DEF rs, rl
<1>4. ASSUME Len(l) <= Len(s)
      PROVE  /\ SubSeq(rs, 1, Len(l)) \in Seq(S)
             /\ Len(SubSeq(rs, 1, Len(l))) = Len(l)
             /\ \A i \in 1..Len(l) : SubSeq(rs, 1, Len(l))[i] = rs[i]
  BY <1>1, <1>2, <1>4
<1>5. SubSeq(rl, 1, Len(l)) = rl
  BY <1>3, SubSeqFull
<1>6. IsSuffix(l, s) <=> Len(l) <= Len(s) /\ rl = SubSeq(rs, 1, Len(l))
  BY <1>2, <1>3, <1>5 DEF IsSuffix, IsPrefix, rs, rl
<1>7. ASSUME Len(l) <= Len(s)
      PROVE  rl = SubSeq(rs, 1, Len(l)) <=> \A i \in 1..Len(l) : rl[i] = rs[i]
  <2>1. rl = SubSeq(rs, 1, Len(l)) => \A i \in 1..Len(l) : rl[i] = rs[i]
    BY <1>4, <1>7
  <2>2. (\A i \in 1..Len(l) : rl[i] = rs[i]) => rl = SubSeq(rs, 1, Len(l))
    BY <1>3, <1>4, <1>7, SeqEqual
  <2> QED BY <2>1, <2>2
<1>8. ASSUME Len(l) <= Len(s)
      PROVE  (\A i \in 1..Len(l) : rl[i] = rs[i])
                <=> \A i \in 1..Len(l) : s[(Len(s) - Len(l)) + i] = l[i]
  <2>1. ASSUME \A i \in 1..Len(l) : rl[i] = rs[i], NEW i \in 1..Len(l)
        PROVE  s[(Len(s) - Len(l)) + i] = l[i]
    <3>1. (Len(l) - i) + 1 \in 1..Len(l) /\ (Len(l) - i) + 1 \in 1..Len(s)
      BY <1>1, <1>8
    <3>2. (Len(l) - ((Len(l) - i) + 1)) + 1 = i
          /\ (Len(s) - ((Len(l) - i) + 1)) + 1 = (Len(s) - Len(l)) + i
      BY <1>1
    <3> QED BY ZenonT(40), <1>2, <1>3, <2>1, <3>1, <3>2
  <2>2. ASSUME \A i \in 1..Len(l) : s[(Len(s) - Len(l)) + i] = l[i], NEW i \in 1..Len(l)
        PROVE  rl[i] = rs[i]
    <3>1. (Len(l) - i) + 1 \in 1..Len(l) /\ i \in 1..Len(s)
      BY <1>1, <1>8
    <3>2. (Len(s) - Len(l)) + ((Len(l) - i) + 1) = (Len(s) - i) + 1
      BY <1>1
    <3> QED BY <1>2, <1>3, <2>2, <3>1, <3>2
  <2> QED BY <2>1, <2>2
<1> QED BY <1>6, <1>7, <1>8 DEF EndsWith

\* A character that is echoed as it enters the line
LEMMA SettledInsert ==
    ASSUME NEW S, NEW s \in Seq(S), NEW l \in Seq(S), NEW free \in BOOLEAN,
           Settled(s, l, free), NEW c \in S
    PROVE  Settled(Append(s, c), Append(l, c), free)
<1> DEFINE t == Append(s, c)
           m == Append(l, c)
<1>1. Len(s) \in Nat /\ Len(l) \in Nat /\ Len(l) <= Len(s)
  BY DEF Settled, EndsWith
<1>2. /\ Len(t) = Len(s) + 1 /\ t[Len(s) + 1] = c
      /\ \A i \in 1..Len(s) : t[i] = s[i]
  BY AppendProperties
<1>3. /\ Len(m) = Len(l) + 1 /\ m[Len(l) + 1] = c
      /\ \A i \in 1..Len(l) : m[i] = l[i]
  BY AppendProperties
<1> HIDE DEF t, m
<1>4. Len(t) - Len(m) = Len(s) - Len(l) /\ Len(m) <= Len(t)
  BY <1>1, <1>2, <1>3
<1>5. ASSUME NEW i \in 1..Len(m)
      PROVE  t[(Len(s) - Len(l)) + i] = m[i]
  <2>1. CASE i = Len(l) + 1
    <3>1. (Len(s) - Len(l)) + i = Len(s) + 1
      BY <1>1, <2>1
    <3> QED BY <1>2, <1>3, <2>1, <3>1
  <2>2. CASE i # Len(l) + 1
    <3>1. i \in 1..Len(l) /\ (Len(s) - Len(l)) + i \in 1..Len(s)
      BY <1>1, <1>3, <2>2
    <3>2. s[(Len(s) - Len(l)) + i] = l[i]
      BY <3>1 DEF Settled, EndsWith
    <3> QED BY <1>2, <1>3, <3>1, <3>2
  <2> QED BY <2>1, <2>2
<1>6. free \/ Len(t) = Len(m) \/ t[Len(t) - Len(m)] \in Ends
  <2>1. CASE Len(s) = Len(l)
    BY <1>2, <1>3, <2>1
  <2>2. CASE Len(s) # Len(l)
    <3>1. Len(s) - Len(l) \in 1..Len(s)
      BY <1>1, <2>2
    <3> QED BY <1>2, <1>4, <2>2, <3>1 DEF Settled
  <2> QED BY <2>1, <2>2
<1>7. Settled(t, m, free)
  BY <1>4, <1>5, <1>6 DEF Settled, EndsWith
<1> QED BY <1>7 DEF t, m

LEMMA FrontIs ==
    ASSUME NEW S, NEW s \in Seq(S), s # <<>>
    PROVE  /\ Front(s) \in Seq(S) /\ Len(Front(s)) = Len(s) - 1
           /\ \A i \in 1..(Len(s) - 1) : Front(s)[i] = s[i]
<1> DEFINE n == Len(s) - 1
           t == SubSeq(s, 1, n)
<1>1. n \in Nat /\ \A i \in 1..n : s[i] \in S
  BY EmptySeq
<1> HIDE DEF n
<1>2. /\ t \in Seq(S) /\ Len(t) = IF 1 <= n THEN (n - 1) + 1 ELSE 0
      /\ \A i \in 1..((n - 1) + 1) : t[i] = s[(1 + i) - 1]
  BY <1>1, SubSeqProperties
<1> HIDE DEF t
<1>3. Len(t) = n /\ \A i \in 1..n : t[i] = s[i]
  BY <1>1, <1>2
<1> QED BY <1>2, <1>3 DEF n, t, Front

\* A character that leaves both
LEMMA SettledErase ==
    ASSUME NEW S, NEW s \in Seq(S), NEW l \in Seq(S), NEW free \in BOOLEAN,
           Settled(s, l, free), l # <<>>
    PROVE  s # <<>> /\ Settled(Front(s), Front(l), free)
<1> DEFINE t == Front(s)
           m == Front(l)
<1>1. Len(s) \in Nat /\ Len(l) \in Nat \ {0} /\ Len(l) <= Len(s)
  BY EmptySeq DEF Settled, EndsWith
<1>2. s # <<>>
  BY <1>1, EmptySeq
<1>3. /\ Len(t) = Len(s) - 1 /\ \A i \in 1..(Len(s) - 1) : t[i] = s[i]
      /\ Len(m) = Len(l) - 1 /\ \A i \in 1..(Len(l) - 1) : m[i] = l[i]
  BY <1>2, FrontIs
<1> HIDE DEF t, m
<1>4. Len(t) - Len(m) = Len(s) - Len(l) /\ Len(m) <= Len(t)
  BY <1>1, <1>3
<1>5. ASSUME NEW i \in 1..Len(m)
      PROVE  t[(Len(s) - Len(l)) + i] = m[i]
  <2>1. /\ i \in 1..(Len(l) - 1) /\ i \in 1..Len(l)
        /\ (Len(s) - Len(l)) + i \in 1..(Len(s) - 1)
    BY <1>1, <1>3
  <2>2. s[(Len(s) - Len(l)) + i] = l[i]
    BY <2>1 DEF Settled, EndsWith
  <2> QED BY <1>3, <2>1, <2>2
<1>6. free \/ Len(t) = Len(m) \/ t[Len(t) - Len(m)] \in Ends
  <2>1. CASE Len(s) = Len(l)
    BY <1>3, <2>1
  <2>2. CASE Len(s) # Len(l)
    <3>1. Len(s) - Len(l) \in 1..(Len(s) - 1)
      BY <1>1, <2>2
    <3> QED BY <1>3, <1>4, <2>2, <3>1 DEF Settled
  <2> QED BY <2>1, <2>2
<1>7. Settled(t, m, free)
  BY <1>4, <1>5, <1>6 DEF Settled, EndsWith
<1> QED BY <1>2, <1>7 DEF t, m

\* A line that is printed after whole lines
LEMMA SettledFresh ==
    ASSUME NEW S, NEW x \in Seq(S), NEW l \in Seq(S), NEW free \in BOOLEAN,
           free \/ x = <<>> \/ x[Len(x)] \in Ends
    PROVE  Settled(x \o l, l, free)
<1> DEFINE z == x \o l
<1>1. /\ Len(x) \in Nat /\ Len(l) \in Nat /\ Len(z) = Len(x) + Len(l)
      /\ \A i \in 1..(Len(x) + Len(l)) :
            z[i] = IF i <= Len(x) THEN x[i] ELSE l[i - Len(x)]
  BY ConcatProperties
<1>2. x = <<>> => Len(x) = 0
  OBVIOUS
<1>3. x # <<>> => Len(x) \in 1..Len(x)
  BY EmptySeq
<1> HIDE DEF z
<1>4. ASSUME NEW i \in 1..Len(l)
      PROVE  z[(Len(z) - Len(l)) + i] = l[i]
  <2>1. (Len(z) - Len(l)) + i = Len(x) + i /\ Len(x) + i \in 1..(Len(x) + Len(l))
        /\ (Len(x) + i) - Len(x) = i /\ ~(Len(x) + i <= Len(x))
    BY <1>1
  <2> QED BY <1>1, <2>1
<1>5. free \/ Len(z) = Len(l) \/ z[Len(z) - Len(l)] \in Ends
  <2>1. CASE x = <<>>
    BY <1>1, <1>2, <2>1
  <2>2. CASE x # <<>>
    <3>1. Len(z) - Len(l) = Len(x) /\ Len(x) \in 1..(Len(x) + Len(l))
      BY <1>1, <1>3, <2>2
    <3> QED BY <1>1, <2>2, <3>1
  <2> QED BY <2>1, <2>2
<1>6. Settled(z, l, free)
  BY <1>1, <1>4, <1>5 DEF Settled, EndsWith
<1> QED BY <1>6 DEF z

\* Clearing the screen takes what is before it, and never a part of the line.
LEMMA SettledClear ==
    ASSUME NEW S, NEW x \in Seq(S), NEW y \in Seq(S), NEW l \in Seq(Glyphs),
           NEW free \in BOOLEAN, y # <<>>, Head(y) = Clear, Settled(x \o y, l, free)
    PROVE  Settled(<<>> \o Tail(y), l, free)
<1> DEFINE z == x \o y
           t == <<>> \o Tail(y)
<1>1. /\ Len(x) \in Nat /\ Len(y) \in Nat \ {0} /\ Len(l) \in Nat
      /\ Len(z) = Len(x) + Len(y)
      /\ \A i \in 1..(Len(x) + Len(y)) :
            z[i] = IF i <= Len(x) THEN x[i] ELSE y[i - Len(x)]
  BY ConcatProperties, EmptySeq
<1>2. Tail(y) \in Seq(S) /\ Len(Tail(y)) = Len(y) - 1
      /\ \A i \in 1..Len(Tail(y)) : Tail(y)[i] = y[i + 1]
  BY HeadTailProperties
<1>3. t = Tail(y)
  BY <1>2, ConcatEmptySeq
<1>4. y[1] = Clear
  BY <1>1
<1>5. \A i \in 1..Len(l) : l[i] # Clear
  BY ShellAssumption
<1>6. Settled(z, l, free)
  OBVIOUS
<1> HIDE DEF z
<1>7. z[Len(x) + 1] = Clear
  <2>1. Len(x) + 1 \in 1..(Len(x) + Len(y)) /\ ~(Len(x) + 1 <= Len(x))
        /\ (Len(x) + 1) - Len(x) = 1
    BY <1>1
  <2> QED BY <1>1, <1>4, <2>1
<1>8. Len(l) <= Len(z) /\ \A i \in 1..Len(l) : z[(Len(z) - Len(l)) + i] = l[i]
  BY <1>6 DEF Settled, EndsWith
<1>9. Len(l) <= Len(y) - 1
  <2> SUFFICES ASSUME ~(Len(l) <= Len(y) - 1) PROVE FALSE
    OBVIOUS
  <2> DEFINE i == (Len(l) - Len(y)) + 1
  <2>1. i \in 1..Len(l) /\ (Len(z) - Len(l)) + i = Len(x) + 1
    BY <1>1, <1>8
  <2> HIDE DEF i
  <2> QED BY <1>5, <1>7, <1>8, <2>1
<1> HIDE DEF t
<1>10. Len(t) = Len(y) - 1
       /\ \A i \in 1..(Len(y) - 1) : t[i] = z[(Len(x) + 1) + i]
  <2>1. ASSUME NEW i \in 1..(Len(y) - 1)
        PROVE  t[i] = z[(Len(x) + 1) + i]
    <3>1. (Len(x) + 1) + i \in 1..(Len(x) + Len(y)) /\ ~((Len(x) + 1) + i <= Len(x))
          /\ ((Len(x) + 1) + i) - Len(x) = i + 1
      BY <1>1
    <3> QED BY <1>1, <1>2, <1>3, <3>1
  <2> QED BY <1>2, <1>3, <2>1
<1>11. ASSUME NEW i \in 1..Len(l)
       PROVE  t[(Len(t) - Len(l)) + i] = l[i]
  <2>1. (Len(t) - Len(l)) + i \in 1..(Len(y) - 1)
        /\ (Len(x) + 1) + ((Len(t) - Len(l)) + i) = (Len(z) - Len(l)) + i
    BY <1>1, <1>9, <1>10
  <2> QED BY <1>8, <1>10, <2>1
<1>12. free \/ Len(t) = Len(l) \/ t[Len(t) - Len(l)] \in Ends
  <2> SUFFICES ASSUME Len(t) # Len(l), ~free PROVE t[Len(t) - Len(l)] \in Ends
    OBVIOUS
  <2>1. Len(t) - Len(l) \in 1..(Len(y) - 1) /\ Len(z) # Len(l)
        /\ (Len(x) + 1) + (Len(t) - Len(l)) = Len(z) - Len(l)
    BY <1>1, <1>9, <1>10
  <2> QED BY <1>6, <1>10, <2>1 DEF Settled
<1>13. Settled(t, l, free)
  BY <1>9, <1>10, <1>11, <1>12 DEF Settled, EndsWith
<1> QED BY <1>13 DEF t

\* A character printed goes from what is left to what is shown.
LEMMA MovesOn ==
    ASSUME NEW S, NEW x \in Seq(S), NEW y \in Seq(S), y # <<>>
    PROVE  Append(x, Head(y)) \o Tail(y) = x \o y
<1>1. Head(y) \in S /\ Tail(y) \in Seq(S) /\ <<Head(y)>> \in Seq(S)
  BY HeadTailProperties
<1>2. Append(x, Head(y)) = x \o <<Head(y)>>
  BY <1>1, AppendIsConcat
<1>3. y = <<Head(y)>> \o Tail(y)
  <2>1. Len(y) \in Nat \ {0}
    BY EmptySeq
  <2>2. 1 \in 1..Len(y) /\ Len(y) \in 1..Len(y)
    BY <2>1
  <2>3. SubSeq(y, 1, Len(y)) = <<y[1]>> \o SubSeq(y, 1 + 1, Len(y))
    BY <2>2, SubSeqRecursiveFirst
  <2>4. SubSeq(y, 1 + 1, Len(y)) = Tail(y)
    BY TailIsSubSeq
  <2> QED BY <2>3, <2>4, SubSeqFull
<1>4. (x \o <<Head(y)>>) \o Tail(y) = x \o (<<Head(y)>> \o Tail(y))
  BY <1>1, ConcatAssociative
<1> QED BY <1>2, <1>3, <1>4

\* What a line prints ends with a newline, unless vga_printf cuts it.
LEMMA RepliesEnd ==
    ASSUME NEW line \in Seq(Glyphs), NEW text \in Replies(line), ~Cuts(line)
    PROVE  text = <<>> \/ text[Len(text)] \in Ends
<1>1. ASSUME NEW x \in Seq(Outputs), NEW c \in Ends
      PROVE  (x \o <<c>>)[Len(x \o <<c>>)] \in Ends
  <2>1. c \in Outputs
    BY DEF Ends, Outputs
  <2> DEFINE z == Append(x, c)
  <2>2. Len(x) \in Nat /\ Len(z) = Len(x) + 1 /\ z[Len(x) + 1] = c
    BY <2>1, AppendProperties
  <2>3. x \o <<c>> = z
    BY <2>1, AppendIsConcat
  <2> HIDE DEF z
  <2> QED BY <2>2, <2>3
<1>2. (RebootText \o <<Halt>>)[Len(RebootText \o <<Halt>>)] \in Ends
  BY <1>1, TextIsOutput, ShellAssumption DEF Ends
<1>3. LET x == SubSeq(line, Len(Echo) + 1, Len(line))
      IN  (x \o <<Newline>>)[Len(x \o <<Newline>>)] \in Ends
  <2>1. Len(Echo) + 1 \in Nat \ {0} /\ Len(line) \in Nat
    BY ShellAssumption
  <2>2. SubSeq(line, Len(Echo) + 1, Len(line)) \in Seq(Glyphs)
    BY <2>1, PartType
  <2>3. SubSeq(line, Len(Echo) + 1, Len(line)) \in Seq(Outputs)
    BY <2>2, WiderType DEF Outputs
  <2> QED BY <1>1, <2>3 DEF Ends
<1>4. Unknown(line)[Len(Unknown(line))] \in Ends
  <2>1. UnknownText \o line \in Seq(Outputs)
    BY WiderType, ShellAssumption, ConcatProperties DEF Outputs
  <2> QED BY <1>1, <2>1 DEF Ends, Unknown
<1>5. \A lines \in {HelpText} \union Reports :
          lines = <<>> \/ lines[Len(lines)] \in Ends
  BY ShellAssumption DEF Lines, Last, Ends
<1>6. <<Clear>>[Len(<<Clear>>)] \in Ends
  BY DEF Ends
<1>7. CASE Replies(line) = {Printed(Unknown(line))}
  <2>1. Len(Unknown(line)) < PRINTF_SIZE
    <3>1. Unknown(line) \in Seq(Outputs)
      BY WiderType, ShellAssumption, ConcatProperties DEF Outputs, Unknown
    <3>2. Len(Unknown(line)) \in Nat /\ PRINTF_SIZE \in Nat
      BY <3>1, ShellAssumption
    <3> QED BY <1>7, <3>2 DEF Cuts
  <2> QED BY <1>4, <1>7, <2>1 DEF Printed
<1> QED BY <1>2, <1>3, <1>5, <1>6, <1>7 DEF Replies

LEMMA PromptType ==
    /\ Prompt \in Seq(Printables) /\ Prompt \in Seq(Outputs)
    /\ \A line \in Seq(Glyphs) : Prompt \o line \in Seq(Glyphs)
BY PrintablesAre, WiderType, ShellAssumption, ConcatProperties DEF Outputs

LEMMA NoneMovesBack == ASSUME NEW s \in Seq(Printables) PROVE s # <<Backspace>>
<1> SUFFICES ASSUME s = <<Backspace>> PROVE FALSE
  OBVIOUS
<1>1. 1 \in 1..Len(s) /\ s[1] = Backspace
  OBVIOUS
<1>2. s[1] \in Printables
  BY <1>1, ElementOfSeq
<1> QED BY <1>1, <1>2 DEF Printables

\* What keeps the invariant of a step is that all that is left moves forward
\* and that the text to come is settled.
LEMMA EchoKept ==
    ASSUME out' \in Seq(Printables), Settled(shown' \o out', Prompt \o cmd_buf', cut')
    PROVE  EchoInv'
BY NoneMovesBack DEF EchoInv, Coming

LEMMA EchoInit == Init => EchoInv
<1> SUFFICES ASSUME Init PROVE EchoInv
  OBVIOUS
<1>1. Banner \in Seq(Printables) /\ Prompt \in Seq(Printables)
  BY TextIsPrintable, PromptType, ShellAssumption
<1>2. out = Banner \o Prompt /\ out \in Seq(Printables) /\ shown = <<>> /\ cut = FALSE
      /\ cmd_buf = <<>>
  BY <1>1, ConcatProperties DEF Init
<1>3. shown \o out = out /\ Prompt \o cmd_buf = Prompt
  BY <1>1, <1>2, ConcatEmptySeq
<1>4. Banner = <<>> \/ Banner[Len(Banner)] \in Ends
  BY ShellAssumption DEF Lines, Last, Ends
<1>5. Settled(Banner \o Prompt, Prompt, FALSE)
  BY <1>1, <1>4, SettledFresh
<1>6. out # <<Backspace>>
  BY <1>2, NoneMovesBack
<1> QED BY <1>2, <1>3, <1>5, <1>6 DEF EchoInv, Coming

LEMMA EchoEndLine ==
    ASSUME TypeOK, out = <<>>, NEW c, EndLine(c), UNCHANGED shown
    PROVE  EchoInv'
<1>1. PICK text \in Replies(cmd_buf) : out' = (<<Newline>> \o text) \o Prompt
  BY DEF EndLine
<1> DEFINE x == <<Newline>> \o text
<1>2. text \in Seq(Printables) /\ text \in Seq(Outputs) /\ cmd_buf \in Seq(Glyphs)
  BY RepliesPrintable, RepliesType DEF TypeOK
<1>3. <<Newline>> \in Seq(Printables) /\ <<Newline>> \in Seq(Outputs)
  BY PrintablesAre
<1>4. out' \in Seq(Printables)
  BY <1>1, <1>2, <1>3, PromptType, ConcatProperties
<1>5. shown \in Seq(Outputs)
  BY TextIsOutput DEF TypeOK
<1>6. x \in Seq(Outputs) /\ shown \o x \in Seq(Outputs)
  BY <1>2, <1>3, <1>5, ConcatProperties
<1>7. x # <<>> /\ (cut' \/ x[Len(x)] \in Ends)
  <2>1. /\ Len(x) = 1 + Len(text) /\ Len(text) \in Nat
        /\ \A i \in 1..(1 + Len(text)) :
              x[i] = IF i <= 1 THEN Newline ELSE text[i - 1]
    <3>1. Len(<<Newline>>) = 1 /\ <<Newline>>[1] = Newline
      OBVIOUS
    <3>2. /\ Len(x) = Len(<<Newline>>) + Len(text)
          /\ \A i \in 1..(Len(<<Newline>>) + Len(text)) :
                x[i] = IF i <= Len(<<Newline>>) THEN <<Newline>>[i]
                       ELSE text[i - Len(<<Newline>>)]
      BY <1>2, <1>3, ConcatProperties
    <3> HIDE DEF x
    <3> QED BY <1>2, <3>1, <3>2
  <2>2. cut' = Cuts(cmd_buf)
    BY DEF EndLine
  <2>3. ~Cuts(cmd_buf) => text = <<>> \/ text[Len(text)] \in Ends
    BY <1>2, RepliesEnd
  <2>4. text = <<>> => Len(text) = 0
    OBVIOUS
  <2>5. text # <<>> => Len(text) >= 1
    BY <1>2, EmptySeq
  <2>6. Newline \in Ends
    BY DEF Ends
  <2> HIDE DEF x
  <2>7. x # <<>>
    BY <2>1
  <2>8. text = <<>> => x[Len(x)] = Newline
    BY <2>1, <2>4
  <2>9. text # <<>> => x[Len(x)] = text[Len(text)]
    BY <2>1, <2>5
  <2> QED BY <2>2, <2>3, <2>6, <2>7, <2>8, <2>9
<1> HIDE DEF x
<1>8. (shown \o x)[Len(shown \o x)] = x[Len(x)]
  <2>1. Len(shown) \in Nat /\ Len(x) \in Nat \ {0}
    BY <1>5, <1>6, <1>7, EmptySeq
  <2> DEFINE z == shown \o x
  <2>2. /\ Len(z) = Len(shown) + Len(x)
        /\ \A i \in 1..(Len(shown) + Len(x)) :
              z[i] = IF i <= Len(shown) THEN shown[i] ELSE x[i - Len(shown)]
    BY <1>5, <1>6, ConcatProperties
  <2> HIDE DEF z
  <2>3. z[Len(z)] = x[Len(x)]
    BY <2>1, <2>2
  <2> QED BY <2>3 DEF z
<1>9. cut' \in BOOLEAN
  BY DEF EndLine, Cuts
<1>10. Settled((shown \o x) \o Prompt, Prompt, cut')
  BY <1>6, <1>7, <1>8, <1>9, PromptType, SettledFresh
<1>11. shown' \o out' = (shown \o x) \o Prompt
  <2>1. out' = x \o Prompt
    BY <1>1 DEF x
  <2>2. (shown \o x) \o Prompt = shown \o (x \o Prompt)
    BY <1>5, <1>6, PromptType, ConcatAssociative
  <2> QED BY <2>1, <2>2
<1>12. Prompt \o cmd_buf' = Prompt
  BY PromptType, ConcatEmptySeq DEF EndLine
<1> QED BY <1>4, <1>10, <1>11, <1>12, EchoKept

LEMMA EchoKey ==
    ASSUME TypeOK, EchoInv, TakeKey
    PROVE  EchoInv'
<1> PICK c \in Keys : EndLine(c) \/ Erase(c) \/ Insert(c) \/ Ignore(c)
  BY DEF TakeKey
<1> DEFINE l == Prompt \o cmd_buf
<1>1. out = <<>> /\ UNCHANGED shown
  BY DEF TakeKey
<1>2. cmd_buf \in Seq(Glyphs) /\ shown \in Seq(Outputs) /\ cut \in BOOLEAN
      /\ Prompt \in Seq(Glyphs)
  BY TextIsOutput, ShellAssumption DEF TypeOK
<1>3. l \in Seq(Glyphs) /\ l \in Seq(Outputs)
  BY <1>2, PromptType, WiderType DEF Outputs
<1>4. Settled(shown, l, cut)
  <2>1. shown \o out = shown
    BY <1>1, <1>2, ConcatEmptySeq
  <2>2. out # <<Backspace>>
    BY <1>1
  <2> QED BY <2>1, <2>2 DEF EchoInv, Coming
<1>5. CASE EndLine(c)
  BY <1>1, <1>5, EchoEndLine
<1>6. CASE Erase(c)
  <2>1. cmd_buf # <<>> /\ cmd_buf' = Front(cmd_buf) /\ out' = <<Backspace>> /\ cut' = cut
    BY <1>6 DEF Erase
  <2>2. /\ Len(l) = Len(Prompt) + Len(cmd_buf) /\ Len(Prompt) \in Nat
        /\ Len(cmd_buf) \in Nat \ {0}
        /\ \A i \in 1..(Len(Prompt) + Len(cmd_buf)) :
              l[i] = IF i <= Len(Prompt) THEN Prompt[i] ELSE cmd_buf[i - Len(Prompt)]
    BY <1>2, <2>1, ConcatProperties, EmptySeq
  <2>3. /\ cmd_buf' \in Seq(Glyphs) /\ Len(cmd_buf') = Len(cmd_buf) - 1
        /\ \A i \in 1..(Len(cmd_buf) - 1) : cmd_buf'[i] = cmd_buf[i]
    BY <1>2, <2>1, FrontIs
  <2> DEFINE m == Prompt \o cmd_buf'
  <2>4. /\ m \in Seq(Glyphs) /\ Len(m) = Len(Prompt) + Len(cmd_buf')
        /\ \A i \in 1..(Len(Prompt) + Len(cmd_buf')) :
              m[i] = IF i <= Len(Prompt) THEN Prompt[i] ELSE cmd_buf'[i - Len(Prompt)]
    BY <1>2, <2>3, ConcatProperties
  <2> HIDE DEF l, m
  <2>5. l # <<>>
    BY <2>2
  <2>6. /\ Front(l) \in Seq(Glyphs) /\ Len(Front(l)) = Len(l) - 1
        /\ \A i \in 1..(Len(l) - 1) : Front(l)[i] = l[i]
    BY <1>3, <2>5, FrontIs
  <2>7. Len(m) = Len(l) - 1 /\ \A i \in 1..(Len(l) - 1) : m[i] = l[i]
    <3>1. Len(m) = Len(l) - 1
      BY <2>2, <2>3, <2>4
    <3>2. ASSUME NEW i \in 1..(Len(l) - 1), i <= Len(Prompt)
          PROVE  m[i] = l[i]
      BY <2>2, <2>3, <2>4, <3>2
    <3>3. ASSUME NEW i \in 1..(Len(l) - 1), ~(i <= Len(Prompt))
          PROVE  m[i] = l[i]
      <4>1. /\ i - Len(Prompt) \in 1..(Len(cmd_buf) - 1)
            /\ i \in 1..(Len(Prompt) + Len(cmd_buf))
            /\ i \in 1..(Len(Prompt) + Len(cmd_buf'))
        BY <2>2, <2>3, <3>3
      <4> QED BY <2>2, <2>3, <2>4, <3>3, <4>1
    <3> QED BY <3>1, <3>2, <3>3
  <2>8. m = Front(l)
    BY <2>4, <2>6, <2>7, SeqEqual
  <2>9. shown # <<>> /\ Settled(Front(shown), Front(l), cut)
    BY <1>2, <1>3, <1>4, <2>5, SettledErase
  <2> QED BY <1>1, <2>1, <2>8, <2>9 DEF EchoInv, Coming, m
<1>7. CASE Insert(c)
  <2>1. c \in Glyphs /\ cmd_buf' = Append(cmd_buf, c) /\ out' = <<c>> /\ cut' = cut
    BY <1>7 DEF Insert
  <2>2. c \in Outputs /\ out' \in Seq(Printables) /\ <<c>> \in Seq(Glyphs)
    BY <2>1, PrintablesAre
  <2>3. Settled(Append(shown, c), Append(l, c), cut)
    BY <1>2, <1>3, <1>4, <2>2, SettledInsert
  <2>4. Prompt \o cmd_buf' = Append(l, c)
    <3>1. cmd_buf' = cmd_buf \o <<c>> /\ Append(l, c) = l \o <<c>>
      BY <1>2, <1>3, <2>1, AppendIsConcat
    <3>2. (Prompt \o cmd_buf) \o <<c>> = Prompt \o (cmd_buf \o <<c>>)
      BY <1>2, <2>2, ConcatAssociative
    <3> QED BY <3>1, <3>2
  <2>5. shown' \o out' = Append(shown, c)
    BY <1>1, <1>2, <2>1, <2>2, AppendIsConcat
  <2> QED BY <2>1, <2>2, <2>3, <2>4, <2>5, EchoKept
<1>8. CASE Ignore(c)
  BY <1>1, <1>8 DEF Ignore, EchoInv, Coming
<1> QED BY <1>5, <1>6, <1>7, <1>8

LEMMA EchoPrint ==
    ASSUME TypeOK, EchoInv, PutChar \/ ClearScreen \/ HaltForever
    PROVE  EchoInv'
<1> DEFINE l == Prompt \o cmd_buf
<1>1. /\ out # <<>> /\ out \in Seq(Outputs) /\ shown \in Seq(Outputs) /\ cut \in BOOLEAN
      /\ UNCHANGED <<cmd_buf, cut>> /\ l \in Seq(Glyphs)
  BY TextIsOutput, PromptType DEF PutChar, ClearScreen, HaltForever, TypeOK
<1>2. CASE PutChar /\ out = <<Backspace>>
  <2>1. shown # <<>> /\ Settled(Front(shown), l, cut)
    BY <1>2 DEF EchoInv, Coming
  <2>2. Head(out) = Backspace /\ Tail(out) = <<>>
    BY <1>2
  <2>3. shown' = Front(shown) /\ out' = <<>>
    BY <1>2, <2>1, <2>2 DEF PutChar, Shows
  <2>4. Front(shown) \in Seq(Outputs)
    BY <1>1, <2>1, FrontIs
  <2>5. shown' \o out' = Front(shown) /\ out' \in Seq(Printables)
    BY <2>3, <2>4, ConcatEmptySeq
  <2> QED BY <1>1, <2>1, <2>5, EchoKept
<1>3. CASE out # <<Backspace>> /\ (PutChar \/ ClearScreen)
  <2>1. out \in Seq(Printables) /\ Settled(shown \o out, l, cut)
    BY <1>3 DEF EchoInv, Coming
  <2>2. Head(out) \in Printables /\ Tail(out) \in Seq(Printables)
    BY <1>1, <2>1, HeadTailProperties
  <2>3. CASE PutChar
    <3>1. shown' = Append(shown, Head(out)) /\ out' = Tail(out)
      BY <2>2, <2>3 DEF PutChar, Shows, Printables
    <3>2. shown' \o out' = shown \o out
      BY <1>1, <3>1, MovesOn
    <3> QED BY <1>1, <2>1, <2>2, <3>1, <3>2, EchoKept
  <2>4. CASE ClearScreen
    <3>1. shown' = <<>> /\ out' = Tail(out) /\ Head(out) = Clear
      BY <2>4 DEF ClearScreen
    <3>2. Settled(<<>> \o Tail(out), l, cut)
      BY <1>1, <2>1, <3>1, SettledClear
    <3> QED BY <1>1, <2>2, <3>1, <3>2, EchoKept
  <2> QED BY <1>3, <2>3, <2>4
<1>4. CASE out = <<Backspace>> /\ ClearScreen
  BY SMTT(30), <1>4, ShellAssumption DEF ClearScreen, Controls
<1>5. CASE HaltForever
  BY <1>5 DEF HaltForever, EchoInv, Coming
<1> QED BY <1>2, <1>3, <1>4, <1>5

LEMMA EchoStep == TypeOK /\ EchoInv /\ [Next]_vars => EchoInv'
<1> SUFFICES ASSUME TypeOK, EchoInv, [Next]_vars PROVE EchoInv'
  OBVIOUS
<1>1. CASE UNCHANGED vars
  BY <1>1 DEF vars, shellVars, EchoInv, Coming
<1> QED BY <1>1, EchoKey, EchoPrint DEF Next

\* What is still to be printed after what the screen shows ends with the line
\* as it is typed, behind a prompt that starts a line (shell_run).
THEOREM EchoCorrect == Spec => []EchoInv
BY ShellTypeCorrect, EchoInit, EchoStep, PTL DEF Spec

LEMMA SettledText ==
    ASSUME TypeOK, EchoInv, out = <<>>
    PROVE  /\ shown \in Seq(Outputs) /\ Prompt \o cmd_buf \in Seq(Outputs)
           /\ Settled(shown, Prompt \o cmd_buf, cut)
<1>1. shown \in Seq(Outputs) /\ Prompt \o cmd_buf \in Seq(Glyphs)
  BY TextIsOutput, PromptType DEF TypeOK
<1>2. shown \o out = shown /\ out # <<Backspace>>
  BY <1>1, ConcatEmptySeq
<1>3. Settled(shown, Prompt \o cmd_buf, cut)
  BY <1>2 DEF EchoInv, Coming
<1> QED BY <1>1, <1>3, WiderType DEF Outputs

\* When the shell waits for a key, the screen ends with the prompt and the
\* command line that Enter would run, whatever was typed and erased, for every
\* size of the buffers and every text (kernel_main).
THEOREM SeesCorrect == Spec => []SeesWhatRuns
<1>1. TypeOK /\ EchoInv => SeesWhatRuns
  BY SettledText, SuffixIs DEF SeesWhatRuns, Settled
<1> QED BY <1>1, EchoCorrect, ShellTypeCorrect, PTL

\* Every prompt starts a line, unless vga_printf cut the reply before it, for
\* every PRINTF_SIZE and every text the commands print (kernel_main).
THEOREM PromptCorrect == Spec => []PromptStartsALine
<1>1. TypeOK /\ EchoInv => PromptStartsALine
  <2> SUFFICES ASSUME TypeOK, EchoInv, out = <<>>, ~cut
               PROVE  LET before == SubSeq(shown, 1, Len(shown) - Len(Prompt \o cmd_buf))
                      IN  before = <<>> \/ Last(before) = Newline
    BY DEF PromptStartsALine
  <2> DEFINE l == Prompt \o cmd_buf
             k == Len(shown) - Len(l)
             before == SubSeq(shown, 1, k)
  <2>1. shown \in Seq(Outputs) /\ l \in Seq(Outputs) /\ Settled(shown, l, FALSE)
    BY SettledText DEF Settled
  <2> HIDE DEF l
  <2>2. k \in 0..Len(shown) /\ (k = 0 \/ shown[k] \in Ends)
    BY <2>1 DEF Settled, EndsWith
  <2>3. CASE k = 0
    BY <2>3, SubSeqEmpty DEF l
  <2>4. CASE k # 0
    <3>1. k \in 1..Len(shown) /\ shown[k] \in Ends
      BY <2>2, <2>4
    <3>2. shown[k] \in Glyphs \union {Newline}
      BY <3>1 DEF TypeOK, Text
    <3>3. shown[k] = Newline
      BY <3>1, <3>2, ShellAssumption DEF Ends
    <3>4. \A i \in 1..k : shown[i] \in Outputs
      BY <2>1, <3>1
    <3> HIDE DEF k
    <3>5. Len(before) = k /\ before[k] = shown[k]
      BY <3>1, <3>4
    <3> QED BY <3>3, <3>5 DEF Last, k, l
  <2> QED BY <2>3, <2>4
<1> QED BY <1>1, EchoCorrect, ShellTypeCorrect, PTL

-----------------------------------------------------------------------------
(* What the screen shows.  First the page of a text: the start of a line is  *)
(* where the last newline before it left off, and a row is full after        *)
(* VGA_WIDTH characters of a line.                                           *)

\* f is the function that RowsAbove(text) recurses to.
IsRows(text, f) ==
    f = [i \in 1..(Len(text) + 1) |->
            IF i = 1 THEN 0
            ELSE f[i - 1] + (IF text[i - 1] = Newline
                             THEN Offset(text, i - 1) \div VGA_WIDTH + 1 ELSE 0)]

LEMMA RowsAboveIs ==
    ASSUME NEW text PROVE RowsAbove(text) = CHOOSE f : IsRows(text, f)
BY DEF RowsAbove, IsRows

LEMMA OneStart ==
    ASSUME NEW text, NEW i \in Nat, NEW j \in 1..i, NEW k \in 1..i,
           Starts(text, j, i), Starts(text, k, i)
    PROVE  j = k
<1>1. ASSUME NEW a \in 1..i, NEW b \in 1..i, a < b, Starts(text, a, i), Starts(text, b, i)
      PROVE  FALSE
  <2>1. b - 1 \in a..(i - 1) /\ b # 1
    BY <1>1
  <2> QED BY <1>1, <2>1 DEF Starts
<1> QED BY <1>1

LEMMA OffsetIs ==
    ASSUME NEW text, NEW i \in Nat, NEW j \in 1..i, Starts(text, j, i)
    PROVE  Offset(text, i) = i - j /\ Offset(text, i) \in Nat
<1>1. \A k \in 1..i : Starts(text, k, i) <=> k = j
  BY OneStart
<1>2. (CHOOSE k \in 1..i : Starts(text, k, i)) = j
  BY <1>1
<1>3. Offset(text, i) = i - j
  BY <1>2 DEF Offset
<1> QED BY <1>3

LEMMA StartsSame ==
    ASSUME NEW t, NEW u, NEW i \in Nat, \A k \in 1..(i - 1) : t[k] = u[k],
           NEW j \in 1..i
    PROVE  Starts(t, j, i) <=> Starts(u, j, i)
<1>1. j # 1 => j - 1 \in 1..(i - 1)
  OBVIOUS
<1>2. \A k \in j..(i - 1) : k \in 1..(i - 1)
  OBVIOUS
<1> QED BY <1>1, <1>2 DEF Starts

LEMMA OffsetSame ==
    ASSUME NEW t, NEW u, NEW i \in Nat, \A k \in 1..(i - 1) : t[k] = u[k]
    PROVE  Offset(t, i) = Offset(u, i)
<1>1. \A j \in 1..i : Starts(t, j, i) <=> Starts(u, j, i)
  BY StartsSame
<1>2. (CHOOSE j \in 1..i : Starts(t, j, i)) = (CHOOSE j \in 1..i : Starts(u, j, i))
  BY <1>1
<1> QED BY <1>2 DEF Offset

LEMMA StartsNext ==
    ASSUME NEW text, NEW i \in Nat \ {0}, NEW j \in 1..i, Starts(text, j, i)
    PROVE  IF text[i] = Newline THEN Starts(text, i + 1, i + 1) ELSE Starts(text, j, i + 1)
BY DEF Starts

LEMMA OffsetNext ==
    ASSUME NEW text, NEW i \in Nat \ {0}, NEW j \in 1..i, Starts(text, j, i)
    PROVE  /\ Offset(text, i) \in Nat
           /\ Offset(text, i + 1) = IF text[i] = Newline THEN 0 ELSE Offset(text, i) + 1
<1>1. CASE text[i] = Newline
  BY <1>1, StartsNext, OffsetIs
<1>2. CASE text[i] # Newline
  <2>1. Starts(text, j, i + 1) /\ j \in 1..(i + 1)
    BY <1>2, StartsNext
  <2> QED BY <1>2, <2>1, OffsetIs
<1> QED BY <1>1, <1>2

LEMMA OneQuotient ==
    ASSUME NEW w \in Nat \ {0}, NEW p \in Int, NEW q \in Int,
           NEW r \in 0..(w - 1), NEW s \in 0..(w - 1), w * p + r = w * q + s
    PROVE  p = q /\ r = s
<1>1. ASSUME NEW a \in Int, NEW b \in Int, a < b PROVE w * a + w <= w * b
  <2>1. b = a + 1 + (b - (a + 1)) /\ b - (a + 1) \in Nat
    BY <1>1
  <2>2. \A d \in Nat : w * (a + 1 + d) = w * a + w + w * d /\ w * d >= 0
    OBVIOUS
  <2> QED BY <2>1, <2>2
<1>2. ~(p < q) /\ ~(q < p)
  BY <1>1
<1> QED BY <1>2

LEMMA DivideNext ==
    ASSUME NEW o \in Nat, NEW w \in Nat \ {0}
    PROVE  /\ o \div w \in Nat /\ o % w \in 0..(w - 1)
           /\ (o + 1) \div w = IF (o % w) + 1 = w THEN o \div w + 1 ELSE o \div w
           /\ (o + 1) % w = IF (o % w) + 1 = w THEN 0 ELSE (o % w) + 1
<1> PICK q, r : q = o \div w /\ r = o % w
  OBVIOUS
<1> PICK p, s : p = (o + 1) \div w /\ s = (o + 1) % w
  OBVIOUS
<1>1. q \in Nat /\ r \in 0..(w - 1) /\ w * q + r = o
  OBVIOUS
<1>2. p \in Nat /\ s \in 0..(w - 1) /\ w * p + s = o + 1
  OBVIOUS
<1>3. w * (q + 1) = w * q + w
  BY <1>1
<1>4. CASE r + 1 = w
  <2>1. w * p + s = w * (q + 1) + 0 /\ q + 1 \in Int /\ 0 \in 0..(w - 1)
    BY <1>1, <1>2, <1>3, <1>4
  <2>2. p = q + 1 /\ s = 0
    BY <1>1, <1>2, <1>4, <2>1, OneQuotient
  <2> QED BY <1>4, <2>2, <1>1
<1>5. CASE r + 1 # w
  <2>1. w * p + s = w * q + (r + 1) /\ r + 1 \in 0..(w - 1)
    BY <1>1, <1>2, <1>5
  <2>2. p = q /\ s = r + 1
    BY <1>1, <1>2, <2>1, OneQuotient
  <2> QED BY <1>5, <2>2, <1>1
<1> QED BY <1>4, <1>5

-----------------------------------------------------------------------------
\* A text whose lines and rows are what their definitions say.
Laid(text) ==
    /\ \A i \in 1..(Len(text) + 1) : \E j \in 1..i : Starts(text, j, i)
    /\ IsRows(text, RowsAbove(text))
    /\ \A f : IsRows(text, f) => f = RowsAbove(text)
    /\ \A i \in 1..(Len(text) + 1) : RowsAbove(text)[i] \in Nat

\* Place k is before place i.
Precedes(text, k, i) ==
    \/ PageRow(text, k) < PageRow(text, i)
    \/ PageRow(text, k) = PageRow(text, i) /\ PageColumn(text, k) < PageColumn(text, i)

Ordered(text) ==
    \A i \in 1..(Len(text) + 1) : \A k \in 1..(i - 1) : Precedes(text, k, i)

LEMMA PlaceType ==
    ASSUME NEW text \in Text, Laid(text), NEW i \in 1..(Len(text) + 1)
    PROVE  /\ Offset(text, i) \in Nat
           /\ RowsAbove(text)[i] \in Nat
           /\ PageRow(text, i) \in Nat
           /\ PageColumn(text, i) \in Columns
<1>1. Offset(text, i) \in Nat
  BY OffsetIs DEF Laid
<1>2. RowsAbove(text)[i] \in Nat
  BY DEF Laid
<1>3. /\ Offset(text, i) \div VGA_WIDTH \in Nat
      /\ Offset(text, i) % VGA_WIDTH \in Columns
  BY <1>1, DivideNext, VgaAssumption DEF Columns
<1> QED BY <1>1, <1>2, <1>3 DEF PageRow, PageColumn

LEMMA PlaceNext ==
    ASSUME NEW text \in Text, Laid(text), NEW i \in 1..Len(text)
    PROVE  /\ PageRow(text, i + 1) =
                  IF text[i] = Newline \/ PageColumn(text, i) + 1 = VGA_WIDTH
                  THEN PageRow(text, i) + 1 ELSE PageRow(text, i)
           /\ PageColumn(text, i + 1) =
                  IF text[i] = Newline \/ PageColumn(text, i) + 1 = VGA_WIDTH
                  THEN 0 ELSE PageColumn(text, i) + 1
<1>1. PICK o \in Nat : o = Offset(text, i)
  BY PlaceType
<1>2. Offset(text, i + 1) = IF text[i] = Newline THEN 0 ELSE o + 1
  BY <1>1, OffsetNext DEF Laid
<1>3. PICK f : f = RowsAbove(text) /\ IsRows(text, f)
  BY DEF Laid
<1>4. f[i + 1] = f[i] + (IF text[i] = Newline THEN o \div VGA_WIDTH + 1 ELSE 0)
  <2>1. i + 1 \in 1..(Len(text) + 1) /\ i + 1 # 1 /\ (i + 1) - 1 = i
    OBVIOUS
  <2> QED BY <1>1, <1>3, <2>1 DEF IsRows
<1>5. f[i] \in Nat
  BY <1>3 DEF Laid
<1>6. PICK q, r, p, s : /\ q = o \div VGA_WIDTH /\ r = o % VGA_WIDTH
                        /\ p = (o + 1) \div VGA_WIDTH /\ s = (o + 1) % VGA_WIDTH
  OBVIOUS
<1>7. /\ q \in Nat /\ r \in 0..(VGA_WIDTH - 1)
      /\ p = IF r + 1 = VGA_WIDTH THEN q + 1 ELSE q
      /\ s = IF r + 1 = VGA_WIDTH THEN 0 ELSE r + 1
  BY <1>6, DivideNext, VgaAssumption
<1>8. 0 \div VGA_WIDTH = 0 /\ 0 % VGA_WIDTH = 0
  BY VgaAssumption
<1>9. /\ PageRow(text, i) = f[i] + q /\ PageColumn(text, i) = r
      /\ PageRow(text, i + 1) = f[i + 1] + Offset(text, i + 1) \div VGA_WIDTH
      /\ PageColumn(text, i + 1) = Offset(text, i + 1) % VGA_WIDTH
  BY <1>1, <1>3, <1>6 DEF PageRow, PageColumn
<1>10. CASE text[i] = Newline
  <2>1. f[i + 1] = f[i] + (q + 1) /\ Offset(text, i + 1) = 0
    BY <1>2, <1>4, <1>6, <1>10
  <2>2. PageRow(text, i + 1) = f[i] + (q + 1) + 0 /\ PageColumn(text, i + 1) = 0
    BY <1>8, <1>9, <2>1
  <2>3. \A a \in Nat : a + (q + 1) + 0 = (a + q) + 1
    BY <1>7
  <2>4. PageRow(text, i + 1) = PageRow(text, i) + 1
    BY <1>5, <1>9, <2>2, <2>3
  <2> QED BY <1>10, <2>2, <2>4
<1>11. CASE text[i] # Newline
  <2>1. f[i + 1] = f[i] + 0 /\ Offset(text, i + 1) = o + 1
    BY <1>2, <1>4, <1>11
  <2>2. PageRow(text, i + 1) = (f[i] + 0) + p /\ PageColumn(text, i + 1) = s
    BY <1>6, <1>9, <2>1
  <2>3. PageRow(text, i + 1) = IF r + 1 = VGA_WIDTH
                               THEN PageRow(text, i) + 1 ELSE PageRow(text, i)
    <3>1. \A a \in Nat : (a + 0) + (q + 1) = (a + q) + 1 /\ (a + 0) + q = a + q
      BY <1>7
    <3>2. (f[i] + 0) + (q + 1) = PageRow(text, i) + 1 /\ (f[i] + 0) + q = PageRow(text, i)
      BY <1>5, <1>9, <3>1
    <3> QED BY <1>7, <2>2, <3>2
  <2> QED BY <1>7, <1>9, <1>11, <2>2, <2>3
<1> QED BY <1>10, <1>11

Added(text, i) ==
    IF text[i] = Newline THEN Offset(text, i) \div VGA_WIDTH + 1 ELSE 0

LEMMA RowsEach ==
    ASSUME NEW text \in Text, NEW f
    PROVE  IsRows(text, f) <=> /\ f = [i \in 1..(Len(text) + 1) |-> f[i]]
                               /\ f[1] = 0
                               /\ \A i \in 1..Len(text) : f[i + 1] = f[i] + Added(text, i)
<1>1. Len(text) \in Nat
  BY DEF Text
<1>2. ASSUME IsRows(text, f)
      PROVE  /\ f = [i \in 1..(Len(text) + 1) |-> f[i]]
             /\ f[1] = 0
             /\ \A i \in 1..Len(text) : f[i + 1] = f[i] + Added(text, i)
  <2>1. \A i \in 1..(Len(text) + 1) : f[i] = IF i = 1 THEN 0 ELSE f[i - 1] + Added(text, i - 1)
    BY <1>2 DEF IsRows, Added
  <2>2. f = [i \in 1..(Len(text) + 1) |-> f[i]]
    BY <1>2 DEF IsRows
  <2>3. f[1] = 0
    <3>1. 1 \in 1..(Len(text) + 1)
      BY <1>1
    <3> QED BY <2>1, <3>1
  <2>4. ASSUME NEW i \in 1..Len(text) PROVE f[i + 1] = f[i] + Added(text, i)
    <3>1. i + 1 \in 1..(Len(text) + 1) /\ i + 1 # 1 /\ (i + 1) - 1 = i
      BY <1>1
    <3> QED BY <2>1, <3>1
  <2> QED BY <2>2, <2>3, <2>4
<1>3. ASSUME f = [i \in 1..(Len(text) + 1) |-> f[i]], f[1] = 0,
             \A i \in 1..Len(text) : f[i + 1] = f[i] + Added(text, i)
      PROVE  IsRows(text, f)
  <2>1. ASSUME NEW i \in 1..(Len(text) + 1)
        PROVE  f[i] = IF i = 1 THEN 0 ELSE f[i - 1] + Added(text, i - 1)
    <3>1. i # 1 => i - 1 \in 1..Len(text) /\ (i - 1) + 1 = i
      BY <1>1
    <3> QED BY <1>3, <3>1
  <2> QED BY <1>3, <2>1 DEF IsRows, Added
<1> QED BY <1>2, <1>3

\* The rows of a text that is one character longer, and of one that is shorter
Extended(u, f) ==
    [i \in 1..(Len(u) + 1) |-> IF i = Len(u) + 1 THEN f[Len(u)] + Added(u, Len(u)) ELSE f[i]]
Shortened(t, f) == [i \in 1..(Len(t) + 1) |-> f[i]]

Grows(t, u) ==
    /\ t \in Text /\ u \in Text
    /\ Len(u) = Len(t) + 1
    /\ \A i \in 1..Len(t) : u[i] = t[i]

LEMMA GrowsKeeps ==
    ASSUME NEW t, NEW u, Grows(t, u), NEW i \in 1..Len(u)
    PROVE  /\ Offset(u, i) = Offset(t, i)
           /\ \A j \in 1..i : Starts(u, j, i) <=> Starts(t, j, i)
           /\ i \in 1..Len(t) => Added(u, i) = Added(t, i)
<1>1. Len(t) \in Nat /\ Len(u) = Len(t) + 1 /\ i \in Nat
  BY DEF Grows, Text
<1>2. \A k \in 1..(i - 1) : k \in 1..Len(t)
  BY <1>1
<1>3. \A k \in 1..(i - 1) : u[k] = t[k]
  BY <1>2 DEF Grows
<1>4. Offset(u, i) = Offset(t, i)
  BY <1>1, <1>3, OffsetSame
<1>5. \A j \in 1..i : Starts(u, j, i) <=> Starts(t, j, i)
  BY <1>1, <1>3, StartsSame
<1> QED BY <1>4, <1>5 DEF Grows, Added

LEMMA RowsGrow ==
    ASSUME NEW t, NEW u, Grows(t, u), NEW f, IsRows(t, f)
    PROVE  IsRows(u, Extended(u, f))
<1>1. Len(t) \in Nat /\ Len(u) = Len(t) + 1 /\ t \in Text /\ u \in Text
  BY DEF Grows, Text
<1>2. f[1] = 0 /\ \A i \in 1..Len(t) : f[i + 1] = f[i] + Added(t, i)
  BY <1>1, RowsEach
<1> DEFINE g == Extended(u, f)
<1>3. /\ g = [i \in 1..(Len(u) + 1) |-> g[i]]
      /\ \A i \in 1..Len(u) : g[i] = f[i]
      /\ g[Len(u) + 1] = f[Len(u)] + Added(u, Len(u))
  BY <1>1 DEF Extended
<1> HIDE DEF g
<1>4. ASSUME NEW i \in 1..Len(u) PROVE g[i + 1] = g[i] + Added(u, i)
  <2>1. CASE i = Len(u)
    BY <1>3, <2>1
  <2>2. CASE i # Len(u)
    <3>1. i \in 1..Len(t) /\ i + 1 \in 1..Len(u)
      BY <1>1, <2>2
    <3>2. g[i + 1] = f[i + 1] /\ g[i] = f[i]
      BY <1>3, <3>1
    <3>3. f[i + 1] = f[i] + Added(t, i)
      BY <1>2, <3>1
    <3>4. Added(u, i) = Added(t, i)
      BY <3>1, GrowsKeeps
    <3> QED BY <3>2, <3>3, <3>4
  <2> QED BY <2>1, <2>2
<1>5. g[1] = 0
  <2>1. 1 \in 1..Len(u)
    BY <1>1
  <2> QED BY <1>2, <1>3, <2>1
<1>6. IsRows(u, g)
  BY <1>1, <1>3, <1>4, <1>5, RowsEach
<1> QED BY <1>6 DEF g

LEMMA RowsShrink ==
    ASSUME NEW t, NEW u, Grows(t, u), NEW f, IsRows(u, f)
    PROVE  /\ IsRows(t, Shortened(t, f))
           /\ f = Extended(u, Shortened(t, f))
<1>1. Len(t) \in Nat /\ Len(u) = Len(t) + 1 /\ t \in Text /\ u \in Text
  BY DEF Grows, Text
<1>2. /\ f = [i \in 1..(Len(u) + 1) |-> f[i]]
      /\ f[1] = 0 /\ \A i \in 1..Len(u) : f[i + 1] = f[i] + Added(u, i)
  BY <1>1, RowsEach
<1> DEFINE g == Shortened(t, f)
<1>3. g = [i \in 1..(Len(t) + 1) |-> g[i]] /\ \A i \in 1..Len(u) : g[i] = f[i]
  BY <1>1 DEF Shortened
<1> HIDE DEF g
<1>4. ASSUME NEW i \in 1..Len(t) PROVE g[i + 1] = g[i] + Added(t, i)
  <2>1. i \in 1..Len(u) /\ i + 1 \in 1..Len(u)
    BY <1>1
  <2>2. g[i + 1] = f[i + 1] /\ g[i] = f[i]
    BY <1>3, <2>1
  <2>3. f[i + 1] = f[i] + Added(u, i)
    BY <1>2, <2>1
  <2>4. Added(u, i) = Added(t, i)
    BY <2>1, GrowsKeeps
  <2> QED BY <2>2, <2>3, <2>4
<1>5. g[1] = 0
  <2>1. 1 \in 1..Len(u)
    BY <1>1
  <2> QED BY <1>2, <1>3, <2>1
<1>6. IsRows(t, g)
  BY <1>1, <1>3, <1>4, <1>5, RowsEach
<1>7. ASSUME NEW i \in 1..(Len(u) + 1)
      PROVE  f[i] = IF i = Len(u) + 1 THEN g[Len(u)] + Added(u, Len(u)) ELSE g[i]
  <2>1. CASE i = Len(u) + 1
    <3>1. Len(u) \in 1..Len(u)
      BY <1>1
    <3> QED BY <1>2, <1>3, <2>1, <3>1
  <2>2. CASE i # Len(u) + 1
    <3>1. i \in 1..Len(u)
      BY <1>1, <2>2
    <3> QED BY <1>3, <2>2, <3>1
  <2> QED BY <2>1, <2>2
<1>8. f = Extended(u, g)
  BY <1>2, <1>7 DEF Extended
<1> QED BY <1>6, <1>8 DEF g

LEMMA LaidGrows ==
    ASSUME NEW t, NEW u, Grows(t, u), Laid(t)
    PROVE  Laid(u) /\ RowsAbove(u) = Extended(u, RowsAbove(t))
<1>1. Len(t) \in Nat /\ Len(u) = Len(t) + 1 /\ t \in Text /\ u \in Text
  BY DEF Grows, Text
<1> PICK f : f = RowsAbove(t)
  OBVIOUS
<1>2. IsRows(t, f) /\ (\A g : IsRows(t, g) => g = f)
      /\ \A i \in 1..(Len(t) + 1) : f[i] \in Nat
  BY DEF Laid
<1> PICK h : h = Extended(u, f)
  OBVIOUS
<1>3. IsRows(u, h)
  BY <1>2, RowsGrow
<1>4. ASSUME NEW g, IsRows(u, g) PROVE g = h
  BY <1>2, <1>4, RowsShrink
<1>5. RowsAbove(u) = h
  BY <1>3, <1>4, RowsAboveIs
<1>6. \A i \in 1..(Len(u) + 1) : \E j \in 1..i : Starts(u, j, i)
  <2>1. ASSUME NEW i \in 1..Len(u) PROVE \E j \in 1..i : Starts(u, j, i)
    <3>1. PICK j \in 1..i : Starts(t, j, i)
      BY <1>1 DEF Laid
    <3> QED BY <3>1, GrowsKeeps
  <2>2. \E j \in 1..(Len(u) + 1) : Starts(u, j, Len(u) + 1)
    <3>1. Len(u) \in Nat \ {0} /\ Len(u) \in 1..Len(u)
      BY <1>1
    <3>2. PICK j \in 1..Len(u) : Starts(u, j, Len(u))
      BY <2>1, <3>1
    <3>3. IF u[Len(u)] = Newline THEN Starts(u, Len(u) + 1, Len(u) + 1)
                                 ELSE Starts(u, j, Len(u) + 1)
      BY <3>1, <3>2, StartsNext
    <3>4. j \in 1..(Len(u) + 1) /\ Len(u) + 1 \in 1..(Len(u) + 1)
      BY <1>1, <3>2
    <3> QED BY <3>3, <3>4
  <2>3. \A i \in 1..(Len(u) + 1) : i \in 1..Len(u) \/ i = Len(u) + 1
    BY <1>1
  <2> QED BY <2>1, <2>2, <2>3
<1>7. ASSUME NEW i \in 1..(Len(u) + 1) PROVE h[i] \in Nat
  <2>1. CASE i # Len(u) + 1
    BY <1>1, <1>2, <2>1 DEF Extended
  <2>2. CASE i = Len(u) + 1
    <3>1. Len(u) \in Nat \ {0} /\ Len(u) \in 1..Len(u)
      BY <1>1
    <3>2. PICK j \in 1..Len(u) : Starts(u, j, Len(u))
      BY <1>1, <1>6, <3>1
    <3>3. Offset(u, Len(u)) \in Nat
      BY <3>1, <3>2, OffsetIs
    <3>4. Added(u, Len(u)) \in Nat
      <4>1. Offset(u, Len(u)) \div VGA_WIDTH \in Nat
        BY <3>3, DivideNext, VgaAssumption
      <4> QED BY <4>1 DEF Added
    <3>5. h[i] = f[Len(u)] + Added(u, Len(u))
      BY <2>2, <1>1 DEF Extended
    <3> QED BY <1>1, <1>2, <3>1, <3>4, <3>5
  <2> QED BY <2>1, <2>2
<1> QED BY <1>3, <1>4, <1>5, <1>6, <1>7 DEF Laid

LEMMA LaidShrinks ==
    ASSUME NEW t, NEW u, Grows(t, u), Laid(u)
    PROVE  Laid(t)
<1>1. Len(t) \in Nat /\ Len(u) = Len(t) + 1 /\ t \in Text /\ u \in Text
  BY DEF Grows, Text
<1> PICK f : f = RowsAbove(u)
  OBVIOUS
<1>2. IsRows(u, f) /\ (\A g : IsRows(u, g) => g = f)
      /\ \A i \in 1..(Len(u) + 1) : f[i] \in Nat
  BY DEF Laid
<1> PICK h : h = Shortened(t, f)
  OBVIOUS
<1>3. IsRows(t, h) /\ f = Extended(u, h)
  BY <1>2, RowsShrink
<1>4. ASSUME NEW g, IsRows(t, g) PROVE g = h
  <2>1. Extended(u, g) = f
    BY <1>2, <1>4, RowsGrow
  <2>2. \A i \in 1..Len(u) : g[i] = f[i]
    <3>1. \A i \in 1..Len(u) : Extended(u, g)[i] = g[i]
      BY <1>1 DEF Extended
    <3> QED BY <2>1, <3>1
  <2>3. g = [i \in 1..(Len(t) + 1) |-> g[i]]
    BY <1>1, <1>4, RowsEach
  <2> QED BY <1>1, <2>2, <2>3 DEF Shortened
<1>5. RowsAbove(t) = h
  BY <1>3, <1>4, RowsAboveIs
<1>6. \A i \in 1..(Len(t) + 1) : \E j \in 1..i : Starts(t, j, i)
  <2>1. ASSUME NEW i \in 1..(Len(t) + 1) PROVE \E j \in 1..i : Starts(t, j, i)
    <3>1. i \in 1..Len(u) /\ i \in 1..(Len(u) + 1)
      BY <1>1
    <3>2. PICK j \in 1..i : Starts(u, j, i)
      BY <3>1 DEF Laid
    <3> QED BY <3>1, <3>2, GrowsKeeps
  <2> QED BY <2>1
<1>7. \A i \in 1..(Len(t) + 1) : h[i] \in Nat
  BY <1>1, <1>2 DEF Shortened
<1> QED BY <1>3, <1>4, <1>5, <1>6, <1>7 DEF Laid

\* The places of the characters do not change.
LEMMA PlaceKeeps ==
    ASSUME NEW t, NEW u, Grows(t, u), Laid(t), NEW i \in 1..Len(u)
    PROVE  PageRow(u, i) = PageRow(t, i) /\ PageColumn(u, i) = PageColumn(t, i)
<1>1. RowsAbove(u)[i] = RowsAbove(t)[i]
  <2>1. RowsAbove(u) = Extended(u, RowsAbove(t)) /\ Len(u) \in Nat
    BY LaidGrows DEF Grows, Text
  <2> QED BY <2>1 DEF Extended
<1> QED BY <1>1, GrowsKeeps DEF PageRow, PageColumn

LEMMA OrderGrows ==
    ASSUME NEW t, NEW u, Grows(t, u), Laid(t), Ordered(t)
    PROVE  Ordered(u)
<1>1. Len(t) \in Nat /\ Len(u) = Len(t) + 1 /\ t \in Text /\ u \in Text
  BY DEF Grows, Text
<1>2. ASSUME NEW i \in 1..Len(u), NEW k \in 1..(i - 1) PROVE Precedes(u, k, i)
  <2>1. i \in 1..(Len(t) + 1) /\ k \in 1..Len(u)
    BY <1>1
  <2>2. Precedes(t, k, i)
    BY <2>1 DEF Ordered
  <2> QED BY <2>1, <2>2, PlaceKeeps DEF Precedes
<1> PICK n : n = Len(u)
  OBVIOUS
<1>3. n \in 1..Len(u) /\ n + 1 \in 1..(Len(u) + 1)
  BY <1>1
<1>4. Laid(u)
  BY LaidGrows
<1>5. /\ PageRow(u, n) \in Nat /\ PageColumn(u, n) \in Nat
      /\ \/ PageRow(u, n + 1) = PageRow(u, n) + 1
         \/ PageRow(u, n + 1) = PageRow(u, n) /\ PageColumn(u, n + 1) = PageColumn(u, n) + 1
  <2>1. PageRow(u, n) \in Nat /\ PageColumn(u, n) \in Columns
    BY <1>1, <1>3, <1>4, PlaceType
  <2>2. n \in 1..Len(u)
    BY <1>3
  <2> QED BY <1>1, <1>4, <2>1, <2>2, PlaceNext DEF Columns
<1>6. Precedes(u, n, n + 1)
  BY <1>5 DEF Precedes
<1>7. ASSUME NEW k \in 1..(n - 1) PROVE Precedes(u, k, n + 1)
  <2>1. Precedes(u, k, n) /\ k \in 1..(Len(u) + 1)
    BY <1>1, <1>2, <1>3, <1>7
  <2>2. PageRow(u, k) \in Nat /\ PageColumn(u, k) \in Nat
    BY <1>1, <1>4, <2>1, PlaceType DEF Columns
  <2> QED BY <1>5, <2>1, <2>2 DEF Precedes
<1>8. \A i \in 1..(Len(u) + 1) : \A k \in 1..(i - 1) :
          i \in 1..Len(u) \/ (i = n + 1 /\ (k = n \/ k \in 1..(n - 1)))
  BY <1>1
<1> QED BY <1>2, <1>6, <1>7, <1>8 DEF Ordered

LEMMA OrderShrinks ==
    ASSUME NEW t, NEW u, Grows(t, u), Laid(t), Ordered(u)
    PROVE  Ordered(t)
<1>1. Len(t) \in Nat /\ Len(u) = Len(t) + 1 /\ t \in Text /\ u \in Text
  BY DEF Grows, Text
<1>2. ASSUME NEW i \in 1..(Len(t) + 1), NEW k \in 1..(i - 1) PROVE Precedes(t, k, i)
  <2>1. i \in 1..Len(u) /\ k \in 1..Len(u) /\ i \in 1..(Len(u) + 1)
    BY <1>1
  <2>2. Precedes(u, k, i)
    BY <2>1 DEF Ordered
  <2> QED BY <2>1, <2>2, PlaceKeeps DEF Precedes
<1> QED BY <1>2 DEF Ordered

LEMMA LaidEmpty == <<>> \in Text /\ Laid(<<>>) /\ Ordered(<<>>)
                   /\ PageRow(<<>>, 1) = 0 /\ PageColumn(<<>>, 1) = 0
<1>1. <<>> \in Text /\ Len(<<>>) = 0
  BY DEF Text
<1>2. Starts(<<>>, 1, 1)
  BY DEF Starts
<1>3. Offset(<<>>, 1) = 0
  BY <1>2, OffsetIs
<1> PICK f : f = [i \in 1..1 |-> 0]
  OBVIOUS
<1>4. f = [i \in 1..1 |-> f[i]] /\ f[1] = 0
  OBVIOUS
<1>5. ASSUME NEW g PROVE IsRows(<<>>, g) <=> g = [i \in 1..1 |-> g[i]] /\ g[1] = 0
  <2>1. PICK e \in Text : e = <<>> /\ Len(e) = 0
    BY <1>1
  <2>2. Len(e) + 1 = 1 /\ \A i \in 1..Len(e) : FALSE
    BY <2>1
  <2>3. IsRows(e, g) <=> /\ g = [i \in 1..(Len(e) + 1) |-> g[i]]
                         /\ g[1] = 0 /\ \A i \in 1..Len(e) : g[i + 1] = g[i] + Added(e, i)
    BY RowsEach
  <2>4. IsRows(e, g) <=> g = [i \in 1..1 |-> g[i]] /\ g[1] = 0
    <3>1. \A i \in 1..Len(e) : g[i + 1] = g[i] + Added(e, i)
      BY <2>2
    <3> QED BY <2>2, <2>3, <3>1
  <2> QED BY <2>1, <2>4
<1>6. IsRows(<<>>, f) /\ \A g : IsRows(<<>>, g) => g = f
  BY <1>4, <1>5
<1>7. RowsAbove(<<>>) = f
  BY <1>6, RowsAboveIs
<1>8. Laid(<<>>)
  BY <1>1, <1>2, <1>4, <1>6, <1>7 DEF Laid
<1>9. Ordered(<<>>)
  BY <1>1 DEF Ordered
<1>10. 0 \div VGA_WIDTH = 0 /\ 0 % VGA_WIDTH = 0
  BY VgaAssumption
<1> QED BY <1>1, <1>3, <1>4, <1>7, <1>8, <1>9, <1>10 DEF PageRow, PageColumn

-----------------------------------------------------------------------------
(* The screen.                                                             *)

LEMMA NothingAt ==
    ASSUME NEW text, NEW row, NEW col, DrawnAt(text, row, col) = {}
    PROVE  PageAt(text, row, col) = Blank
BY DEF PageAt

LEMMA OnlyAt ==
    ASSUME NEW text, NEW row, NEW col, NEW n, DrawnAt(text, row, col) = {n}
    PROVE  PageAt(text, row, col) = text[n]
<1>1. (CHOOSE i \in {n} : TRUE) = n
  OBVIOUS
<1> QED BY <1>1 DEF PageAt

LEMMA SameAt ==
    ASSUME NEW t, NEW u, NEW row, NEW col, Grows(t, u),
           DrawnAt(t, row, col) = DrawnAt(u, row, col)
    PROVE  PageAt(t, row, col) = PageAt(u, row, col)
<1> PICK a : a = DrawnAt(t, row, col) /\ a = DrawnAt(u, row, col)
  OBVIOUS
<1>1. ASSUME a # {} PROVE t[CHOOSE i \in a : TRUE] = u[CHOOSE i \in a : TRUE]
  <2>1. PICK k : k = (CHOOSE i \in a : TRUE)
    OBVIOUS
  <2>2. k \in a
    BY <1>1, <2>1
  <2>3. k \in 1..Len(t)
    BY <2>2 DEF DrawnAt
  <2> QED BY <2>1, <2>3 DEF Grows
<1> QED BY <1>1 DEF PageAt

\* Character n is the last of u, and the others are where they were.
LEMMA AtGrows ==
    ASSUME NEW t, NEW u, Grows(t, u), Laid(t), NEW i, i # Len(u), NEW row, NEW col
    PROVE  i \in DrawnAt(t, row, col) <=> i \in DrawnAt(u, row, col)
<1>1. Len(t) \in Nat /\ Len(u) = Len(t) + 1
  BY DEF Grows, Text
<1>2. i \in 1..Len(t) <=> i \in 1..Len(u)
  BY <1>1
<1>3. i \in 1..Len(t) => u[i] = t[i] /\ PageRow(u, i) = PageRow(t, i)
                                     /\ PageColumn(u, i) = PageColumn(t, i)
  BY <1>2, PlaceKeeps DEF Grows
<1> QED BY <1>2, <1>3 DEF DrawnAt

\* Every character is before the end of the text.
LEMMA NoneAfter ==
    ASSUME NEW text \in Text, Laid(text), Ordered(text), NEW row \in Nat, NEW col \in Nat,
           NEW i \in DrawnAt(text, row, col)
    PROVE  \/ row < CursorRow(text)
           \/ row = CursorRow(text) /\ col < CursorColumn(text)
<1>1. Len(text) \in Nat
  BY DEF Text
<1>2. i \in 1..((Len(text) + 1) - 1) /\ Len(text) + 1 \in 1..(Len(text) + 1)
      /\ PageRow(text, i) = row /\ PageColumn(text, i) = col
  BY <1>1 DEF DrawnAt
<1>3. Precedes(text, i, Len(text) + 1)
  BY <1>2 DEF Ordered
<1> QED BY <1>2, <1>3 DEF Precedes, CursorRow, CursorColumn

\* What the page has at the end of a text, and below it
LEMMA BlankBelow ==
    ASSUME NEW text \in Text, Laid(text), Ordered(text), NEW row \in Nat, NEW col \in Nat,
           \/ row > CursorRow(text)
           \/ row = CursorRow(text) /\ col >= CursorColumn(text)
    PROVE  PageAt(text, row, col) = Blank
<1>1. Len(text) + 1 \in 1..(Len(text) + 1)
  BY DEF Text
<1>2. CursorRow(text) \in Nat /\ CursorColumn(text) \in Nat
  BY <1>1, PlaceType DEF CursorRow, CursorColumn, Columns
<1>3. \A i : i \notin DrawnAt(text, row, col)
  BY <1>2, NoneAfter
<1> QED BY <1>3, NothingAt

LEMMA CursorType ==
    ASSUME NEW text \in Text, Laid(text)
    PROVE  CursorRow(text) \in Nat /\ CursorColumn(text) \in Columns
<1>1. Len(text) + 1 \in 1..(Len(text) + 1)
  BY DEF Text
<1> QED BY <1>1, PlaceType DEF CursorRow, CursorColumn

\* A text that is one character longer: where its end is
LEMMA CursorGrows ==
    ASSUME NEW t, NEW u, Grows(t, u), Laid(t), NEW c, c = u[Len(u)]
    PROVE  /\ CursorRow(u) = IF c = Newline \/ CursorColumn(t) + 1 = VGA_WIDTH
                             THEN CursorRow(t) + 1 ELSE CursorRow(t)
           /\ CursorColumn(u) = IF c = Newline \/ CursorColumn(t) + 1 = VGA_WIDTH
                                THEN 0 ELSE CursorColumn(t) + 1
<1>1. Len(t) \in Nat /\ Len(u) = Len(t) + 1 /\ t \in Text /\ u \in Text
  BY DEF Grows, Text
<1>2. Len(u) \in 1..Len(u)
  BY <1>1
<1>3. PageRow(u, Len(u)) = CursorRow(t) /\ PageColumn(u, Len(u)) = CursorColumn(t)
  BY <1>1, <1>2, PlaceKeeps DEF CursorRow, CursorColumn
<1> QED BY <1>1, <1>2, <1>3, LaidGrows, PlaceNext DEF CursorRow, CursorColumn

\* The page of a text that is one glyph longer
LEMMA GlyphAt ==
    ASSUME NEW t, NEW u, Grows(t, u), Laid(t), Ordered(t), u[Len(u)] # Newline,
           NEW row \in Nat, NEW col \in Nat
    PROVE  PageAt(u, row, col) = IF row = CursorRow(t) /\ col = CursorColumn(t)
                                 THEN u[Len(u)] ELSE PageAt(t, row, col)
<1>1. Len(t) \in Nat /\ Len(u) = Len(t) + 1 /\ t \in Text /\ u \in Text
  BY DEF Grows, Text
<1>2. Len(u) \in 1..Len(u)
  BY <1>1
<1> PICK n : n = Len(u)
  OBVIOUS
<1>3. PageRow(u, n) = CursorRow(t) /\ PageColumn(u, n) = CursorColumn(t)
  BY <1>1, <1>2, PlaceKeeps DEF CursorRow, CursorColumn
<1>4. n \in DrawnAt(u, row, col) <=> row = CursorRow(t) /\ col = CursorColumn(t)
  BY <1>2, <1>3 DEF DrawnAt
<1>5. \A i : i # n => (i \in DrawnAt(t, row, col) <=> i \in DrawnAt(u, row, col))
  BY AtGrows
<1>6. n \notin DrawnAt(t, row, col)
  BY <1>1 DEF DrawnAt
<1>7. CASE row = CursorRow(t) /\ col = CursorColumn(t)
  <2>1. CursorRow(t) \in Nat /\ CursorColumn(t) \in Nat
    BY <1>7
  <2>2. \A i : i \notin DrawnAt(t, row, col)
    BY <1>1, <1>7, <2>1, NoneAfter
  <2>3. DrawnAt(u, row, col) = {n}
    BY <1>4, <1>5, <1>7, <2>2
  <2> QED BY <1>7, <2>3, OnlyAt
<1>8. CASE ~(row = CursorRow(t) /\ col = CursorColumn(t))
  <2>1. DrawnAt(t, row, col) = DrawnAt(u, row, col)
    BY <1>4, <1>5, <1>6, <1>8
  <2> QED BY <1>8, <2>1, SameAt
<1> QED BY <1>7, <1>8

LEMMA NewlineAt ==
    ASSUME NEW t, NEW u, Grows(t, u), Laid(t), u[Len(u)] = Newline, NEW row, NEW col
    PROVE  PageAt(u, row, col) = PageAt(t, row, col)
<1>1. Len(t) \in Nat /\ Len(u) = Len(t) + 1 /\ t \in Text /\ u \in Text
  BY DEF Grows, Text
<1>2. Len(u) \notin DrawnAt(t, row, col) /\ Len(u) \notin DrawnAt(u, row, col)
  BY <1>1 DEF DrawnAt
<1>3. \A i : i \in DrawnAt(t, row, col) <=> i \in DrawnAt(u, row, col)
  BY <1>2, AtGrows
<1>4. DrawnAt(t, row, col) = DrawnAt(u, row, col)
  BY <1>3
<1> QED BY <1>4, SameAt

-----------------------------------------------------------------------------
(* The screen.                                                             *)

Shown(text, row, col, buffer) ==
    /\ row = CursorRow(text) - Top(text)
    /\ col = CursorColumn(text)
    /\ \A y \in Rows, x \in Columns : buffer[y][x] = PageAt(text, Top(text) + y, x)

TextInv ==
    /\ Laid(shown) /\ Ordered(shown)
    /\ crossed \/ Shown(shown, term_row, term_col, term_buffer)

LEMMA TopType ==
    ASSUME NEW text \in Text, Laid(text)
    PROVE  Top(text) \in Nat
BY CursorType, VgaAssumption DEF Top

\* The row that comes in is below the text.
LEMMA NextRowShows ==
    ASSUME NEW t \in Text, Laid(t), NEW u \in Text, Laid(u), Ordered(u),
           term_row = CursorRow(t) - Top(t), term_row \in Rows,
           CursorRow(u) = CursorRow(t) + 1, CursorColumn(u) = 0,
           NEW buffer, NextRow(buffer),
           \A y \in Rows, x \in Columns : buffer[y][x] = PageAt(u, Top(t) + y, x)
    PROVE  /\ term_row' = CursorRow(u) - Top(u)
           /\ \A y \in Rows, x \in Columns : term_buffer'[y][x] = PageAt(u, Top(u) + y, x)
<1> PICK r : r = CursorRow(t)
  OBVIOUS
<1>1. r \in Nat /\ Top(t) = (IF r < VGA_HEIGHT THEN 0 ELSE r - (VGA_HEIGHT - 1))
      /\ CursorRow(u) = r + 1 /\ VGA_HEIGHT \in Nat \ {0}
      /\ Top(u) = (IF r + 1 < VGA_HEIGHT THEN 0 ELSE r + 1 - (VGA_HEIGHT - 1))
  BY CursorType, VgaAssumption DEF Top
<1>4. term_row = r - Top(t)
  OBVIOUS
<1>2. CASE term_row + 1 = VGA_HEIGHT
  <2>1. term_buffer' = Scrolled(buffer) /\ term_row' = VGA_HEIGHT - 1
    BY <1>2 DEF NextRow
  <2>2. Top(u) = Top(t) + 1 /\ Top(t) \in Nat /\ r = Top(t) + (VGA_HEIGHT - 1)
    <3> PICK a, b, h : a = Top(t) /\ b = Top(u) /\ h = VGA_HEIGHT
      OBVIOUS
    <3>1. /\ r \in Nat /\ h \in Nat \ {0} /\ r - a + 1 = h
          /\ a = (IF r < h THEN 0 ELSE r - (h - 1))
          /\ b = (IF r + 1 < h THEN 0 ELSE r + 1 - (h - 1))
      BY <1>1, <1>2, <1>4
    <3>2. b = a + 1 /\ a \in Nat /\ r = a + (h - 1)
      BY <3>1
    <3> QED BY <3>2
  <2>3. ASSUME NEW y \in Rows, NEW x \in Columns
        PROVE  term_buffer'[y][x] = PageAt(u, Top(u) + y, x)
    <3>1. CASE y + 1 < VGA_HEIGHT
      <4>1. y + 1 \in Rows /\ Top(u) + y = Top(t) + (y + 1)
        BY <2>2, <3>1, VgaAssumption DEF Rows
      <4>2. buffer[y + 1][x] = PageAt(u, Top(t) + (y + 1), x)
        BY <4>1
      <4> QED BY <2>1, <3>1, <4>1, <4>2, ScrolledIs
    <3>2. CASE y + 1 >= VGA_HEIGHT
      <4>0. y = VGA_HEIGHT - 1 /\ CursorRow(u) = r + 1
        BY <1>1, <3>2, VgaAssumption DEF Rows
      <4>1. Top(u) + y = CursorRow(u) /\ Top(u) + y \in Nat /\ x \in Nat /\ x >= 0
        BY <2>2, <4>0, VgaAssumption DEF Columns, Rows
      <4>2. PageAt(u, Top(u) + y, x) = Blank
        BY <4>1, BlankBelow
      <4> QED BY <2>1, <3>2, <4>2, ScrolledIs, BlankRowIs
    <3> QED BY <1>1, <3>1, <3>2 DEF Rows
  <2> QED BY <1>1, <2>1, <2>2, <2>3
<1>3. CASE term_row + 1 # VGA_HEIGHT
  <2>1. term_buffer' = buffer /\ term_row' = term_row + 1
    BY <1>3 DEF NextRow
  <2>2. Top(u) = Top(t)
    BY <1>1, <1>3 DEF Rows
  <2>3. \A y \in Rows, x \in Columns : term_buffer'[y][x] = PageAt(u, Top(u) + y, x)
    BY <2>1, <2>2
  <2>4. term_row' = CursorRow(u) - Top(u)
    BY <1>1, <2>1, <2>2
  <2> QED BY <2>3, <2>4
<1> QED BY <1>2, <1>3

LEMMA ShownGrows ==
    ASSUME NEW t, NEW u, NEW c, t \in Text, u \in Text, u = Append(t, c)
    PROVE  Grows(t, u) /\ u[Len(u)] = c
BY DEF Grows, Text

LEMMA PutNewlineShows ==
    ASSUME VgaTypeOK, NEW t, NEW u, Grows(t, u), u[Len(u)] = Newline,
           Laid(t), Ordered(t), Shown(t, term_row, term_col, term_buffer),
           PutNewline(Newline)
    PROVE  Shown(u, term_row', term_col', term_buffer')
<1>1. t \in Text /\ u \in Text /\ Laid(u) /\ Ordered(u)
  BY LaidGrows, OrderGrows DEF Grows
<1>2. CursorRow(u) = CursorRow(t) + 1 /\ CursorColumn(u) = 0
  BY CursorGrows
<1>3. NextRow(term_buffer) /\ term_col' = 0
  BY DEF PutNewline
<1>4. \A y \in Rows, x \in Columns : term_buffer[y][x] = PageAt(u, Top(t) + y, x)
  BY NewlineAt DEF Shown
<1>5. term_row = CursorRow(t) - Top(t) /\ term_row \in Rows
  BY DEF Shown, VgaTypeOK
<1>6. /\ term_row' = CursorRow(u) - Top(u)
      /\ \A y \in Rows, x \in Columns : term_buffer'[y][x] = PageAt(u, Top(u) + y, x)
  BY <1>1, <1>2, <1>3, <1>4, <1>5, NextRowShows
<1> QED BY <1>2, <1>3, <1>6 DEF Shown

LEMMA PutGlyphShows ==
    ASSUME VgaTypeOK, NEW c, c # Newline, NEW t, NEW u, Grows(t, u), u[Len(u)] = c,
           Laid(t), Ordered(t), Shown(t, term_row, term_col, term_buffer),
           PutGlyph(c)
    PROVE  Shown(u, term_row', term_col', term_buffer')
<1>1. t \in Text /\ u \in Text /\ Laid(u) /\ Ordered(u)
  BY LaidGrows, OrderGrows DEF Grows
<1>2. /\ term_row = CursorRow(t) - Top(t) /\ term_row \in Rows
      /\ term_col = CursorColumn(t) /\ term_col \in Columns
      /\ CursorRow(t) \in Nat /\ Top(t) \in Nat
  BY <1>1, CursorType, TopType DEF Shown, VgaTypeOK
<1>3. ASSUME NEW d, NextRow(d), CursorRow(u) = CursorRow(t) + 1, CursorColumn(u) = 0,
             \A y \in Rows, x \in Columns : d[y][x] = PageAt(u, Top(t) + y, x)
      PROVE  /\ term_row' = CursorRow(u) - Top(u)
             /\ \A y \in Rows, x \in Columns : term_buffer'[y][x] = PageAt(u, Top(u) + y, x)
  BY <1>1, <1>2, <1>3, NextRowShows
<1> PICK drawn : drawn = [term_buffer EXCEPT ![term_row][term_col] = c]
  OBVIOUS
<1>4. ASSUME NEW y \in Rows, NEW x \in Columns
      PROVE  drawn[y][x] = PageAt(u, Top(t) + y, x)
  <2>1. drawn[y][x] = IF y = term_row /\ x = term_col THEN c ELSE term_buffer[y][x]
    BY DEF VgaTypeOK, Screens
  <2>2. Top(t) + y \in Nat /\ x \in Nat /\ (Top(t) + y = CursorRow(t) <=> y = term_row)
    BY <1>2 DEF Rows, Columns
  <2>3. PageAt(u, Top(t) + y, x) = IF Top(t) + y = CursorRow(t) /\ x = CursorColumn(t)
                                   THEN c ELSE PageAt(t, Top(t) + y, x)
    BY <2>2, GlyphAt
  <2> QED BY <1>2, <2>1, <2>2, <2>3 DEF Shown
<1>5. CASE term_col + 1 = VGA_WIDTH
  <2>1. CursorRow(u) = CursorRow(t) + 1 /\ CursorColumn(u) = 0
    BY <1>2, <1>5, CursorGrows
  <2>2. NextRow(drawn) /\ term_col' = 0
    BY <1>5 DEF PutGlyph
  <2>3. \A y \in Rows, x \in Columns : drawn[y][x] = PageAt(u, Top(t) + y, x)
    BY <1>4
  <2>4. /\ term_row' = CursorRow(u) - Top(u)
        /\ \A y \in Rows, x \in Columns : term_buffer'[y][x] = PageAt(u, Top(u) + y, x)
    BY <2>1, <2>2, <2>3, <1>3
  <2> QED BY <2>1, <2>2, <2>4 DEF Shown
<1>6. CASE term_col + 1 # VGA_WIDTH
  <2>1. CursorRow(u) = CursorRow(t) /\ CursorColumn(u) = term_col + 1
    BY <1>2, <1>6, CursorGrows
  <2>2. Top(u) = Top(t)
    BY <2>1 DEF Top
  <2>3. term_col' = term_col + 1 /\ term_buffer' = drawn /\ term_row' = term_row
    BY <1>6 DEF PutGlyph
  <2> QED BY <1>2, <1>4, <2>1, <2>2, <2>3 DEF Shown
<1> QED BY <1>5, <1>6

\* A backspace inside a row takes the last character off the page.
LEMMA PutBackspaceShows ==
    ASSUME VgaTypeOK, NEW t, NEW u, Grows(t, u),
           Laid(u), Ordered(u), Shown(u, term_row, term_col, term_buffer),
           PutBackspace(Backspace), term_col > 0
    PROVE  Shown(t, term_row', term_col', term_buffer')
<1>1. t \in Text /\ u \in Text /\ Laid(t) /\ Ordered(t)
  BY LaidShrinks, OrderShrinks DEF Grows
<1>2. /\ term_row = CursorRow(u) - Top(u) /\ term_row \in Rows
      /\ term_col = CursorColumn(u) /\ term_col \in Columns /\ term_col # 0
      /\ CursorRow(u) \in Nat /\ Top(u) \in Nat
      /\ CursorColumn(t) \in Columns
  BY <1>1, CursorType, TopType DEF Shown, VgaTypeOK, Columns
<1> PICK c : c = u[Len(u)]
  OBVIOUS
<1>3. /\ c # Newline
      /\ CursorRow(t) = CursorRow(u) /\ CursorColumn(t) = term_col - 1
  <2>1. /\ CursorRow(u) = IF c = Newline \/ CursorColumn(t) + 1 = VGA_WIDTH
                          THEN CursorRow(t) + 1 ELSE CursorRow(t)
        /\ CursorColumn(u) = IF c = Newline \/ CursorColumn(t) + 1 = VGA_WIDTH
                             THEN 0 ELSE CursorColumn(t) + 1
    BY <1>1, CursorGrows
  <2> QED BY <1>2, <2>1 DEF Columns
<1>4. Top(t) = Top(u)
  BY <1>3 DEF Top
<1>5. /\ term_col' = term_col - 1 /\ term_row' = term_row
      /\ term_buffer' = [term_buffer EXCEPT ![term_row][term_col - 1] = Blank]
  BY DEF PutBackspace
<1>6. ASSUME NEW y \in Rows, NEW x \in Columns
      PROVE  term_buffer'[y][x] = PageAt(t, Top(t) + y, x)
  <2>1. term_buffer'[y][x] = IF y = term_row /\ x = term_col - 1
                             THEN Blank ELSE term_buffer[y][x]
    BY <1>5 DEF VgaTypeOK, Screens
  <2>2. Top(t) + y \in Nat /\ x \in Nat /\ (Top(t) + y = CursorRow(t) <=> y = term_row)
    BY <1>2, <1>3, <1>4 DEF Rows, Columns
  <2>3. PageAt(u, Top(t) + y, x) = IF Top(t) + y = CursorRow(t) /\ x = CursorColumn(t)
                                   THEN c ELSE PageAt(t, Top(t) + y, x)
    BY <1>1, <1>3, <2>2, GlyphAt
  <2>4. CASE y = term_row /\ x = term_col - 1
    <3>1. PageAt(t, Top(t) + y, x) = Blank
      <4>1. Top(t) + y = CursorRow(t) /\ x >= CursorColumn(t)
        BY <1>2, <1>3, <2>2, <2>4 DEF Columns
      <4> QED BY <1>1, <2>2, <4>1, BlankBelow
    <3> QED BY <2>1, <2>4, <3>1
  <2>5. CASE ~(y = term_row /\ x = term_col - 1)
    BY <1>3, <1>4, <2>1, <2>2, <2>3, <2>5 DEF Shown
  <2> QED BY <2>4, <2>5
<1> QED BY <1>2, <1>3, <1>4, <1>5, <1>6 DEF Shown

LEMMA CursorEmpty ==
    CursorRow(<<>>) = 0 /\ CursorColumn(<<>>) = 0 /\ Top(<<>>) = 0
<1>1. Len(<<>>) + 1 = 1
  OBVIOUS
<1> QED BY <1>1, LaidEmpty, VgaAssumption DEF CursorRow, CursorColumn, Top

LEMMA EmptyShows ==
    ASSUME NEW row, NEW col, NEW buffer, row = 0, col = 0,
           buffer = [y \in Rows |-> BlankRow]
    PROVE  Shown(<<>>, row, col, buffer)
<1>1. CursorRow(<<>>) = 0 /\ CursorColumn(<<>>) = 0 /\ Top(<<>>) = 0
  BY CursorEmpty
<1>2. \A y, x : DrawnAt(<<>>, y, x) = {}
  BY DEF DrawnAt
<1>3. \A y, x : PageAt(<<>>, y, x) = Blank
  BY <1>2, NothingAt
<1>4. \A y \in Rows, x \in Columns : buffer[y][x] = Blank
  BY BlankRowIs
<1> QED BY <1>1, <1>3, <1>4 DEF Shown

LEMMA TextInvInit == Init => TextInv
<1> SUFFICES ASSUME Init PROVE TextInv
  OBVIOUS
<1>1. shown = <<>> /\ term_row = 0 /\ term_col = 0 /\ term_buffer = [y \in Rows |-> BlankRow]
  BY DEF Init, VgaInit
<1>2. Shown(<<>>, term_row, term_col, term_buffer)
  BY <1>1, EmptyShows
<1> QED BY <1>1, <1>2, LaidEmpty DEF TextInv

LEMMA FrontGrows ==
    ASSUME NEW u \in Text, u # <<>>
    PROVE  Grows(Front(u), u)
BY FrontIs DEF Grows, Text

\* A character that is not a backspace goes behind the text.
LEMMA AppendKeeps ==
    ASSUME TypeOK, TextInv, NEW c \in Glyphs \union {Newline}, c # Backspace,
           vga_putchar(c), shown' = Append(shown, c), crossed' = crossed
    PROVE  TextInv'
<1> PICK t, u : t = shown /\ u = shown'
  OBVIOUS
<1>1. t \in Text /\ u \in Text /\ u = Append(t, c)
  BY DEF TypeOK, Text
<1>2. Grows(t, u) /\ u[Len(u)] = c
  BY <1>1, ShownGrows
<1>3. Laid(t) /\ Ordered(t)
  BY DEF TextInv
<1>4. Laid(u) /\ Ordered(u)
  BY <1>2, <1>3, LaidGrows, OrderGrows
<1>5. ASSUME ~crossed'
      PROVE  Shown(u, term_row', term_col', term_buffer')
  <2>1. Shown(t, term_row, term_col, term_buffer) /\ VgaTypeOK
    BY <1>5 DEF TextInv, TypeOK
  <2>2. CASE c = Newline
    <3>1. PutNewline(Newline)
      BY <2>2, VgaAssumption
         DEF vga_putchar, PutNewline, PutReturn, PutTab, PutBackspace, PutGlyph, Controls
    <3> QED BY <1>2, <1>3, <2>1, <2>2, <3>1, PutNewlineShows
  <2>3. CASE c # Newline
    <3>1. PutGlyph(c)
      BY <2>3, VgaAssumption
         DEF vga_putchar, PutNewline, PutReturn, PutTab, PutBackspace, PutGlyph, Controls
    <3> QED BY <1>2, <1>3, <2>1, <2>3, <3>1, PutGlyphShows
  <2> QED BY <2>2, <2>3
<1> QED BY <1>4, <1>5 DEF TextInv

LEMMA EraseKeeps ==
    ASSUME TypeOK, TextInv, vga_putchar(Backspace), shown' = Shows(Backspace),
           crossed' = (crossed \/ term_col = 0)
    PROVE  TextInv'
<1> PICK u, t : u = shown /\ t = shown'
  OBVIOUS
<1>1. u \in Text /\ Laid(u) /\ Ordered(u)
  BY DEF TypeOK, TextInv
<1>2. CASE shown # <<>>
  <2>1. Grows(t, u)
    BY <1>1, <1>2, FrontGrows DEF Shows
  <2>2. Laid(t) /\ Ordered(t)
    BY <1>1, <2>1, LaidShrinks, OrderShrinks
  <2>3. ASSUME ~crossed'
        PROVE  Shown(t, term_row', term_col', term_buffer')
    <3>1. /\ Shown(u, term_row, term_col, term_buffer) /\ VgaTypeOK
          /\ term_col \in Columns /\ term_col # 0
      BY <2>3 DEF TextInv, TypeOK, VgaTypeOK
    <3>3. term_col > 0
      BY <3>1 DEF Columns
    <3>2. PutBackspace(Backspace)
      BY VgaAssumption
         DEF vga_putchar, PutNewline, PutReturn, PutTab, PutBackspace, PutGlyph, Controls
    <3> QED BY <1>1, <2>1, <3>1, <3>2, <3>3, PutBackspaceShows
  <2> QED BY <2>2, <2>3 DEF TextInv
<1>3. CASE shown = <<>>
  <2>1. t = u /\ u = <<>>
    BY <1>3 DEF Shows
  <2>2. crossed'
    <3>1. ASSUME ~crossed PROVE term_col = 0
      BY <1>3, <3>1, LaidEmpty, CursorEmpty DEF TextInv, Shown
    <3> QED BY <3>1
  <2> QED BY <1>1, <2>1, <2>2 DEF TextInv
<1> QED BY <1>2, <1>3

LEMMA TextInvStep == TypeOK /\ TextInv /\ [Next]_vars => TextInv'
<1> SUFFICES ASSUME TypeOK, TextInv, [Next]_vars PROVE TextInv'
  OBVIOUS
<1>1. CASE PutChar
  <2> PICK c : c = Head(out)
    OBVIOUS
  <2>1. /\ c \in Outputs \ {Clear, Halt} /\ vga_putchar(c) /\ shown' = Shows(c)
        /\ crossed' = (crossed \/ (c = Backspace /\ term_col = 0))
    BY <1>1, HeadTailProperties DEF PutChar, TypeOK
  <2>2. CASE c = Backspace
    BY <2>1, <2>2, EraseKeeps
  <2>3. CASE c # Backspace
    <3>1. c \in Glyphs \union {Newline} /\ shown' = Append(shown, c) /\ crossed' = crossed
      BY <2>1, <2>3 DEF Outputs, Shows, TypeOK
    <3> QED BY <2>1, <2>3, <3>1, AppendKeeps
  <2> QED BY <2>2, <2>3
<1>2. CASE ClearScreen
  <2>1. /\ shown' = <<>> /\ term_row' = 0 /\ term_col' = 0
        /\ term_buffer' = [y \in Rows |-> BlankRow]
    BY <1>2 DEF ClearScreen, vga_clear
  <2>2. Shown(<<>>, term_row', term_col', term_buffer')
    BY <2>1, EmptyShows
  <2> QED BY <2>1, <2>2, LaidEmpty DEF TextInv
<1>3. CASE UNCHANGED <<vgaVars, shown, crossed>>
  BY <1>3 DEF TextInv, vgaVars
<1> QED
  BY <1>1, <1>2, <1>3 DEF Next, TakeKey, HaltForever, vars, vgaVars, shellVars

\* The screen shows the end of what was printed, line by line and row by row,
\* with the cursor behind it, through every newline, full row, scroll, erased
\* character and clear, for every size of the screen and every text, unless a
\* backspace met the start of a row (vga_putchar, vga_scroll).
THEOREM ScreenCorrect == Spec => []ScreenShowsText
<1>1. TextInv => ScreenShowsText
  BY DEF TextInv, Shown, ScreenShowsText
<1> QED BY <1>1, ShellTypeCorrect, TextInvInit, TextInvStep, PTL DEF Spec

=============================================================================
