------------------------------- MODULE Shell --------------------------------
(***************************************************************************)
(* The shell of kernel_main (kernel/kernel.c) and the console it prints    *)
(* on.  It takes a character from keyboard_getchar, edits its command      *)
(* line, and echoes what it did; a line that ends is run.  What it prints  *)
(* goes through vga_putchar one character at a time, and it takes the next *)
(* key when all of it is on the screen.                                    *)
(***************************************************************************)
EXTENDS Vga, SequencesExt

CONSTANTS
    CMD_SIZE,           \* sizeof(cmd_buf), 256 in the code
    PRINTF_SIZE,        \* sizeof(buf) in vga_printf, 256 in the code
    Banner, Prompt,     \* what the boot prints, and "aetherion> "
    UnknownText,        \* "Commande inconnue: "
    HelpText, RebootText,
    Help, ClearLine, Reboot,    \* the commands without arguments
    Listings,                   \* "disks" and "pci"
    Read, Echo,                 \* "read " and "echo "
    Reports,            \* what the listings and a read may print
    Typed,              \* bound: the printable characters the user types
    MaxShown            \* bound: the text on the screen when a key is taken

Clear == "vga_clear"    \* two steps of the output that are not characters
Halt == "cli; hlt"

Keys == Typed \union Controls
Text == Seq(Glyphs \union {Newline})
Outputs == Glyphs \union {Newline, Backspace, Clear, Halt}

\* Whole lines: what the kernel prints before a prompt ends with a newline.
Lines(text) == text = <<>> \/ Last(text) = Newline

ASSUME ShellAssumption ==
    /\ CMD_SIZE \in Nat \ {0} /\ PRINTF_SIZE \in Nat \ {0}
    /\ Banner \in Text /\ HelpText \in Text /\ RebootText \in Text
    /\ Read \in Seq(Glyphs) /\ Echo \in Seq(Glyphs)
    /\ Prompt \in Seq(Glyphs) /\ UnknownText \in Seq(Glyphs)
    /\ \A report \in Reports : report \in Text /\ Lines(report)
    /\ Lines(Banner) /\ Lines(HelpText)
    /\ Typed \subseteq Glyphs
    /\ {Clear, Halt} \intersect (Glyphs \union Controls) = {}
    /\ MaxShown \in Nat

VARIABLES
    cmd_buf,    \* the first cmd_len characters of the command line
    out,        \* what is left to print before the next key
    halted,     \* the processor has stopped in reboot
    shown,      \* aux: the text printed since the screen was last clear
    crossed,    \* aux: since then a backspace met the start of a row
    cut         \* aux: vga_printf cut the last reply

shellVars == <<cmd_buf, out, halted, shown, crossed, cut>>
vars == <<vgaVars, shellVars>>

Init ==
    /\ VgaInit
    /\ cmd_buf = <<>> /\ out = Banner \o Prompt /\ halted = FALSE
    /\ shown = <<>> /\ crossed = FALSE /\ cut = FALSE

\* Mutant: the size is taken for the last index, and one more is lost.
PrintedShort(text) ==
    IF Len(text) < PRINTF_SIZE - 1 THEN text ELSE SubSeq(text, 1, PRINTF_SIZE - 2)

\* vsnprintf keeps PRINTF_SIZE - 1 characters.
Printed(text) ==
    IF Len(text) < PRINTF_SIZE THEN text ELSE SubSeq(text, 1, PRINTF_SIZE - 1)

Unknown(line) == UnknownText \o line \o <<Newline>>

\* What running a command line may print
Replies(line) ==
    CASE line = <<>> -> {<<>>}
      [] line = Help -> {HelpText}
      [] line = ClearLine -> {<<Clear>>}
      [] line = Reboot -> {RebootText \o <<Halt>>}
      [] line \in Listings \/ IsPrefix(Read, line) -> Reports
      [] IsPrefix(Echo, line) ->
            {SubSeq(line, Len(Echo) + 1, Len(line)) \o <<Newline>>}
      [] OTHER -> {Printed(Unknown(line))}

Cuts(line) ==
    /\ Replies(line) = {Printed(Unknown(line))}
    /\ Len(Unknown(line)) >= PRINTF_SIZE

-----------------------------------------------------------------------------
EndLine(c) ==
    /\ c \in {Newline, Return}
    /\ \E text \in Replies(cmd_buf) : out' = <<Newline>> \o text \o Prompt
    /\ cut' = Cuts(cmd_buf)
    /\ cmd_buf' = <<>>

\* Mutants: the screen loses a character whether or not the line has one;
\* the place of the final 0 is given to a character.
EraseUnguarded(c) ==
    /\ c = Backspace
    /\ cmd_buf' = IF cmd_buf = <<>> THEN <<>> ELSE Front(cmd_buf)
    /\ out' = <<Backspace>>
    /\ UNCHANGED cut

InsertFull(c) ==
    /\ c \in Glyphs /\ Len(cmd_buf) < CMD_SIZE
    /\ cmd_buf' = Append(cmd_buf, c)
    /\ out' = <<c>>
    /\ UNCHANGED cut

Erase(c) ==
    /\ c = Backspace /\ cmd_buf # <<>>
    /\ cmd_buf' = Front(cmd_buf)
    /\ out' = <<Backspace>>
    /\ UNCHANGED cut

Insert(c) ==
    /\ c \in Glyphs /\ Len(cmd_buf) < CMD_SIZE - 1
    /\ cmd_buf' = Append(cmd_buf, c)
    /\ out' = <<c>>
    /\ UNCHANGED cut

\* A tab, a backspace on an empty line, a character past the end of cmd_buf
Ignore(c) ==
    /\ \/ c = Tab
       \/ c = Backspace /\ cmd_buf = <<>>
       \/ c \in Glyphs /\ Len(cmd_buf) >= CMD_SIZE - 1
    /\ UNCHANGED <<cmd_buf, out, cut>>

\* One turn of the loop, with the character of keyboard_getchar
TakeKey ==
    /\ ~halted /\ out = <<>> /\ Len(shown) <= MaxShown
    /\ \E c \in Keys : EndLine(c) \/ Erase(c) \/ Insert(c) \/ Ignore(c)
    /\ UNCHANGED <<vgaVars, halted, shown, crossed>>

\* The text on the screen after one more character, as a user reads it
Shows(c) ==
    IF c # Backspace THEN Append(shown, c)
    ELSE IF shown # <<>> THEN Front(shown) ELSE shown

PutChar ==
    /\ ~halted /\ out # <<>> /\ Head(out) \notin {Clear, Halt}
    /\ vga_putchar(Head(out))
    /\ out' = Tail(out)
    /\ shown' = Shows(Head(out))
    /\ crossed' = (crossed \/ (Head(out) = Backspace /\ term_col = 0))
    /\ UNCHANGED <<cmd_buf, halted, cut>>

ClearScreen ==
    /\ ~halted /\ out # <<>> /\ Head(out) = Clear
    /\ vga_clear
    /\ out' = Tail(out)
    /\ shown' = <<>> /\ crossed' = FALSE
    /\ UNCHANGED <<cmd_buf, halted, cut>>

\* cli; hlt: no interrupt wakes the processor again.
HaltForever ==
    /\ ~halted /\ out # <<>> /\ Head(out) = Halt
    /\ halted' = TRUE
    /\ UNCHANGED <<vgaVars, cmd_buf, out, shown, crossed, cut>>

Next == TakeKey \/ PutChar \/ ClearScreen \/ HaltForever
Spec == Init /\ [][Next]_vars

-----------------------------------------------------------------------------
\* A user reads a text as lines that fill rows of VGA_WIDTH characters; a line
\* that fills its rows exactly is followed by an empty row.

\* Position j starts the line that position i is in, and how far i is into it
Starts(text, j, i) ==
    /\ j = 1 \/ text[j - 1] = Newline
    /\ \A k \in j..(i - 1) : text[k] # Newline
Offset(text, i) == i - (CHOOSE j \in 1..i : Starts(text, j, i))

\* The rows of the lines that end before each position
RowsAbove(text) ==
    LET above[i \in 1..(Len(text) + 1)] ==
            IF i = 1 THEN 0
            ELSE above[i - 1] + (IF text[i - 1] = Newline
                                 THEN Offset(text, i - 1) \div VGA_WIDTH + 1 ELSE 0)
    IN  above

\* The row on an endless page, and the column, of position i
PageRow(text, i) == RowsAbove(text)[i] + Offset(text, i) \div VGA_WIDTH
PageColumn(text, i) == Offset(text, i) % VGA_WIDTH

\* The screen is the window of VGA_HEIGHT rows that ends with the cursor.
CursorRow(text) == PageRow(text, Len(text) + 1)
CursorColumn(text) == PageColumn(text, Len(text) + 1)
Top(text) ==
    IF CursorRow(text) < VGA_HEIGHT THEN 0 ELSE CursorRow(text) - (VGA_HEIGHT - 1)

\* What the page has at a place
DrawnAt(text, row, col) ==
    {i \in 1..Len(text) : /\ text[i] # Newline
                          /\ PageRow(text, i) = row /\ PageColumn(text, i) = col}
PageAt(text, row, col) ==
    LET here == DrawnAt(text, row, col)
    IN  IF here = {} THEN Blank ELSE text[CHOOSE i \in here : TRUE]

\* Type correctness: the cursor stays on the screen (term_row, term_col in
\* kernel/vga.c) and the command line leaves a place for the 0 that ends it
\* (cmd_buf, cmd_len in kernel/kernel.c).
TypeOK ==
    /\ VgaTypeOK
    /\ cmd_buf \in Seq(Glyphs) /\ Len(cmd_buf) < CMD_SIZE
    /\ out \in Seq(Outputs)
    /\ halted \in BOOLEAN /\ crossed \in BOOLEAN /\ cut \in BOOLEAN
    /\ shown \in Text

\* The screen shows the end of the text that was printed and erased since it
\* was last clear, wrapped and scrolled, and the cursor stands where the next
\* character goes (vga_putchar), unless a backspace met the start of a row:
\* vga_putchar does not go back to the row above, where the character is.
ScreenShowsText ==
    crossed \/ /\ term_row = CursorRow(shown) - Top(shown)
               /\ term_col = CursorColumn(shown)
               /\ \A y \in Rows, x \in Columns :
                      term_buffer[y][x] = PageAt(shown, Top(shown) + y, x)

\* When the shell waits for a key, what was echoed since the last prompt is
\* the command line that Enter would run: editing never reaches the prompt,
\* and no key that cmd_buf refuses is echoed (kernel_main).
SeesWhatRuns == out = <<>> /\ ~halted => IsSuffix(Prompt \o cmd_buf, shown)

\* Every prompt starts a line, unless vga_printf cut the reply before it and
\* its newline with it (kernel_main, vga_printf).
PromptStartsALine ==
    out = <<>> /\ ~halted /\ ~cut =>
        LET before == SubSeq(shown, 1, Len(shown) - Len(Prompt \o cmd_buf))
        IN  before = <<>> \/ Last(before) = Newline

=============================================================================
