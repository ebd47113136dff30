SPECIFICATION VgaSpec
CONSTANTS
    VGA_WIDTH = 5
    VGA_HEIGHT = 3
    Glyphs <- TwoGlyphs
    Blank = " "
    Newline = "NL"
    Return = "CR"
    Tab = "TAB"
    Backspace = "BS"
INVARIANTS
    VgaTypeOK
PROPERTIES
    TextMovesAsAWhole
