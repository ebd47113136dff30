SPECIFICATION Spec
CONSTANTS
    VGA_WIDTH = 3
    VGA_HEIGHT = 3
    Glyphs <- MCGlyphs
    Blank = " "
    Newline = "NL"
    Return = "CR"
    Tab = "TAB"
    Backspace = "BS"
    CMD_SIZE = 5
    PRINTF_SIZE = 5
    Banner <- MCBanner
    Prompt <- MCPrompt
    UnknownText <- MCUnknownText
    HelpText <- MCHelpText
    RebootText <- MCRebootText
    Help <- MCHelp
    ClearLine <- MCClear
    Reboot <- MCReboot
    Listings <- MCListings
    Read <- MCRead
    Echo <- MCEcho
    Reports <- MCReports
    Typed <- MCTyped
    MaxShown = 8
CONSTRAINT CrossedBriefly
CHECK_DEADLOCK FALSE
INVARIANTS
    TypeOK
    ScreenShowsText
    SeesWhatRuns
    PromptStartsALine
