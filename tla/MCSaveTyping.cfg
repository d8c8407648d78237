SPECIFICATION Spec
CONSTANTS
    Text = {"", "x", "y"}
    Blank = ""
    None = "absent"
    First = "x"
    Fmt <- MCFmt
    Opener = {"open"}
    MaxTx = 1
    MaxMoves = 3
    ExternalDuringWrite = FALSE
PROPERTIES
    WritebackKeepsText
CHECK_DEADLOCK FALSE
