SPECIFICATION Spec
CONSTANTS
    Text = {"", "x", "y"}
    Blank = ""
    None = "absent"
    First = "x"
    Fmt <- MCFmt
    Opener = {"open"}
    MaxTx = 2
    MaxMoves = 4
    ExternalDuringWrite = FALSE
INVARIANTS
    SavingIsOwned
PROPERTIES
    ReportIsTrue
    OverwriteIsSeen
    ClosedSaveSparesContent
CHECK_DEADLOCK FALSE
