CONSTANTS
    Origin = origin
    Member = {bob}
    Group = FALSE
    Piece = {b1, b2}
    None = None
    Window = 1
    MaxInflight = 1
    MaxPauses = 1
    MaxCancels = 0
    MaxBreaks = 1
    MaxBad = 1
    MaxExpiries = None
SPECIFICATION FairSpec
CHECK_DEADLOCK FALSE
INVARIANTS SavedIsWhole
PROPERTIES LeecherFinishes OriginSettles
