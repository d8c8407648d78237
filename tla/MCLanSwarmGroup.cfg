CONSTANTS
    Origin = origin
    Member = {bob, cat}
    Group = TRUE
    Piece = {b1}
    None = None
    Window = 1
    MaxInflight = 1
    MaxPauses = 0
    MaxCancels = 1
    MaxBreaks = 0
    MaxBad = 0
    MaxExpiries = 0
SPECIFICATION Spec
CHECK_DEADLOCK FALSE
SYMMETRY Symmetry
INVARIANTS BeliefsAreTrue DoneIsTrue CancelCleansUp
PROPERTIES IsSharing
