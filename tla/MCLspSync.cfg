SPECIFICATION Spec
CONSTANTS
    Text = {"x", "y"}
    First = "x"
    None = "none"
    Garbled = "garbled"
    Incremental = TRUE
    Slot = {1, 2}
    MaxOpens = 2
    MaxMoves = 2
    MaxFaults = 1
    MaxEvents = 4
INVARIANTS
    
    SaveIsAwaited
    

    
    
CHECK_DEADLOCK FALSE
