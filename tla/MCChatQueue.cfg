SPECIFICATION Spec
CONSTANTS
    Message = {m1, m2, m3, d1}
    Direct = {d1}
    None = None
    MaxQueued = 2
    MaxStops = 1
    MaxFaults = 1
SYMMETRY Symmetry
INVARIANTS
    SentOnce
    TurnsDoNotRace
    QueueIsDriven
PROPERTIES
    IsConversation
CHECK_DEADLOCK FALSE
