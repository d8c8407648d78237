SPECIFICATION Spec
CONSTANTS
    Message = {m1, d1}
    Direct = {d1}
    None = None
    MaxQueued = 1
    MaxStops = 0
    MaxFaults = 0
INVARIANT NothingStranded
CHECK_DEADLOCK FALSE
