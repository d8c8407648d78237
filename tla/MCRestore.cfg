CONSTANTS
    db = db
    cfg = cfg
    full = full
    part = part
    File = {db, cfg}
    Database = {db}
    Backup = {full, part}
    Contents <- Archives
    Original = original
    Edited = edited
    None = None
    Torn = torn
    MaxStagings = 2
    MaxRestagings = 1
    MaxEnds = 3
    MaxFailures = 1
    MaxPuts = 1
SPECIFICATION FairSpec
CHECK_DEADLOCK FALSE
 
PROPERTIES  RestoreHappens
