CONSTANTS
    Process = {p1}
    Id = {i1}
    Task = {t1, t2}
    Call = {c1, c2}
    None = None
    MaxBridges = 1
SPECIFICATION FairSpec
INVARIANTS OneForwarder StartingIsLive ErrorMeansDown
PROPERTIES CleanupSparesOthers StopReleases
