CONSTANTS
    ann = ann
    bob = bob
    Node = {ann, bob}
    Rank <- AnnFirst
    Sock = {s1, s2, s3}
    None = None
    MaxDials = 1
    MaxLosses = 2
SPECIFICATION FairSpec
CHECK_DEADLOCK FALSE
INVARIANTS EntryIsOpenEnd 
PROPERTY Converges
