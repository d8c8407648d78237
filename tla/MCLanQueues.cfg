CONSTANTS
    ann = ann
    bob = bob
    Ends = {ann, bob}
    Transfers = 1
    Window = 1
    DataCap = 1
    MediaCap = 1
    WireCap = 1
    Pieces <- AnnFetchesMore
    MediaFrames <- AnnFilms
SPECIFICATION QFairSpec
CHECK_DEADLOCK FALSE
INVARIANTS NothingLost 
   
