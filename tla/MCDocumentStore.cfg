CONSTANTS
    Request = {r1, r2}
    Doc = {d1, d2}
    AllDocs = all
    Nobody = nobody
    Text <- Texts
    Size = 2
    MaxCrashes = 1
    Bounds <- SmallBounds
SPECIFICATION Spec
CHECK_DEADLOCK FALSE
SYMMETRY Symmetry
INVARIANTS
    TypeOK
    LoadersMatchChunks
    
PROPERTIES
    OthersChangeOnlyThroughStaleCopies
