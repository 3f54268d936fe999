CONSTANTS
    Request = {r1, r2}
    Worker = {w1, w2}
    None = None
    MaxEvents = 2
    Bounds <- SmallBounds
SPECIFICATION Spec
INVARIANTS
    TypeOK
    NoControllerOutlivesItsRun
    AbortFindsRun
    NoWriteAfterEnd
    ResponseFollowsRequest
    StreamFollowsRun
    JobInOnePlace
SYMMETRY Symmetry
CHECK_DEADLOCK FALSE
