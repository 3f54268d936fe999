CONSTANTS
    Node <- Node4
    NoNode = 0
    Flows <- Routes
    MaxIterations = 10
    Items = 1
    MaxFails = 2
    MaxResumes = 2
    MayAbort = TRUE
    MayCrash = TRUE
SPECIFICATION Spec
INVARIANTS
    RowMatchesRecords
    RoutesFollowed
    FailedResumeCanBeRetried
    LoopBound
PROPERTIES
    EveryRunEnds
CHECK_DEADLOCK FALSE
