CONSTANTS
    Node <- Node4
    NoNode = 0
    Flows <- Dags
    MaxIterations = 10
    Items = 2
    MaxFails = 1
    MaxResumes = 1
    MayAbort = TRUE
    MayCrash = TRUE
SPECIFICATION Spec
INVARIANTS
    TypeOK
    RunsOnce
    ItemsRun
PROPERTIES
    ImplementsDagRun
CHECK_DEADLOCK FALSE
