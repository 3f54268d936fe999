CONSTANTS
    Task <- Task3
    Plans <- PlansAll
    Worker = {w1, w2}
    Caller = {c1}
    Budget = 0
    TokenCost = {1}
    UseRedis = TRUE
    MaxThrows = 0
    MaxCrashes = 0
SPECIFICATION Spec
SYMMETRY Workers
INVARIANTS
    DependenciesFirst
    NoStrandedTask
PROPERTIES
    OutputsAreMissedOnlyIfOverwritten
    ImplementsDagRun
