CONSTANTS
    Task <- Task2
    Plans <- PlanChain
    Worker = {w1, w2}
    Caller = {c1}
    Budget = 2
    TokenCost = {1}
    UseRedis = TRUE
    MaxThrows = 1
    MaxCrashes = 1
SPECIFICATION FairSpec
INVARIANTS
    TypeOK
    TokensNeverOvercounted
    VerdictJustified
PROPERTIES
    NeverRequeueable
    Drains
