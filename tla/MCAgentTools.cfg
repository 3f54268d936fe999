CONSTANTS
    Request = {r1, r2, r3}
    Tool <- Tools
    Unknown <- Ghost
    Asks <- AskTools
    Direct <- Free
    Group <- Groups
    InIteration = FALSE
    MaxCalls = 2
    MaxResponses = 2
SPECIFICATION Spec
CHECK_DEADLOCK FALSE
SYMMETRY Requests
INVARIANTS
    TypeOK
    CallsRunAsApproved
    ApprovedResponseRuns
    ModelGetsWellFormedMessages
    TokensWithinTwice
PROPERTIES
    RejectedToolsDoNotRun
