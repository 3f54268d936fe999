CONSTANTS
    Request = {r1, r2, r3, r4}
    Limit = 2
    LastMonth = 2
SPECIFICATION Spec
INVARIANTS
    OverrunIsBounded
SYMMETRY Requests
