CONSTANTS
    Id <- Ids
    Plans <- AllPlans
    Turn <- Turns
SPECIFICATION Spec
INVARIANTS
    AcceptedIsOrdered
    RejectedIsCyclic
PROPERTIES
    Terminates
