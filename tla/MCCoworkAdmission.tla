------------------------- MODULE MCCoworkAdmission --------------------------
EXTENDS CoworkAdmission, TLC

Requests == Permutations(Request)
=============================================================================
