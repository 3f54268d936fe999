------------------------------ MODULE MCCowork ------------------------------
(* Small plans for Cowork.tla. *)
EXTENDS Cowork, TLC

\* The plan of the repository's tests (makeDag): two tasks after a first one.
FanOut == (1 :> {}) @@ (2 :> {1}) @@ (3 :> {1})

\* Two independent tasks joined by a third one.
Join == (1 :> {}) @@ (2 :> {}) @@ (3 :> {1, 2})

\* A second root whose worker scans while the first root is being saved.
TwoRoots == (1 :> {}) @@ (2 :> {}) @@ (3 :> {1})

Chain == (1 :> {}) @@ (2 :> {1})

\* 9 is an id that names no task: the decomposer accepts it.
Dangling == (1 :> {}) @@ (2 :> {1}) @@ (3 :> {1, 9})

\* Every acyclic plan on three tasks.  The order of the ids, which breaks ties in
\* sortTasksByCreated, need not agree with the order of the dependencies.
Acyclic3 ==
    {p \in [1..3 -> SUBSET (1..3)] :
        \E rank \in Permutations(1..3) :
            \A t \in 1..3 : \A d \in p[t] : rank[d] < rank[t]}

PlanChain    == {Chain}
PlansLive    == {FanOut, Join, TwoRoots}
PlansAll     == Acyclic3 \cup {Dangling}

Task2 == 1..2
Task3 == 1..3
Workers == Permutations(Worker)
=============================================================================
