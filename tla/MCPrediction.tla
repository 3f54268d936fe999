---------------------------- MODULE MCPrediction ----------------------------
(* Two requests of one chat for Prediction.tla. *)
EXTENDS Prediction, TLC

\* Two events show order and loss, an abort may come late, and two deaths of workers or
\* losses of locks make a job stall twice.
SmallBounds ==
    {[events |-> 2, aborts |-> 0, crashes |-> 1],
     [events |-> 2, aborts |-> 1, crashes |-> 0],
     [events |-> 1, aborts |-> 1, crashes |-> 1],
     [events |-> 1, aborts |-> 0, crashes |-> 2]}

Symmetry == Permutations(Request) \cup Permutations(Worker)
=============================================================================
