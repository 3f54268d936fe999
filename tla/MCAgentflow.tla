----------------------------- MODULE MCAgentflow ----------------------------
(* Small flows for Agentflow.tla.  The numbers of the nodes give an order in *)
(* which every edge goes up; edges are listed by source, then by target.     *)
EXTENDS Agentflow, TLC

Node4 == 1..4

E(a, o, b) == [from |-> a, out |-> o, to |-> b]

\* A flow from its kinds (pairs of a node and a kind, the rest plain) and edges.
Draw(kinds, edges) ==
    [kind |-> [n \in Node |-> IF n \in DOMAIN kinds THEN kinds[n] ELSE "plain"],
     edges |-> edges, back |-> [n \in Node |-> 2], maxLoop |-> 3, asks |-> {}]

\* The edges four nodes may have, in the order in which they are drawn.
Pairs == <<<<1, 2>>, <<1, 3>>, <<1, 4>>, <<2, 3>>, <<2, 4>>, <<3, 4>>>>

\* Graphs in which node 1 is the one node without inputs.
Rooted == {t \in SUBSET ToSet(Pairs) : \A n \in 2..4 : \E p \in t : p[2] = n}

\* The edges of a graph; each edge of a node of ds starts at an output of its own.
Edges(t, ds) ==
    LET drawn == SelectSeq(Pairs, LAMBDA p : p \in t)
        out(p) == IF p[1] \in ds THEN Cardinality({q \in t : q[1] = p[1] /\ q[2] <= p[2]}) ELSE 1
    IN [i \in DOMAIN drawn |-> E(drawn[i][1], out(drawn[i]), drawn[i][2])]

\* Every flow whose nodes hand everything on, one of them possibly an iteration.
Dags == {Draw(kinds, Edges(t, {})) : kinds \in {<<>>, (2 :> "iteration")}, t \in Rooted}

\* Every flow in which some of the nodes 1..3 decide between at most two targets;
\* node 1 possibly asks a human.
AtMostTwo == {t \in Rooted : \A n \in 1..3 : Cardinality({p \in t : p[1] = n}) <= 2}

Decisions ==
    {Draw([d \in ds |-> IF d = asked THEN "human" ELSE "decision"], Edges(t, ds)) :
        ds \in SUBSET (1..3), asked \in {0, 1}, t \in AtMostTwo}

\* A chain 1 -> 2 -> 3 -> 4 whose inner nodes stop, decide, iterate or fail.
Chains ==
    {[Draw((2 :> a) @@ (3 :> b), <<E(1, 1, 2), E(2, 1, 3), E(3, 1, 4)>>)
        EXCEPT !.asks = asks] :
        a, b \in {"human", "agent", "decision", "iteration"}, asks \in {{}, {2}}}

\* Decision 2 leads back to itself through the loop node 3 or on to 4.
Retry == Draw((2 :> "decision") @@ (3 :> "loop"), <<E(1, 1, 2), E(2, 1, 3), E(2, 2, 4)>>)

\* 2 and 3 are repeated by the loop node 4.
Repeat == Draw((4 :> "loop"), <<E(1, 1, 2), E(2, 1, 3), E(3, 1, 4)>>)

\* Two loop nodes that lead back to 2.
TwoLoops == Draw((3 :> "loop") @@ (4 :> "loop"), <<E(1, 1, 2), E(2, 1, 3), E(2, 1, 4)>>)

\* 3 joins the loop with node 1 outside of it.
JoinInLoop == Draw((4 :> "loop"), <<E(1, 1, 2), E(1, 1, 3), E(2, 1, 3), E(3, 1, 4)>>)

\* Human input 3 in a loop: every pass is stopped.
AskInLoop == Draw((3 :> "human") @@ (4 :> "loop"), <<E(1, 1, 2), E(2, 1, 3), E(3, 1, 4)>>)

Loops == {Retry, Repeat, TwoLoops, JoinInLoop, AskInLoop}

Routes == Decisions \cup Chains \cup Loops

\* Every flow that is checked is one that RoutesAreFollowed is about.
ASSUME FlowsAreSafe == SafeFlows
=============================================================================
