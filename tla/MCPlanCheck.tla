---------------------------- MODULE MCPlanCheck -----------------------------
(* Every plan of up to three tasks over three ids, one of which may name no  *)
(* task and two of which may be the same.                                    *)
EXTENDS PlanCheck

Ids == 1..3
Turns == 0..2
Node == [id: Ids, deps: SUBSET Ids]
AllPlans == {<<a, b, c>> : a, b, c \in Node} \cup {<<a, b>> : a, b \in Node}
=============================================================================
