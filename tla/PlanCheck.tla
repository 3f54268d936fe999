----------------------------- MODULE PlanCheck ------------------------------
(***************************************************************************)
(* validateNoCycles (services/cowork/taskDecomposer.ts): the depth-first   *)
(* search that accepts or rejects the plan the LLM returned.  The call     *)
(* stack of the inner function dfs is the sequence path; its elements are  *)
(* the code's set `stack'.  The dependencies of a task are visited in any  *)
(* order.  Ids are neither unique nor known to name a task: the schema     *)
(* checks only that they are strings.                                      *)
(***************************************************************************)
EXTENDS Integers, Sequences, FiniteSets

CONSTANTS
    Id,     \* planner ids
    Plans,  \* the plans the LLM may return
    Turn    \* the numbers an order of the ids may use

ASSUME PlanAssumption == Plans \subseteq Seq([id: Id, deps: SUBSET Id])
ASSUME TurnAssumption == Turn \subseteq Nat

VARIABLES
    plan,     \* the tasks in the order they were returned
    next,     \* index of the task the outer loop visits next
    path,     \* the ids on the call stack of dfs, outermost first
    visited,  \* ids whose call returned
    verdict,  \* "running", "accepted" or "cyclic"
    rank      \* history: the order in which ids were visited

vars == <<plan, next, path, visited, verdict, rank>>

\* taskMap: of several tasks with one id the last one counts, and an id that
\* names no task has no dependencies.
Named(id) == {i \in DOMAIN plan : plan[i].id = id}

DependenciesOf(id) ==
    {d \in Id : \E i \in Named(id) : /\ \A j \in Named(id) : j <= i
                                     /\ d \in plan[i].deps}

OnStack(id) == \E i \in DOMAIN path : path[i] = id

Top == path[Len(path)]

Init ==
    /\ plan \in Plans
    /\ next = 1
    /\ path = <<>>
    /\ visited = {}
    /\ verdict = "running"
    /\ rank = [id \in Id |-> 0]

\* A call of dfs for an id that is neither on the stack nor visited.
Enter(id) ==
    /\ ~ OnStack(id)
    /\ id \notin visited
    /\ path' = Append(path, id)
    /\ UNCHANGED <<plan, visited, verdict, rank>>

\* tasks.forEach((t) => dfs(t.id)); a call for a visited id returns at once.
VisitTask ==
    /\ verdict = "running" /\ path = <<>> /\ next <= Len(plan)
    /\ next' = next + 1
    /\ \/ Enter(plan[next].id)
       \/ /\ plan[next].id \in visited
          /\ UNCHANGED <<plan, path, visited, verdict, rank>>

\* One of task.dependencies.forEach((depId) => dfs(depId)) that goes deeper.
VisitDependency ==
    /\ verdict = "running" /\ path # <<>>
    /\ \E d \in DependenciesOf(Top) : Enter(d)
    /\ UNCHANGED next

\* Mutant: stack.delete is forgotten, so that a shared dependency looks cyclic.
MutReject ==
    /\ verdict = "running" /\ path # <<>>
    /\ \E d \in DependenciesOf(Top) : OnStack(d) \/ d \in visited
    /\ verdict' = "cyclic"
    /\ UNCHANGED <<plan, next, path, visited, rank>>

\* A dependency that is still on the stack: dfs throws.
Reject ==
    /\ verdict = "running" /\ path # <<>>
    /\ \E d \in DependenciesOf(Top) : OnStack(d)
    /\ verdict' = "cyclic"
    /\ UNCHANGED <<plan, next, path, visited, rank>>

\* Mutant: visited is consulted before the stack, and filled on entry.
MutReturnOnStack ==
    /\ verdict = "running" /\ path # <<>>
    /\ \A d \in DependenciesOf(Top) : d \in visited \/ OnStack(d)
    /\ path' = SubSeq(path, 1, Len(path) - 1)
    /\ visited' = visited \cup {Top}
    /\ rank' = [rank EXCEPT ![Top] = Cardinality(visited)]
    /\ UNCHANGED <<plan, next, verdict>>

\* Mutant: visited.add is forgotten.
MutReturnUnvisited ==
    /\ verdict = "running" /\ path # <<>>
    /\ DependenciesOf(Top) \subseteq visited
    /\ path' = SubSeq(path, 1, Len(path) - 1)
    /\ rank' = [rank EXCEPT ![Top] = Cardinality(visited)]
    /\ UNCHANGED <<plan, next, visited, verdict>>

\* The dependencies were all visited: dfs leaves the stack.
Return ==
    /\ verdict = "running" /\ path # <<>>
    /\ DependenciesOf(Top) \subseteq visited
    /\ path' = SubSeq(path, 1, Len(path) - 1)
    /\ visited' = visited \cup {Top}
    /\ rank' = [rank EXCEPT ![Top] = Cardinality(visited)]
    /\ UNCHANGED <<plan, next, verdict>>

\* The outer forEach ended without a throw.
Accept ==
    /\ verdict = "running" /\ path = <<>> /\ next > Len(plan)
    /\ verdict' = "accepted"
    /\ UNCHANGED <<plan, next, path, visited, rank>>

Step == VisitTask \/ VisitDependency \/ Reject \/ Return \/ Accept

Done == verdict # "running" /\ UNCHANGED vars

Next == Step \/ Done

Spec == Init /\ [][Next]_vars /\ WF_vars(Step)

-----------------------------------------------------------------------------
(* Properties                                                               *)

\* The stack holds ids of the search and nothing else is ever visited.
TypeOK ==
    /\ plan \in Seq([id: Id, deps: SUBSET Id])
    /\ next \in 1..(Len(plan) + 1)
    /\ path \in Seq(Id)
    /\ visited \subseteq Id /\ IsFiniteSet(visited)
    /\ verdict \in {"running", "accepted", "cyclic"}
    /\ rank \in [Id -> Nat]

TaskIds == {plan[i].id : i \in DOMAIN plan}

\* Every id below a task comes before it in the order f.
Orders(f) == \A id \in TaskIds : \A d \in DependenciesOf(id) : f[d] < f[id]

\* An accepted plan can be run: the order in which dfs returned puts every
\* dependency before the tasks that wait for it.
AcceptedIsOrdered == verdict = "accepted" => Orders(rank)

\* A rejected plan cannot: no order at all puts the dependencies first.
RejectedIsCyclic ==
    verdict = "cyclic" => \A f \in [Id -> Turn] : ~ Orders(f)

\* The search ends, on cyclic plans too.
Terminates == <>(verdict # "running")

-----------------------------------------------------------------------------
(* The inductive invariant: a stack of distinct, unvisited ids on which      *)
(* every order descends, and visited ids that are closed under dependencies  *)
(* and ordered by rank.                                                      *)

StackIsDistinct ==
    /\ \A i \in DOMAIN path : path[i] \notin visited
    /\ \A i, j \in DOMAIN path : path[i] = path[j] => i = j

StackDescends ==
    \A f \in [Id -> Turn] :
        Orders(f) => \A i, j \in DOMAIN path : i < j => f[path[j]] < f[path[i]]

VisitedAreOrdered ==
    \A id \in visited :
        /\ rank[id] < Cardinality(visited)
        /\ \A d \in DependenciesOf(id) : d \in visited /\ rank[d] < rank[id]

TasksCovered ==
    \A i \in DOMAIN plan : i < next => plan[i].id \in visited \/ OnStack(plan[i].id)

SearchedAll ==
    verdict = "accepted" => path = <<>> /\ next > Len(plan)

IInv ==
    /\ TypeOK /\ StackIsDistinct /\ StackDescends /\ VisitedAreOrdered
    /\ TasksCovered /\ SearchedAll /\ RejectedIsCyclic
=============================================================================
