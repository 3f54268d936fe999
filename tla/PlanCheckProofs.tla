-------------------------- MODULE PlanCheckProofs ---------------------------
(* What holds of validateNoCycles for plans of any length over any ids.      *)
EXTENDS PlanCheck, FiniteSetTheorems, SequenceTheorems, TLAPS

\* What a call of dfs does to the stack, and what a return does to it.
LEMMA Push ==
    ASSUME NEW S, NEW s \in Seq(S), NEW e \in S
    PROVE  /\ Append(s, e) \in Seq(S)
           /\ Len(Append(s, e)) = Len(s) + 1
           /\ Append(s, e)[Len(s) + 1] = e
           /\ \A i \in 1..Len(s) : Append(s, e)[i] = s[i]
           /\ Len(s) \in Nat
           /\ DOMAIN s = 1..Len(s)
           /\ DOMAIN Append(s, e) = 1..(Len(s) + 1)
BY AppendProperties, LenProperties

LEMMA Pop ==
    ASSUME NEW S, NEW s \in Seq(S), s # <<>>
    PROVE  /\ Len(s) \in Nat \ {0}
           /\ s[Len(s)] \in S
           /\ SubSeq(s, 1, Len(s) - 1) \in Seq(S)
           /\ Len(SubSeq(s, 1, Len(s) - 1)) = Len(s) - 1
           /\ DOMAIN s = 1..Len(s)
           /\ DOMAIN SubSeq(s, 1, Len(s) - 1) = 1..(Len(s) - 1)
           /\ \A i \in 1..(Len(s) - 1) : SubSeq(s, 1, Len(s) - 1)[i] = s[i]
<1>1. Len(s) \in Nat \ {0} /\ DOMAIN s = 1..Len(s)
  BY EmptySeq, LenProperties
<1>2. \A i \in 1..Len(s) : s[i] \in S
  BY ElementOfSeq
<1>3. \A i \in 1..(Len(s) - 1) : s[i] \in S
  BY <1>1, <1>2
<1>4. /\ SubSeq(s, 1, Len(s) - 1) \in Seq(S)
      /\ Len(SubSeq(s, 1, Len(s) - 1)) = IF 1 <= Len(s) - 1 THEN Len(s) - 1 - 1 + 1 ELSE 0
      /\ \A i \in 1..(Len(s) - 1 - 1 + 1) : SubSeq(s, 1, Len(s) - 1)[i] = s[1 + i - 1]
  BY <1>1, <1>3, SubSeqProperties
<1>5. Len(SubSeq(s, 1, Len(s) - 1)) = Len(s) - 1
  BY <1>1, <1>4
<1>6. \A i \in 1..(Len(s) - 1) : SubSeq(s, 1, Len(s) - 1)[i] = s[i]
  BY <1>1, <1>4
<1>7. DOMAIN SubSeq(s, 1, Len(s) - 1) = 1..(Len(s) - 1)
  BY <1>4, <1>5, LenProperties
<1> QED BY <1>1, <1>2, <1>4, <1>5, <1>6, <1>7

\* A task of the plan has an id.
LEMMA PlanIds ==
    ASSUME TypeOK, NEW i \in 1..Len(plan)
    PROVE  plan[i].id \in Id
<1>1. plan[i] \in [id: Id, deps: SUBSET Id]
  BY ElementOfSeq DEF TypeOK
<1> QED BY <1>1

LEMMA NextTask ==
    ASSUME TypeOK, VisitTask
    PROVE  next \in 1..Len(plan) /\ plan[next].id \in Id /\ Len(plan) \in Nat
<1>1. Len(plan) \in Nat
  BY LenProperties DEF TypeOK
<1>2. next \in 1..Len(plan)
  BY <1>1 DEF TypeOK, VisitTask
<1> QED BY <1>1, <1>2, PlanIds

LEMMA TypeInit == Init => TypeOK
<1> SUFFICES ASSUME Init PROVE TypeOK
  OBVIOUS
<1>1. plan \in Seq([id: Id, deps: SUBSET Id])
  BY PlanAssumption DEF Init
<1>2. IsFiniteSet(visited)
  BY FS_EmptySet DEF Init
<1> QED BY <1>1, <1>2 DEF Init, TypeOK

LEMMA TypeNext == TypeOK /\ [Next]_vars => TypeOK'
<1> SUFFICES ASSUME TypeOK, [Next]_vars PROVE TypeOK'
  OBVIOUS
<1> USE DEF TypeOK
<1>1. CASE VisitTask
  <2>1. next \in 1..Len(plan) /\ plan[next].id \in Id /\ Len(plan) \in Nat
    BY <1>1, NextTask
  <2>2. next' \in 1..(Len(plan) + 1) /\ plan' = plan
    BY <1>1, <2>1 DEF VisitTask, Enter
  <2>3. path \in Seq(Id) /\ Append(path, plan[next].id) \in Seq(Id)
    BY <2>1, Push
  <2>5. path' \in Seq(Id)
    BY <1>1, <2>3 DEF VisitTask, Enter
  <2>4. visited' = visited /\ verdict' = verdict /\ rank' = rank
    BY <1>1 DEF VisitTask, Enter
  <2> QED BY <2>2, <2>4, <2>5
<1>2. CASE VisitDependency
  <2>1. PICK d \in DependenciesOf(Top) : Enter(d)
    BY <1>2 DEF VisitDependency
  <2>2. d \in Id
    BY DEF DependenciesOf
  <2> QED BY <1>2, <2>1, <2>2 DEF VisitDependency, Enter
<1>3. CASE Reject  BY <1>3 DEF Reject
<1>4. CASE Return
  <2>1. Top \in Id /\ path' \in Seq(Id)
    BY <1>4, Pop DEF Return, Top
  <2>3. IsFiniteSet(visited') /\ Cardinality(visited) \in Nat
    BY <1>4, FS_AddElement, FS_CardinalityType DEF Return
  <2> QED BY <1>4, <2>1, <2>3 DEF Return
<1>5. CASE Accept  BY <1>5 DEF Accept
<1>6. CASE UNCHANGED vars  BY <1>6 DEF vars
<1> QED BY <1>1, <1>2, <1>3, <1>4, <1>5, <1>6 DEF Next, Step, Done

\* The stack holds ids of the search, and nothing else is ever visited.
THEOREM TypeCorrect == Spec => []TypeOK
BY TypeInit, TypeNext, PTL DEF Spec

-----------------------------------------------------------------------------

\* The steps leave the plan alone, and with it the orders it admits.
LEMMA OrdersStable ==
    ASSUME plan' = plan, NEW f
    PROVE  Orders(f)' <=> Orders(f)
BY DEF Orders, TaskIds, DependenciesOf, Named

\* An order descends from the id on top of the stack to its dependencies.
LEMMA StepDown ==
    ASSUME NEW f, Orders(f), NEW id, NEW d \in DependenciesOf(id)
    PROVE  f[d] < f[id]
<1>1. PICK i \in Named(id) : d \in plan[i].deps
  BY DEF DependenciesOf
<1>2. id \in TaskIds
  BY <1>1 DEF Named, TaskIds
<1> QED BY <1>2 DEF Orders

LEMMA InvInit == Init => IInv
BY TypeInit DEF Init, IInv, StackIsDistinct, StackDescends, VisitedAreOrdered, TasksCovered,
                SearchedAll, RejectedIsCyclic

\* A call below the top of the stack, or an outermost one, keeps the stack descending.
LEMMA EnterInv ==
    ASSUME IInv, TypeOK', NEW id \in Id, Enter(id),
           path = <<>> \/ id \in DependenciesOf(Top)
    PROVE  StackIsDistinct' /\ StackDescends' /\ VisitedAreOrdered'
<1>1. /\ Len(path) \in Nat /\ Len(path') = Len(path) + 1
      /\ DOMAIN path = 1..Len(path) /\ DOMAIN path' = 1..(Len(path) + 1)
      /\ path'[Len(path) + 1] = id
      /\ \A i \in 1..Len(path) : path'[i] = path[i]
  BY Push DEF IInv, TypeOK, Enter
<1>2. VisitedAreOrdered'
  BY DEF VisitedAreOrdered, IInv, Enter, DependenciesOf, Named
<1>3. \A i \in DOMAIN path : path[i] \in Id
  BY <1>1, ElementOfSeq DEF IInv, TypeOK
<1>4. StackDescends'
  <2>0. plan' = plan
    BY DEF Enter
  <2> SUFFICES ASSUME NEW f \in [Id -> Turn], Orders(f),
                      NEW i \in DOMAIN path', NEW j \in DOMAIN path', i < j
               PROVE  f[path'[j]] < f[path'[i]]
    BY <2>0, OrdersStable DEF StackDescends
  <2>1. i \in 1..Len(path) /\ path'[i] = path[i]
    BY <1>1
  <2>2. CASE j \in 1..Len(path)
    BY <1>1, <2>1, <2>2 DEF IInv, StackDescends
  <2>3. CASE j = Len(path) + 1
    <3>1. path # <<>>
      BY <2>1, EmptySeq
    <3>2. f[id] < f[path[Len(path)]]
      BY <3>1, StepDown DEF Top
    <3>3. CASE i = Len(path)
      BY <1>1, <2>1, <2>3, <3>2, <3>3
    <3>4. CASE i < Len(path)
      <4>1. Len(path) \in DOMAIN path /\ i \in DOMAIN path
        BY <1>1, <2>1
      <4>2. f[path[Len(path)]] < f[path[i]]
        BY <3>4, <4>1 DEF IInv, StackDescends
      <4>3. f[id] \in Nat /\ f[path[Len(path)]] \in Nat /\ f[path[i]] \in Nat
        BY <1>3, <4>1, TurnAssumption
      <4> QED BY <1>1, <2>1, <2>3, <3>2, <4>2, <4>3
    <3> QED BY <1>1, <2>1, <3>3, <3>4
  <2> QED BY <1>1, <2>2, <2>3
<1>5. \A i \in DOMAIN path' : path'[i] \notin visited'
  <2> SUFFICES ASSUME NEW i \in 1..(Len(path) + 1) PROVE path'[i] \notin visited
    BY <1>1 DEF Enter
  <2>1. CASE i = Len(path) + 1
    BY <1>1, <2>1 DEF Enter
  <2>2. CASE i \in 1..Len(path)
    BY <1>1, <2>2 DEF IInv, StackIsDistinct
  <2> QED BY <1>1, <2>1, <2>2
<1>6. ASSUME NEW i \in DOMAIN path', NEW j \in DOMAIN path', path'[i] = path'[j]
      PROVE  i = j
  <2>1. \A k \in 1..Len(path) : path[k] # id
    BY <1>1 DEF Enter, OnStack
  <2>2. CASE i \in 1..Len(path) /\ j \in 1..Len(path)
    BY <1>1, <1>6, <2>2 DEF IInv, StackIsDistinct
  <2>3. CASE i = Len(path) + 1 \/ j = Len(path) + 1
    BY <1>1, <1>6, <2>1, <2>3
  <2> QED BY <1>1, <2>2, <2>3
<1> QED BY <1>2, <1>4, <1>5, <1>6 DEF StackIsDistinct

LEMMA InvNext == IInv /\ [Next]_vars => IInv'
<1> SUFFICES ASSUME IInv, [Next]_vars PROVE IInv'
  OBVIOUS
<1>0. TypeOK'
  BY TypeNext DEF IInv
<1>1. CASE VisitTask
  <2>1. CASE Enter(plan[next].id)
    <3>1. next \in 1..Len(plan) /\ plan[next].id \in Id /\ Len(plan) \in Nat
      BY <1>1, NextTask DEF IInv
    <3>2. StackIsDistinct' /\ StackDescends' /\ VisitedAreOrdered'
      BY <1>0, <1>1, <2>1, <3>1, EnterInv DEF VisitTask
    <3>3. SearchedAll'
      BY <1>1, <2>1 DEF VisitTask, Enter, SearchedAll
    <3>4. /\ path = <<>> /\ next' = next + 1 /\ plan' = plan /\ visited' = visited
          /\ path' = Append(path, plan[next].id) /\ path \in Seq(Id)
      BY <1>1, <2>1 DEF VisitTask, Enter, IInv, TypeOK
    <3>5. 1 \in DOMAIN path' /\ path'[1] = plan[next].id
      BY <3>1, <3>4, Push, EmptySeq
    <3>6. ASSUME NEW i \in DOMAIN plan, i < next + 1
          PROVE  plan[i].id \in visited \/ OnStack(plan[i].id)'
      <4>1. CASE i = next
        BY <3>4, <3>5, <4>1 DEF OnStack
      <4>2. CASE i < next
        BY <3>4, <4>2, EmptySeq DEF IInv, TasksCovered, OnStack
      <4> QED BY <3>1, <3>6, <4>1, <4>2, LenProperties DEF IInv, TypeOK
    <3>7. TasksCovered'
      BY <3>4, <3>6 DEF TasksCovered
    <3>8. RejectedIsCyclic'
      BY <1>1, <2>1, OrdersStable DEF VisitTask, Enter, IInv, RejectedIsCyclic
    <3> QED BY <1>0, <3>2, <3>3, <3>7, <3>8 DEF IInv
  <2>2. CASE plan[next].id \in visited /\ UNCHANGED <<plan, path, visited, verdict, rank>>
    <3>1. plan' = plan /\ path' = path
      BY <2>2
    <3>2. StackIsDistinct' /\ VisitedAreOrdered' /\ TasksCovered' /\ SearchedAll'
      BY <1>0, <1>1, <2>2 DEF VisitTask, IInv, TypeOK, StackIsDistinct, VisitedAreOrdered,
                              TasksCovered, SearchedAll, OnStack, DependenciesOf, Named
    <3>3. StackDescends' /\ RejectedIsCyclic'
      BY <2>2, <3>1, OrdersStable DEF IInv, StackDescends, RejectedIsCyclic
    <3> QED BY <1>0, <3>2, <3>3 DEF IInv
  <2> QED BY <1>1, <2>1, <2>2 DEF VisitTask
<1>2. CASE VisitDependency
  <2>1. PICK d \in DependenciesOf(Top) : Enter(d)
    BY <1>2 DEF VisitDependency
  <2>2. d \in Id
    BY DEF DependenciesOf
  <2>3. StackIsDistinct' /\ StackDescends' /\ VisitedAreOrdered'
    BY <1>0, <2>1, <2>2, EnterInv
  <2>4. SearchedAll'
    BY <1>2, <2>1 DEF VisitDependency, Enter, SearchedAll
  <2>5. \A i \in DOMAIN path : i \in DOMAIN path' /\ path'[i] = path[i]
    BY <2>1, <2>2 DEF Enter, IInv, TypeOK
  <2>6. TasksCovered'
    BY <1>2, <2>1, <2>5 DEF VisitDependency, Enter, TasksCovered, OnStack, IInv
  <2>7. RejectedIsCyclic'
    BY <1>2, <2>1, OrdersStable DEF VisitDependency, Enter, IInv, RejectedIsCyclic
  <2> QED BY <1>0, <2>3, <2>4, <2>6, <2>7 DEF IInv
<1>3. CASE Reject
  <2>1. plan' = plan /\ path' = path
    BY <1>3 DEF Reject
  <2>2. TypeOK' /\ StackIsDistinct' /\ VisitedAreOrdered' /\ TasksCovered' /\ SearchedAll'
    BY <1>0, <1>3 DEF Reject, IInv, StackIsDistinct, VisitedAreOrdered, TasksCovered,
                      SearchedAll, OnStack, DependenciesOf, Named
  <2>3. StackDescends'
    BY <2>1, OrdersStable DEF IInv, StackDescends
  <2>4. RejectedIsCyclic'
    <3> SUFFICES ASSUME NEW f \in [Id -> Turn], Orders(f) PROVE FALSE
      BY <2>1, OrdersStable DEF RejectedIsCyclic
    <3>1. PICK d \in DependenciesOf(Top) : OnStack(d)
      BY <1>3 DEF Reject
    <3>2. PICK k \in DOMAIN path : path[k] = d
      BY <3>1 DEF OnStack
    <3>3. /\ Len(path) \in Nat \ {0} /\ DOMAIN path = 1..Len(path)
          /\ Top \in Id /\ path[Len(path)] = Top
      BY <1>3, Pop DEF Reject, Top, IInv, TypeOK
    <3>4. d \in Id /\ f[d] < f[Top]
      BY <3>1, StepDown DEF DependenciesOf
    <3>5. f[d] \in Nat /\ f[Top] \in Nat
      BY <3>3, <3>4, TurnAssumption
    <3>6. CASE k = Len(path)
      BY <3>2, <3>3, <3>4, <3>5, <3>6
    <3>7. CASE k < Len(path)
      <4>1. f[path[Len(path)]] < f[path[k]]
        BY <3>3, <3>7 DEF IInv, StackDescends
      <4> QED BY <3>2, <3>3, <3>4, <3>5, <4>1
    <3> QED BY <3>3, <3>6, <3>7
  <2> QED BY <2>2, <2>3, <2>4 DEF IInv
<1>4. CASE Return
  <2>1. /\ Len(path) \in Nat \ {0} /\ Top \in Id
        /\ Len(path') = Len(path) - 1
        /\ DOMAIN path = 1..Len(path) /\ DOMAIN path' = 1..(Len(path) - 1)
        /\ \A i \in 1..(Len(path) - 1) : path'[i] = path[i]
    BY <1>4, Pop DEF Return, Top, IInv, TypeOK
  <2>0. Top \notin visited
    BY <2>1 DEF Top, IInv, StackIsDistinct
  <2>2. /\ Cardinality(visited) \in Nat
        /\ Cardinality(visited') = Cardinality(visited) + 1
    BY <1>4, <2>0, FS_AddElement, FS_CardinalityType DEF Return, IInv, TypeOK
  <2>3. \A i \in 1..(Len(path) - 1) : path[i] # Top
    BY <2>1 DEF Top, IInv, StackIsDistinct
  <2>8. \A x : DependenciesOf(x)' = DependenciesOf(x)
    BY <1>4 DEF Return, DependenciesOf, Named
  <2>4. StackIsDistinct'
    <3>2. \A i \in DOMAIN path' : path'[i] \notin visited'
      BY <1>4, <2>1, <2>3 DEF Return, IInv, StackIsDistinct
    <3>3. \A i, j \in DOMAIN path' : path'[i] = path'[j] => i = j
      BY <2>1 DEF IInv, StackIsDistinct
    <3> QED BY <3>2, <3>3 DEF StackIsDistinct
  <2>9. StackDescends'
    <3>1. plan' = plan
      BY <1>4 DEF Return
    <3> SUFFICES ASSUME NEW f \in [Id -> Turn], Orders(f),
                        NEW i \in DOMAIN path', NEW j \in DOMAIN path', i < j
                 PROVE  f[path'[j]] < f[path'[i]]
      BY <3>1, OrdersStable DEF StackDescends
    <3>2. i \in DOMAIN path /\ j \in DOMAIN path /\ path'[i] = path[i] /\ path'[j] = path[j]
      BY <2>1
    <3> QED BY <3>2 DEF IInv, StackDescends
  <2>10. RejectedIsCyclic'
    BY <1>4, OrdersStable DEF Return, IInv, RejectedIsCyclic
  <2>5. VisitedAreOrdered'
    <3>1. /\ rank'[Top] = Cardinality(visited)
          /\ \A id \in visited : rank'[id] = rank[id] /\ rank[id] \in Nat
      BY <1>4, <2>0, <2>1 DEF Return, IInv, TypeOK
    <3>2. ASSUME NEW id \in visited
          PROVE  /\ rank'[id] < Cardinality(visited')
                 /\ \A d \in DependenciesOf(id) : d \in visited' /\ rank'[d] < rank'[id]
      BY <1>4, <2>2, <3>1 DEF Return, IInv, VisitedAreOrdered
    <3>3. /\ rank'[Top] < Cardinality(visited')
          /\ \A d \in DependenciesOf(Top) : d \in visited' /\ rank'[d] < rank'[Top]
      BY <1>4, <2>2, <3>1 DEF Return, IInv, VisitedAreOrdered
    <3>4. visited' = visited \cup {Top}
      BY <1>4 DEF Return
    <3> QED BY <2>8, <3>2, <3>3, <3>4 DEF VisitedAreOrdered
  <2>6. TasksCovered'
    <3> SUFFICES ASSUME NEW i \in DOMAIN plan, i < next
                 PROVE  plan[i].id \in visited' \/ OnStack(plan[i].id)'
      BY <1>4 DEF Return, TasksCovered
    <3>1. CASE plan[i].id \in visited
      BY <1>4, <3>1 DEF Return
    <3>2. CASE OnStack(plan[i].id)
      <4>1. PICK k \in DOMAIN path : path[k] = plan[i].id
        BY <3>2 DEF OnStack
      <4>2. CASE k = Len(path)
        BY <1>4, <4>1, <4>2 DEF Return, Top
      <4>3. CASE k # Len(path)
        <5>1. k \in 1..(Len(path) - 1)
          BY <2>1, <4>1, <4>3
        <5>2. k \in DOMAIN path' /\ path'[k] = path[k]
          BY <2>1, <5>1
        <5>3. plan'[i].id = plan[i].id
          BY <1>4 DEF Return
        <5> QED BY <4>1, <5>2, <5>3 DEF OnStack
      <4> QED BY <4>2, <4>3
    <3> QED BY <3>1, <3>2 DEF IInv, TasksCovered
  <2>7. SearchedAll'
    BY <1>4 DEF Return, SearchedAll
  <2> QED BY <1>0, <2>4, <2>5, <2>6, <2>7, <2>9, <2>10 DEF IInv
<1>5. CASE Accept
  <2>1. plan' = plan /\ path' = path
    BY <1>5 DEF Accept
  <2>2. StackIsDistinct' /\ VisitedAreOrdered' /\ TasksCovered' /\ SearchedAll'
    BY <1>0, <1>5 DEF Accept, IInv, StackIsDistinct, VisitedAreOrdered, TasksCovered,
                      SearchedAll, OnStack, DependenciesOf, Named
  <2>3. StackDescends' /\ RejectedIsCyclic'
    BY <1>5, <2>1, OrdersStable DEF Accept, IInv, StackDescends, RejectedIsCyclic
  <2> QED BY <1>0, <2>2, <2>3 DEF IInv
<1>6. CASE UNCHANGED vars
  <2>1. plan' = plan /\ path' = path
    BY <1>6 DEF vars
  <2>2. StackIsDistinct' /\ VisitedAreOrdered' /\ TasksCovered' /\ SearchedAll'
    BY <1>0, <1>6 DEF vars, IInv, StackIsDistinct, VisitedAreOrdered, TasksCovered,
                      SearchedAll, OnStack, DependenciesOf, Named
  <2>3. StackDescends' /\ RejectedIsCyclic'
    BY <1>6, <2>1, OrdersStable DEF vars, IInv, StackDescends, RejectedIsCyclic
  <2> QED BY <1>0, <2>2, <2>3 DEF IInv
<1> QED BY <1>1, <1>2, <1>3, <1>4, <1>5, <1>6 DEF Next, Step, Done

\* The stack descends in every order of the plan and what left it is ordered.
THEOREM Invariance == Spec => []IInv
BY InvInit, InvNext, PTL DEF Spec

\* An accepted plan has an order that puts every dependency first.
THEOREM AcceptedPlansAreOrdered == Spec => []AcceptedIsOrdered
<1>1. IInv => AcceptedIsOrdered
  <2> SUFFICES ASSUME IInv, verdict = "accepted", NEW id \in TaskIds,
                      NEW d \in DependenciesOf(id)
               PROVE  rank[d] < rank[id]
    BY DEF AcceptedIsOrdered, Orders
  <2>1. PICK i \in DOMAIN plan : plan[i].id = id
    BY DEF TaskIds
  <2>2. i < next /\ path = <<>>
    BY DEF IInv, SearchedAll, TypeOK
  <2>3. id \in visited
    BY <2>1, <2>2 DEF IInv, TasksCovered, OnStack
  <2> QED BY <2>3 DEF IInv, VisitedAreOrdered
<1> QED BY <1>1, Invariance, PTL

\* A rejected plan has no order that puts every dependency first.
THEOREM RejectedPlansAreCyclic == Spec => []RejectedIsCyclic
<1>1. IInv => RejectedIsCyclic
  BY DEF IInv
<1> QED BY <1>1, Invariance, PTL
-----------------------------------------------------------------------------
(* The search ends.                                                          *)

\* Visits of the outer loop, calls and returns of dfs, and the verdict still to come.
StepsLeft ==
    Len(plan) + 1 - next + 2 * Cardinality(Id \ visited) - Len(path)
        + (IF verdict = "running" THEN 1 ELSE 0)

\* The ids on the stack are some of those not visited yet.
LEMMA StackFits ==
    ASSUME IInv, IsFiniteSet(Id)
    PROVE  /\ IsFiniteSet(Id \ visited)
           /\ Cardinality(Id \ visited) \in Nat
           /\ Len(path) \in Nat /\ Len(plan) \in Nat
           /\ Len(path) <= Cardinality(Id \ visited)
<1>1. Len(path) \in Nat /\ Len(plan) \in Nat /\ DOMAIN path = 1..Len(path)
  BY LenProperties DEF IInv, TypeOK
<1>2. IsFiniteSet(Id \ visited) /\ Cardinality(Id \ visited) \in Nat
  BY FS_Subset, FS_CardinalityType
<1>3. \A i \in 1..Len(path) : path[i] \in Id \ visited
  BY <1>1, ElementOfSeq DEF IInv, TypeOK, StackIsDistinct
<1>4. path \in Injection(1..Len(path), Id \ visited)
  <2>1. path \in [1..Len(path) -> Id]
    BY LenProperties DEF IInv, TypeOK
  <2>2. path \in [1..Len(path) -> Id \ visited]
    BY <1>3, <2>1
  <2> QED BY <1>1, <2>2 DEF Injection, IsInjective, IInv, StackIsDistinct
<1>5. Cardinality(1..Len(path)) <= Cardinality(Id \ visited)
  BY <1>2, <1>4, FS_Injection
<1>6. Cardinality(1..Len(path)) = Len(path)
  <2>1. 1 \in Int /\ Len(path) \in Int
    BY <1>1
  <2>2. Cardinality(1..Len(path)) = IF 1 > Len(path) THEN 0 ELSE Len(path) - 1 + 1
    BY <2>1, FS_Interval
  <2> QED BY <1>1, <2>2
<1> QED BY <1>1, <1>2, <1>5, <1>6

LEMMA StepsLeftTyped == ASSUME IInv, IsFiniteSet(Id) PROVE StepsLeft \in Nat
<1>1. next \in 1..(Len(plan) + 1)
  BY DEF IInv, TypeOK
<1> QED BY <1>1, StackFits DEF StepsLeft

LEMMA StepsDecrease ==
    ASSUME IInv, IsFiniteSet(Id), Step
    PROVE  StepsLeft' < StepsLeft
<1>1. next \in Nat /\ verdict = "running"
  BY DEF IInv, TypeOK, Step, VisitTask, VisitDependency, Reject, Return, Accept
<1>2. /\ Len(path) \in Nat /\ Len(plan) \in Nat /\ Cardinality(Id \ visited) \in Nat
      /\ IsFiniteSet(Id \ visited)
  BY StackFits
<1>3. ASSUME NEW id \in Id, Enter(id) PROVE Len(path') = Len(path) + 1
  BY <1>3, Push DEF Enter, IInv, TypeOK
<1>4. CASE VisitTask
  <2>1. plan[next].id \in Id
    BY <1>4, NextTask DEF IInv
  <2>2. /\ next' = next + 1 /\ plan' = plan /\ visited' = visited /\ verdict' = verdict
        /\ Len(path') = Len(path) \/ Len(path') = Len(path) + 1
    BY <1>3, <1>4, <2>1 DEF VisitTask, Enter
  <2> QED BY <1>1, <1>2, <2>2 DEF StepsLeft
<1>5. CASE VisitDependency
  <2>1. /\ next' = next /\ plan' = plan /\ visited' = visited /\ verdict' = verdict
        /\ Len(path') = Len(path) + 1
    BY <1>3, <1>5 DEF VisitDependency, Enter, DependenciesOf
  <2> QED BY <1>1, <1>2, <2>1 DEF StepsLeft
<1>6. CASE Return
  <2>1. Len(path') = Len(path) - 1 /\ Top \in Id /\ Len(path) \in DOMAIN path
    BY <1>6, Pop DEF Return, Top, IInv, TypeOK
  <2>2. Top \in Id \ visited
    BY <2>1 DEF Top, IInv, StackIsDistinct
  <2>3. Id \ visited' = (Id \ visited) \ {Top}
    BY <1>6 DEF Return
  <2>4. Cardinality(Id \ visited') = Cardinality(Id \ visited) - 1
    BY <1>2, <2>2, <2>3, FS_RemoveElement
  <2>5. next' = next /\ plan' = plan /\ verdict' = verdict
    BY <1>6 DEF Return
  <2> QED BY <1>1, <1>2, <2>1, <2>4, <2>5 DEF StepsLeft
<1>7. CASE Reject \/ Accept
  <2>1. /\ next' = next /\ plan' = plan /\ visited' = visited /\ path' = path
        /\ verdict' # "running"
    BY <1>7 DEF Reject, Accept
  <2> QED BY <1>1, <1>2, <2>1 DEF StepsLeft
<1> QED BY <1>4, <1>5, <1>6, <1>7 DEF Step

(* validateNoCycles: whatever the plan, its cycles and its ids, each task     *)
(* visited, call and return of dfs leaves fewer of them to come, so that the  *)
(* search takes at most Len(plan) + 2 * Cardinality(Id) + 1 steps.            *)
THEOREM SearchIsBounded ==
    ASSUME IsFiniteSet(Id)
    PROVE  Spec => /\ [](StepsLeft \in Nat)
                   /\ [][Step => StepsLeft' < StepsLeft]_vars
<1>1. IInv => StepsLeft \in Nat
  BY IsFiniteSet(Id), StepsLeftTyped
<1>2. IInv => [Step => StepsLeft' < StepsLeft]_vars
  BY IsFiniteSet(Id), StepsDecrease
<1> QED BY <1>1, <1>2, Invariance, PTL
=============================================================================
