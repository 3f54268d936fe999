--------------------------- MODULE AgentflowProofs ---------------------------
(* Loops of any flow, and every run of a flow without decisions, loops and   *)
(* questions, for any number of nodes, faults and iterations.                *)
EXTENDS Agentflow, FiniteSetTheorems, SequenceTheorems, WellFoundedInduction, TLAPS

----------------------------------------------------------------------------
(* Loops.                                                                    *)

LEMMA JumpsInit == ASSUME Init PROVE JumpsKnown
<1>1. flow \in Flows /\ flow.maxLoop \in Nat \ {0}
  BY FlowAssumption DEF Init, Flow
<1>2. /\ resumes = 0 /\ loops = [n \in Node |-> 0] /\ jumps = [n \in Node |-> 0]
  BY DEF Init
<1> QED BY <1>1, <1>2 DEF JumpsKnown

LEMMA JumpsNext == ASSUME JumpsKnown, [Next]_vars PROVE JumpsKnown'
<1> DEFINE most == flow.maxLoop - 1
<1>1. most \in Nat /\ resumes \in Nat
  BY FlowAssumption DEF JumpsKnown, Flow
<1>2. CASE UNCHANGED <<flow, resumes, loops, jumps>>
  BY <1>2 DEF JumpsKnown
<1>3. CASE Resume
  <2>1. /\ flow' = flow /\ resumes' = resumes + 1
        /\ loops' = [n \in Node |-> 0] /\ jumps' = jumps
    BY <1>3 DEF Resume, history
  <2>2. most * (resumes + 1) = most * resumes + most
    BY <1>1
  <2>3. most * resumes \in Nat
    BY <1>1
  <2>4. ASSUME NEW n \in Node PROVE jumps'[n] <= (flow'.maxLoop - 1) * resumes' + loops'[n]
    <3>1. jumps[n] <= most * resumes + loops[n] /\ loops[n] <= most
      BY DEF JumpsKnown
    <3>2. jumps[n] \in Nat /\ loops[n] \in Nat
      BY DEF JumpsKnown
    <3>3. jumps[n] <= most * resumes + most
      BY <1>1, <2>3, <3>1, <3>2
    <3> QED BY <1>1, <2>1, <2>2, <3>2, <3>3
  <2> QED BY <1>1, <2>1, <2>4 DEF JumpsKnown
<1>4. ASSUME NEW out \in Out, Finish(out) PROVE JumpsKnown'
  <2>1. flow' = flow /\ resumes' = resumes
    BY <1>4 DEF Finish, bounds
  <2>2. /\ loops' = [loops EXCEPT ![cur] = IF LoopsBack(cur) THEN @ + 1 ELSE @]
        /\ jumps' = [jumps EXCEPT ![cur] = IF LoopsBack(cur) THEN @ + 1 ELSE @]
    BY <1>4 DEF Finish, ProcessNodeOutputs
  <2>3. LoopsBack(cur) => loops[cur] + 1 < flow.maxLoop
    BY DEF LoopsBack
  <2>4. most * resumes \in Nat /\ flow.maxLoop \in Nat
    BY <1>1, FlowAssumption DEF JumpsKnown, Flow
  <2>5. ASSUME NEW n \in Node
        PROVE  /\ loops'[n] \in Nat /\ jumps'[n] \in Nat
               /\ loops'[n] <= most
               /\ jumps'[n] <= most * resumes + loops'[n]
    <3>1. /\ loops[n] \in Nat /\ jumps[n] \in Nat /\ loops[n] <= most
          /\ jumps[n] <= most * resumes + loops[n]
      BY DEF JumpsKnown
    <3>2. CASE n = cur /\ LoopsBack(cur)
      <4>1. loops'[n] = loops[n] + 1 /\ jumps'[n] = jumps[n] + 1
        BY <2>2, <3>2 DEF JumpsKnown
      <4> HIDE DEF most
      <4>2. loops[n] + 1 <= most
        BY <2>3, <2>4, <3>1, <3>2 DEF most
      <4> QED BY <1>1, <2>4, <3>1, <4>1, <4>2
    <3>3. CASE ~(n = cur /\ LoopsBack(cur))
      <4>1. loops'[n] = loops[n] /\ jumps'[n] = jumps[n]
        BY <2>2, <3>3 DEF JumpsKnown
      <4> QED BY <3>1, <4>1
    <3> QED BY <3>2, <3>3
  <2>6. loops' \in [Node -> Nat] /\ jumps' \in [Node -> Nat]
    BY <2>2, <2>5 DEF JumpsKnown
  <2> QED BY <2>1, <2>5, <2>6 DEF JumpsKnown
<1>5. CASE Start \/ Fail \/ Abort \/ Crash
  BY <1>2, <1>5 DEF Start, Fail, Abort, Crash, engine, bounds, history
<1>6. CASE ReachIterationLimit \/ TakeNode \/ TakeAborted \/ EndRun
  BY <1>2, <1>6 DEF ReachIterationLimit, TakeNode, TakeAborted, EndRun, engine, bounds, history
<1>7. CASE Stop \/ FailAborted \/ ItemFails
  BY <1>2, <1>7 DEF Stop, FailAborted, ItemFails, engine, bounds, history
<1>8. ASSUME NEW s \in {"FINISHED", "STOPPED"}, IterateItem(s) PROVE JumpsKnown'
  BY <1>2, <1>8 DEF IterateItem, bounds, history
<1>9. CASE UNCHANGED vars
  BY <1>2, <1>9 DEF vars, engine, bounds, history
<1> QED BY <1>3, <1>4, <1>5, <1>6, <1>7, <1>8, <1>9 DEF Next, Run

(* processNodeOutputs: whatever a flow looks like and however its loops are  *)
(* nested, a loop node leads back less often than its maximum in each call   *)
(* of executeAgentFlow.                                                      *)
THEOREM LoopsAreBounded == Spec => []LoopBound
<1>1. JumpsKnown => LoopBound
  <2> SUFFICES ASSUME JumpsKnown, NEW n \in Node
               PROVE  jumps[n] <= (flow.maxLoop - 1) * (resumes + 1)
    BY DEF LoopBound
  <2> DEFINE most == flow.maxLoop - 1
  <2>1. most \in Nat /\ resumes \in Nat
    BY FlowAssumption DEF JumpsKnown, Flow
  <2>2. /\ jumps[n] \in Nat /\ loops[n] \in Nat /\ loops[n] <= most
        /\ jumps[n] <= most * resumes + loops[n]
    BY DEF JumpsKnown
  <2> HIDE DEF most
  <2>3. most * (resumes + 1) = most * resumes + most
    BY <2>1
  <2>4. most * resumes \in Nat
    BY <2>1
  <2>5. jumps[n] <= most * resumes + most
    BY <2>1, <2>2, <2>4
  <2> QED BY <2>3, <2>5 DEF most
<1> QED BY <1>1, JumpsInit, JumpsNext, PTL DEF Spec
----------------------------------------------------------------------------
(* Flows without decisions, loops and questions.                             *)

LEMMA Least == ASSUME NEW T, T \subseteq Nat, T # {} PROVE \E x \in T : \A y \in T : x <= y
<1>1. \E x \in T : \A y \in T : <<y, x>> \notin OpToRel(<, Nat)
  BY NatLessThanWellFounded, WFMin
<1>2. ASSUME NEW x \in T, NEW y \in T, <<y, x>> \notin OpToRel(<, Nat) PROVE x <= y
  BY <1>2 DEF OpToRel
<1> QED BY <1>1, <1>2

\* The sequences that SetToSeqs makes of a set hold each element once.
LEMMA Listed ==
    ASSUME NEW S, IsFiniteSet(S), NEW f \in SetToSeqs(S)
    PROVE  /\ f \in Seq(S)
           /\ \A s \in S : \E i \in DOMAIN f : f[i] = s
           /\ \A i, j \in DOMAIN f : f[i] = f[j] => i = j
<1> DEFINE D == 1 .. Cardinality(S)
<1>1. Cardinality(S) \in Nat
  BY FS_CardinalityType
<1>2. f \in [D -> S] /\ \A i, j \in D : i # j => f[i] # f[j]
  BY DEF SetToSeqs
<1>3. IsFiniteSet(D) /\ Cardinality(D) = Cardinality(S)
  BY <1>1, FS_Interval
<1>4. f \in Injection(D, S)
  BY <1>2 DEF Injection, IsInjective
<1>5. f \in Surjection(D, S)
  BY <1>3, <1>4, FS_Injection
<1>6. \A s \in S : \E i \in D : f[i] = s
  BY <1>5 DEF Surjection
<1> QED BY <1>1, <1>2, <1>6

LEMMA EdgesKnown ==
    ASSUME NEW f \in Flows, NEW i \in DOMAIN f.edges
    PROVE  f.edges[i].from \in Node /\ f.edges[i].to \in Node
<1>1. f.edges \in Seq(Edge)
  BY FlowAssumption DEF Flow
<1>2. f.edges[i] \in Edge
  BY <1>1
<1> QED BY <1>2 DEF Edge

LEMMA SourcesInNode == ASSUME NEW f \in Flows, NEW n \in Node PROVE Sources(f, n) \subseteq Node
BY EdgesKnown DEF Sources

\* Exactly one node has no inputs.
LEMMA OneRoot ==
    ASSUME flow \in Flows
    PROVE  /\ Root \in Node /\ Sources(flow, Root) = {}
           /\ \A n \in Node \ {Root} : Sources(flow, n) # {}
<1> DEFINE R == {n \in Node : Sources(flow, n) = {}}
<1>1. Cardinality(R) = 1
  BY FlowAssumption DEF IsFlow
<1>2. IsFiniteSet(R)
  BY FlowAssumption, FS_Subset
<1>3. PICK n \in R : R = {n}
  BY <1>1, <1>2, FS_Singleton
<1>4. Root \in R
  BY <1>3 DEF Root
<1> QED BY <1>3, <1>4

\* Without decisions a node waits for all its sources and hands on to all nodes
\* it is a source of.
LEMMA NoDecisions ==
    ASSUME PlainFlows, flow \in Flows
    PROVE  \A n \in Node :
               /\ ~ Decides(flow, n) /\ ~ LoopsBack(n)
               /\ flow.kind[n] \in {"plain", "iteration"} /\ n \notin flow.asks
               /\ \A received : HasReceivedRequiredInputs(n, received)
                                    <=> Sources(flow, n) \subseteq received
               /\ \A out : Children(n, out) = {c \in Node : n \in Sources(flow, c)}
<1>1. ASSUME NEW n \in Node
      PROVE  /\ flow.kind[n] \in {"plain", "iteration"} /\ n \notin flow.asks
             /\ ~ Decides(flow, n) /\ ~ LoopsBack(n)
  BY <1>1 DEF PlainFlows, Decides, LoopsBack
<1>2. {m \in Node : Decides(flow, m)} = {}
  BY <1>1
<1>3. \A n : ConditionParent(n) = NoNode
  BY <1>2 DEF ConditionParent
<1>4. ASSUME NEW n \in Node, NEW received
      PROVE  HasReceivedRequiredInputs(n, received) <=> Sources(flow, n) \subseteq received
  BY <1>3 DEF HasReceivedRequiredInputs, ExpectedInputs
<1>5. ASSUME NEW n \in Node, NEW out
      PROVE  Children(n, out) = {c \in Node : n \in Sources(flow, c)}
  <2>1. Ignored(n, out) = {}
    BY <1>1 DEF Ignored
  <2>2. \A i \in DOMAIN flow.edges : flow.edges[i].to \in Node
    BY EdgesKnown
  <2> QED BY <2>1, <2>2 DEF Children, Sources
<1> QED BY <1>1, <1>4, <1>5

\* What Finish does then: every node that has all its inputs now is queued.
NowReady ==
    {c \in Node : cur \in Sources(flow, c) /\ Sources(flow, c) \subseteq waiting[c] \cup {cur}}

LEMMA FinishPlain ==
    ASSUME PlainFlows, PlainInv, NEW out \in Out, Finish(out)
    PROVE  /\ out = 1 /\ pc = "node" /\ pc' = "loop"
           /\ flow' = flow /\ cur' = cur /\ row' = row /\ human' = NoNode
           /\ data' = Append(data, Rec(cur, "FINISHED"))
           /\ taken' = [taken EXCEPT ![cur][1] = @ + 1]
           /\ waiting' = [c \in Node |->
                             IF c \in NowReady THEN {}
                             ELSE IF cur \in Sources(flow, c) THEN waiting[c] \cup {cur}
                             ELSE waiting[c]]
           /\ \E ready \in SetToSeqs(NowReady) : queue' = queue \o ready
<1>1. /\ flow \in Flows /\ pc = "node" /\ cur \in Node /\ human = NoNode
      /\ queue \in Seq(Node)
  BY DEF Finish, PlainInv, PlainTyped
<1>2. NoNode \notin Node
  BY FlowAssumption
<1>3. ~ Decides(flow, cur) /\ ~ LoopsBack(cur)
  BY <1>1, NoDecisions
<1>4. out = 1
  BY <1>3 DEF Finish
<1>5. Children(cur, out) = {c \in Node : cur \in Sources(flow, c)}
  BY <1>1, NoDecisions
<1>6. ReadyChildren(cur, out) = NowReady
  BY <1>1, <1>5, NoDecisions DEF ReadyChildren, Received, NowReady
<1>7. DataBefore = data
  BY <1>1, <1>2 DEF DataBefore
<1>8. ProcessNodeOutputs(cur, out)
  BY DEF Finish
<1>9. PICK ready \in SetToSeqs(NowReady) : queue' = queue \o ready \o <<>>
  BY <1>3, <1>6, <1>8 DEF ProcessNodeOutputs
<1>10. queue' = queue \o ready
  <2>1. IsFiniteSet(NowReady) /\ NowReady \subseteq Node
    BY FlowAssumption, FS_Subset DEF NowReady
  <2>2. ready \in Seq(Node)
    BY <2>1, Listed, SeqMonotonic
  <2>3. queue \o ready \in Seq(Node)
    BY <1>1, <2>2, ConcatProperties
  <2> QED BY <1>9, <2>3, ConcatEmptySeq
<1>11. waiting' = [c \in Node |->
                     IF c \in NowReady THEN {}
                     ELSE IF cur \in Sources(flow, c) THEN waiting[c] \cup {cur}
                     ELSE waiting[c]]
  BY <1>5, <1>6, <1>8 DEF ProcessNodeOutputs, Received
<1>12. taken' = [taken EXCEPT ![cur][1] = @ + 1]
  BY <1>4, <1>8 DEF ProcessNodeOutputs
<1>13. /\ pc' = "loop" /\ flow' = flow /\ cur' = cur /\ row' = row /\ human' = NoNode
       /\ data' = Append(data, Rec(cur, "FINISHED"))
  BY <1>1, <1>3, <1>7 DEF Finish
<1> QED BY <1>1, <1>4, <1>10, <1>11, <1>12, <1>13

LEMMA RanCounts ==
    ASSUME taken \in [Node -> [Out -> Nat]], NEW m \in Node, NEW o \in Out,
           taken' = [taken EXCEPT ![m][o] = @ + 1]
    PROVE  /\ taken' \in [Node -> [Out -> Nat]]
           /\ \A n \in Node : /\ Ran(n) \in Nat
                              /\ Ran(n)' = IF n = m THEN Ran(n) + 1 ELSE Ran(n)
<1>1. Out = {0, 1, 2}
  BY DEF Out
<1>2. ASSUME NEW n \in Node
      PROVE  taken[n][0] \in Nat /\ taken[n][1] \in Nat /\ taken[n][2] \in Nat
  BY <1>1
<1>3. taken' \in [Node -> [Out -> Nat]]
  BY <1>1
<1>4. ASSUME NEW n \in Node, n # m PROVE taken'[n] = taken[n]
  BY <1>4
<1>5. \A p \in Out : taken'[m][p] = IF p = o THEN taken[m][p] + 1 ELSE taken[m][p]
  OBVIOUS
<1>7. ASSUME NEW n \in Node
      PROVE  Ran(n) \in Nat /\ Ran(n)' = IF n = m THEN Ran(n) + 1 ELSE Ran(n)
  <2>1. Ran(n) \in Nat
    BY <1>2 DEF Ran
  <2>2. Ran(n)' = taken'[n][0] + taken'[n][1] + taken'[n][2]
    BY DEF Ran
  <2>3. Ran(n) = taken[n][0] + taken[n][1] + taken[n][2]
    BY DEF Ran
  <2>4. n # m => Ran(n)' = Ran(n)
    BY <1>4, <2>2, <2>3
  <2>5. ASSUME n = m PROVE Ran(n)' = Ran(n) + 1
    <3>1. \A x, y, z \in Nat :
             /\ (x + 1) + y + z = (x + y + z) + 1
             /\ x + (y + 1) + z = (x + y + z) + 1
             /\ x + y + (z + 1) = (x + y + z) + 1
      OBVIOUS
    <3>2. CASE o = 0
      BY <1>1, <1>2, <1>5, <2>2, <2>3, <2>5, <3>1, <3>2
    <3>3. CASE o = 1
      BY <1>1, <1>2, <1>5, <2>2, <2>3, <2>5, <3>1, <3>3
    <3>4. CASE o = 2
      BY <1>1, <1>2, <1>5, <2>2, <2>3, <2>5, <3>1, <3>4
    <3> QED BY <1>1, <3>2, <3>3, <3>4
  <2> QED BY <2>1, <2>4, <2>5
<1> QED BY <1>3, <1>7

\* Taking the head off the queue.
LEMMA TailQueue ==
    ASSUME queue \in Seq(Node), queue # <<>>, \A i, j \in DOMAIN queue : queue[i] = queue[j] => i = j
    PROVE  /\ Head(queue) \in Node /\ Queued(Head(queue)) /\ Tail(queue) \in Seq(Node)
           /\ \A n : (\E i \in DOMAIN Tail(queue) : Tail(queue)[i] = n)
                        <=> Queued(n) /\ n # Head(queue)
           /\ \A i, j \in DOMAIN Tail(queue) : Tail(queue)[i] = Tail(queue)[j] => i = j
<1>1. /\ Len(queue) \in Nat \ {0} /\ DOMAIN queue = 1 .. Len(queue)
      /\ Head(queue) = queue[1] /\ Head(queue) \in Node
  OBVIOUS
<1>2. /\ Tail(queue) \in Seq(Node) /\ DOMAIN Tail(queue) = 1 .. (Len(queue) - 1)
      /\ \A i \in 1 .. (Len(queue) - 1) : Tail(queue)[i] = queue[i + 1]
  BY HeadTailProperties
<1>3. ASSUME NEW n PROVE (\E i \in DOMAIN Tail(queue) : Tail(queue)[i] = n)
                            <=> Queued(n) /\ n # Head(queue)
  <2>1. ASSUME NEW i \in DOMAIN Tail(queue), Tail(queue)[i] = n
        PROVE  Queued(n) /\ n # Head(queue)
    <3>1. i + 1 \in DOMAIN queue /\ queue[i + 1] = n /\ i + 1 # 1 /\ 1 \in DOMAIN queue
      BY <1>1, <1>2, <2>1
    <3> QED BY <1>1, <3>1 DEF Queued
  <2>2. ASSUME NEW i \in DOMAIN queue, queue[i] = n, n # Head(queue)
        PROVE  \E j \in DOMAIN Tail(queue) : Tail(queue)[j] = n
    <3>1. i - 1 \in 1 .. (Len(queue) - 1) /\ (i - 1) + 1 = i
      BY <1>1, <2>2
    <3>2. Tail(queue)[i - 1] = n
      BY <1>2, <2>2, <3>1
    <3> QED BY <1>2, <3>1, <3>2
  <2> QED BY <2>1, <2>2 DEF Queued
<1>4. ASSUME NEW i \in DOMAIN Tail(queue), NEW j \in DOMAIN Tail(queue),
             Tail(queue)[i] = Tail(queue)[j]
      PROVE  i = j
  <2>1. i + 1 \in DOMAIN queue /\ j + 1 \in DOMAIN queue /\ queue[i + 1] = queue[j + 1]
    BY <1>1, <1>2, <1>4
  <2>2. i + 1 = j + 1
    BY <2>1
  <2> QED BY <1>2, <2>2
<1> QED BY <1>1, <1>2, <1>3, <1>4 DEF Queued

\* A run that ends, whatever the reason, leaves the nodes as they are.
LEMMA EndsPlain ==
    ASSUME PlainInv, pc # "idle", pc' = "idle", row'.state # "none",
           UNCHANGED <<flow, cur, waiting, human, taken>>,
           queue' = queue \/ (queue # <<>> /\ queue' = Tail(queue))
    PROVE  QueuedOnce' /\ WaitsForInput' /\ queue' \in Seq(Node)
<1>1. queue \in Seq(Node) /\ QueuedOnce
  BY DEF PlainInv, PlainTyped
<1>2. /\ queue' \in Seq(Node)
      /\ \A i, j \in DOMAIN queue' : queue'[i] = queue'[j] => i = j
      /\ \A n : (\E i \in DOMAIN queue' : queue'[i] = n) => Queued(n)
  <2>1. CASE queue' = queue
    BY <1>1, <2>1 DEF QueuedOnce, Queued
  <2>2. CASE queue # <<>> /\ queue' = Tail(queue)
    BY <1>1, <2>2, TailQueue DEF QueuedOnce
  <2> QED BY <2>1, <2>2
<1>3. \A n : Pending(n)' => Pending(n)
  BY <1>2 DEF Pending, Queued
<1>4. \A n : Ran(n)' = Ran(n) /\ HasRun(n)' = HasRun(n)
  BY DEF Ran, HasRun
<1>5. QueuedOnce'
  BY <1>1, <1>2, <1>3, <1>4 DEF QueuedOnce
<1> QED BY <1>2, <1>5 DEF WaitsForInput

LEMMA PlainInit == ASSUME PlainFlows, Init PROVE PlainInv
<1>1. \A n \in Node : Ran(n) = 0
  BY DEF Init, Ran, Out
<1>2. PlainTyped
  <2>1. taken \in [Node -> [Out -> Nat]] /\ waiting \in [Node -> SUBSET Node]
    BY DEF Init
  <2>2. queue = <<>> /\ data = <<>> /\ row = [state |-> "none", data |-> <<>>]
    BY DEF Init, NoRow
  <2> QED BY <2>1, <2>2 DEF Init, PlainTyped
<1>3. QueuedOnce
  BY <1>1 DEF QueuedOnce, Init, Pending, Queued, HasRun
<1>4. WaitsForInput
  BY DEF WaitsForInput, Init
<1> QED BY <1>2, <1>3, <1>4 DEF PlainInv

\* The records a run without questions leaves.
Told == [node: Node, inner: BOOLEAN, status: Status \ {"STOPPED"}]

LEMMA RecordsAppend ==
    ASSUME PlainInv, NEW n \in Node, NEW s \in Status \ {"STOPPED"}
    PROVE  Append(data, Rec(n, s)) \in Seq(Told)
<1>1. data \in Seq(Told)
  BY DEF PlainInv, PlainTyped, Told
<1>2. Rec(n, s) \in Told
  BY DEF Rec, Told
<1> QED BY <1>1, <1>2, AppendProperties

\* Nothing is ever stopped, and so nothing is resumed.
LEMMA NothingStops ==
    ASSUME PlainFlows, PlainInv
    PROVE  ~ Stop /\ ~ Resume /\ \A s \in {"FINISHED", "STOPPED"} : IterateItem(s) => s = "FINISHED"
<1>1. ~ Stop
  <2>1. pc = "node" => flow.kind[cur] \in {"plain", "iteration"}
    BY NoDecisions DEF PlainInv, PlainTyped
  <2> QED BY <2>1 DEF Stop
<1>2. ~ Resume
  <2>1. row.state # "STOPPED" /\ row.data \in Seq(Told)
    BY DEF PlainInv, PlainTyped, Told, Status
  <2>2. ASSUME NEW i \in 1 .. Len(row.data) PROVE row.data[i].status # "STOPPED"
    <3>1. row.data[i] \in Told
      BY <2>1, ElementOfSeq
    <3> QED BY <3>1 DEF Told
  <2>3. ~ FailedAfterStop
    <3>1. Len(row.data) >= 2 => Len(row.data) - 1 \in 1 .. Len(row.data)
      BY <2>1
    <3> QED BY <2>2, <3>1 DEF FailedAfterStop
  <2> QED BY <2>1, <2>3 DEF Resume, Resumable
<1>3. ASSUME NEW s \in {"FINISHED", "STOPPED"}, IterateItem(s) PROVE s = "FINISHED"
  <2>1. cur \notin flow.asks
    BY <1>3, NoDecisions DEF IterateItem, PlainInv, PlainTyped
  <2> QED BY <1>3, <2>1 DEF IterateItem
<1> QED BY <1>1, <1>2, <1>3

\* The first node runs alone: all others wait for an input.
LEMMA StartPlain == ASSUME PlainFlows, PlainInv, Start PROVE PlainInv'
<1>1. /\ pc = "idle" /\ row.state = "none" /\ pc' = "loop" /\ queue' = <<Root>>
      /\ row' = [state |-> "INPROGRESS", data |-> <<>>]
      /\ UNCHANGED <<flow, cur, waiting, data, human, taken>>
  BY DEF Start, history
<1>2. flow \in Flows /\ Root \in Node /\ Sources(flow, Root) = {}
  BY OneRoot DEF PlainInv, PlainTyped
<1>3. cur = NoNode /\ waiting = [n \in Node |-> {}] /\ \A n \in Node : ~ HasRun(n)
  BY <1>1 DEF PlainInv, PlainTyped, QueuedOnce
<1>4. \A n \in Node : Ran(n)' = Ran(n) /\ HasRun(n)' = HasRun(n)
  BY <1>1 DEF Ran, HasRun
<1>5. \A n : Pending(n)' <=> n = Root
  BY <1>1 DEF Pending, Queued
<1>6. PlainTyped'
  <2>1. queue' \in Seq(Node) /\ row'.data \in Seq(Told)
    BY <1>1, <1>2
  <2> QED BY <1>1, <1>3, <2>1 DEF PlainInv, PlainTyped, Told
<1>7. QueuedOnce'
  BY <1>1, <1>2, <1>3, <1>4, <1>5 DEF PlainInv, QueuedOnce
<1>8. WaitsForInput'
  <2>1. ASSUME NEW n \in Node, n # Root
        PROVE  /\ waiting'[n] = {s \in Sources(flow, n) : HasRun(s)'}
               /\ \E s \in Sources(flow, n) : ~ HasRun(s)'
    <3>1. Sources(flow, n) # {} /\ Sources(flow, n) \subseteq Node
      BY <1>2, <2>1, OneRoot, SourcesInNode
    <3> QED BY <1>1, <1>3, <1>4, <3>1
  <2> QED BY <1>1, <1>5, <2>1 DEF WaitsForInput
<1> QED BY <1>6, <1>7, <1>8 DEF PlainInv

\* The head of the queue begins to run.
LEMMA TakePlain == ASSUME PlainFlows, PlainInv, TakeNode PROVE PlainInv'
<1>1. /\ pc = "loop" /\ queue # <<>> /\ pc' = "node" /\ cur' = Head(queue)
      /\ queue' = Tail(queue)
      /\ UNCHANGED <<flow, waiting, data, human, row, taken>>
  BY DEF TakeNode, history
<1>2. queue \in Seq(Node) /\ QueuedOnce /\ row.state = "INPROGRESS"
  BY <1>1 DEF PlainInv, PlainTyped
<1>3. /\ Head(queue) \in Node /\ Queued(Head(queue)) /\ queue' \in Seq(Node)
      /\ \A n : Queued(n)' <=> Queued(n) /\ n # Head(queue)
      /\ \A i, j \in DOMAIN queue' : queue'[i] = queue'[j] => i = j
  BY <1>1, <1>2, TailQueue DEF QueuedOnce, Queued
<1>4. \A n : Ran(n)' = Ran(n) /\ HasRun(n)' = HasRun(n)
  BY <1>1 DEF Ran, HasRun
<1>5. \A n : Pending(n)' <=> Pending(n)
  BY <1>1, <1>3 DEF Pending
<1>6. PlainTyped'
  BY <1>1, <1>2, <1>3 DEF PlainInv, PlainTyped
<1>7. QueuedOnce'
  BY <1>1, <1>2, <1>3, <1>4, <1>5 DEF QueuedOnce
<1>8. WaitsForInput'
  BY <1>1, <1>4, <1>5 DEF PlainInv, WaitsForInput
<1> QED BY <1>6, <1>7, <1>8 DEF PlainInv

\* A node ends, and its successors that have all their inputs are queued.
LEMMA FinishKeepsPlain ==
    ASSUME PlainFlows, PlainInv, NEW out \in Out, Finish(out) PROVE PlainInv'
<1> DEFINE Next1 == [c \in Node |-> IF c \in NowReady THEN {}
                                   ELSE IF cur \in Sources(flow, c) THEN waiting[c] \cup {cur}
                                   ELSE waiting[c]]
<1>a. /\ pc = "node" /\ pc' = "loop" /\ flow' = flow /\ cur' = cur /\ row' = row
      /\ human' = NoNode
  BY FinishPlain
<1>b. data' = Append(data, Rec(cur, "FINISHED"))
  BY FinishPlain
<1>c. taken' = [taken EXCEPT ![cur][1] = @ + 1]
  BY FinishPlain
<1>d. waiting' = Next1
  BY FinishPlain
<1>e. \E ready \in SetToSeqs(NowReady) : queue' = queue \o ready
  BY FinishPlain
<1>1. /\ flow \in Flows /\ cur \in Node /\ queue \in Seq(Node) /\ QueuedOnce
      /\ waiting \in [Node -> SUBSET Node] /\ row.state = "INPROGRESS"
      /\ taken \in [Node -> [Out -> Nat]]
  BY <1>a DEF PlainInv, PlainTyped
<1>2. /\ taken' \in [Node -> [Out -> Nat]]
      /\ \A n \in Node : Ran(n) \in Nat /\ Ran(n)' = IF n = cur THEN Ran(n) + 1 ELSE Ran(n)
  <2>1. 1 \in Out
    BY DEF Out
  <2> QED BY <1>1, <1>c, <2>1, RanCounts
<1>3. ~ HasRun(cur) /\ \A s \in Sources(flow, cur) : HasRun(s)
  BY <1>1, <1>a DEF QueuedOnce, Pending
<1>4. \A n \in Node : HasRun(n)' <=> HasRun(n) \/ n = cur
  BY <1>2 DEF HasRun
<1>5. \A n \in Node : Ran(n)' <= 1
  <2>1. ASSUME NEW n \in Node PROVE Ran(n)' <= 1
    <3>1. Ran(n) \in Nat /\ Ran(n) <= 1 /\ Ran(n)' = IF n = cur THEN Ran(n) + 1 ELSE Ran(n)
      BY <1>1, <1>2 DEF QueuedOnce
    <3>2. n = cur => ~ Ran(n) > 0
      BY <1>3 DEF HasRun
    <3> QED BY <3>1, <3>2
  <2> QED BY <2>1
<1>6. PICK ready \in SetToSeqs(NowReady) : queue' = queue \o ready
  BY <1>e
<1>7. IsFiniteSet(NowReady) /\ NowReady \subseteq Node
  BY FlowAssumption, FS_Subset DEF NowReady
<1>8. /\ ready \in Seq(Node) /\ \A i \in DOMAIN ready : ready[i] \in NowReady
      /\ \A c \in NowReady : \E i \in DOMAIN ready : ready[i] = c
      /\ \A i, j \in DOMAIN ready : ready[i] = ready[j] => i = j
  BY <1>7, Listed, SeqMonotonic
<1>9. /\ queue' \in Seq(Node)
      /\ \A i \in DOMAIN queue' : i <= Len(queue) => queue'[i] = queue[i]
      /\ \A i \in DOMAIN queue' : ~ i <= Len(queue) => queue'[i] = ready[i - Len(queue)]
      /\ \A i \in DOMAIN queue' : i <= Len(queue) => i \in DOMAIN queue
      /\ \A i \in DOMAIN queue' : ~ i <= Len(queue) => i - Len(queue) \in DOMAIN ready
      /\ \A i \in DOMAIN queue : i \in DOMAIN queue' /\ i <= Len(queue)
      /\ \A i \in DOMAIN ready : /\ Len(queue) + i \in DOMAIN queue'
                                 /\ ~ Len(queue) + i <= Len(queue)
                                 /\ Len(queue) + i - Len(queue) = i
  <2>1. /\ DOMAIN queue = 1 .. Len(queue) /\ DOMAIN ready = 1 .. Len(ready)
        /\ Len(queue) \in Nat /\ Len(ready) \in Nat
    BY <1>1, <1>8
  <2>2. /\ queue' \in Seq(Node) /\ DOMAIN queue' = 1 .. (Len(queue) + Len(ready))
        /\ \A i \in 1 .. (Len(queue) + Len(ready)) :
              queue'[i] = IF i <= Len(queue) THEN queue[i] ELSE ready[i - Len(queue)]
    BY <1>1, <1>6, <1>8, <2>1, ConcatProperties
  <2> QED BY <2>1, <2>2
<1>10. \A n : Queued(n)' <=> Queued(n) \/ n \in NowReady
  <2>1. ASSUME NEW n, Queued(n)' PROVE Queued(n) \/ n \in NowReady
    BY <1>8, <1>9, <2>1 DEF Queued
  <2>2. ASSUME NEW n, Queued(n) PROVE Queued(n)'
    BY <1>9, <2>2 DEF Queued
  <2>3. ASSUME NEW n \in NowReady PROVE Queued(n)'
    <3>1. PICK i \in DOMAIN ready : ready[i] = n
      BY <1>8
    <3> DEFINE k == Len(queue) + i
    <3>2. k \in DOMAIN queue' /\ ~ k <= Len(queue) /\ k - Len(queue) = i
      BY <1>9
    <3> HIDE DEF k
    <3>3. queue'[k] = ready[k - Len(queue)]
      BY <1>9, <3>2
    <3>4. queue'[k] = n
      BY <3>1, <3>2, <3>3
    <3> QED BY <3>2, <3>4 DEF Queued
  <2> QED BY <2>1, <2>2, <2>3
<1>11. ASSUME NEW c \in Node, cur \in Sources(flow, c)
       PROVE  ~ HasRun(c) /\ ~ Pending(c) /\ c # cur
  BY <1>1, <1>3, <1>11 DEF QueuedOnce
<1>12. ASSUME NEW c \in NowReady
       PROVE  /\ c \in Node /\ c # cur /\ ~ HasRun(c) /\ ~ Queued(c)
              /\ \A s \in Sources(flow, c) : HasRun(s)'
  <2>1. c \in Node /\ cur \in Sources(flow, c) /\ Sources(flow, c) \subseteq waiting[c] \cup {cur}
    BY DEF NowReady
  <2>2. ~ HasRun(c) /\ ~ Pending(c) /\ c # cur
    BY <1>11, <2>1
  <2>3. waiting[c] = {s \in Sources(flow, c) : HasRun(s)}
    BY <1>a, <2>1, <2>2 DEF PlainInv, WaitsForInput
  <2>4. Sources(flow, c) \subseteq Node
    BY <1>1, <2>1, SourcesInNode
  <2> QED BY <1>4, <2>1, <2>2, <2>3, <2>4 DEF Pending
<1>13. \A n : Pending(n)' <=> (Pending(n) /\ n # cur) \/ n \in NowReady
  <2>1. ~ Queued(cur)
    BY <1>1, <1>a DEF QueuedOnce
  <2> QED BY <1>10, <1>12, <1>a, <2>1 DEF Pending
<1>14. PlainTyped'
  <2>1. waiting' \in [Node -> SUBSET Node]
    BY <1>1, <1>d
  <2>2. data' \in Seq(Told)
    BY <1>1, <1>b, RecordsAppend DEF Status
  <2> QED BY <1>1, <1>2, <1>9, <1>a, <2>1, <2>2 DEF PlainInv, PlainTyped, Told
<1>15. QueuedOnce'
  <2>1. ASSUME NEW i \in DOMAIN queue', NEW j \in DOMAIN queue', queue'[i] = queue'[j]
        PROVE  i = j
    <3>1. CASE i <= Len(queue) /\ j <= Len(queue)
      BY <1>1, <1>9, <2>1, <3>1 DEF QueuedOnce
    <3>2. CASE i <= Len(queue) /\ ~ j <= Len(queue)
      BY <1>8, <1>9, <1>12, <2>1, <3>2 DEF Queued
    <3>3. CASE ~ i <= Len(queue) /\ j <= Len(queue)
      BY <1>8, <1>9, <1>12, <2>1, <3>3 DEF Queued
    <3>4. CASE ~ i <= Len(queue) /\ ~ j <= Len(queue)
      <4>1. i - Len(queue) = j - Len(queue)
        BY <1>8, <1>9, <2>1, <3>4
      <4>2. i \in Int /\ j \in Int /\ Len(queue) \in Int
        BY <1>1, <1>9
      <4> QED BY <4>1, <4>2
    <3> QED BY <3>1, <3>2, <3>3, <3>4
  <2>2. HasRun(cur)'
    BY <1>1, <1>4, <1>a
  <2>3. ASSUME NEW n \in Node, Pending(n)' PROVE ~ HasRun(n)'
    BY <1>1, <1>4, <1>12, <1>13, <2>3 DEF QueuedOnce
  <2>4. ASSUME NEW n \in Node, Pending(n)' \/ HasRun(n)', NEW s \in Sources(flow, n)
        PROVE  HasRun(s)'
    <3>1. s \in Node
      BY <1>1, SourcesInNode
    <3>2. CASE n \in NowReady
      BY <1>12, <3>2
    <3>3. CASE Pending(n) \/ HasRun(n)
      BY <1>1, <1>4, <3>1, <3>3 DEF QueuedOnce
    <3> QED BY <1>3, <1>4, <1>13, <2>4, <3>1, <3>2, <3>3
  <2> QED BY <1>1, <1>5, <1>a, <2>1, <2>2, <2>3, <2>4 DEF QueuedOnce
<1>16. WaitsForInput'
  <2>1. ASSUME NEW c \in Node, ~ Pending(c)', ~ HasRun(c)'
        PROVE  /\ waiting'[c] = {s \in Sources(flow, c) : HasRun(s)'}
               /\ \E s \in Sources(flow, c) : ~ HasRun(s)'
    <3>1. ~ Pending(c) /\ ~ HasRun(c) /\ c # cur /\ c \notin NowReady
      BY <1>4, <1>13, <2>1
    <3>2. /\ waiting[c] = {s \in Sources(flow, c) : HasRun(s)}
          /\ \E s \in Sources(flow, c) : ~ HasRun(s)
      BY <1>a, <3>1 DEF PlainInv, WaitsForInput
    <3>3. Sources(flow, c) \subseteq Node
      BY <1>1, SourcesInNode
    <3>4. CASE cur \in Sources(flow, c)
      <4>1. waiting'[c] = waiting[c] \cup {cur}
        BY <1>d, <3>1, <3>4
      <4>2. \E s \in Sources(flow, c) : s \notin waiting[c] \cup {cur}
        BY <3>1, <3>4 DEF NowReady
      <4> QED BY <1>4, <3>2, <3>3, <3>4, <4>1, <4>2
    <3>5. CASE cur \notin Sources(flow, c)
      <4>1. waiting'[c] = waiting[c]
        BY <1>d, <3>1, <3>5
      <4> QED BY <1>4, <3>2, <3>3, <3>5, <4>1
    <3> QED BY <3>4, <3>5
  <2> QED BY <1>a, <2>1 DEF WaitsForInput
<1> QED BY <1>14, <1>15, <1>16 DEF PlainInv

\* Every other way on: the run ends, or only records and counters change.
LEMMA OthersKeepPlain ==
    ASSUME PlainFlows, PlainInv,
           \/ ReachIterationLimit \/ TakeAborted \/ EndRun \/ FailAborted \/ ItemFails
           \/ IterateItem("FINISHED") \/ Fail \/ Abort \/ Crash \/ UNCHANGED vars
    PROVE  PlainInv'
<1>1. /\ PlainTyped /\ QueuedOnce /\ WaitsForInput
      /\ data \in Seq(Told) /\ row.data \in Seq(Told)
  BY DEF PlainInv, PlainTyped, Told
<1>2. CASE ReachIterationLimit \/ Crash
  <2>1. /\ pc # "idle" /\ pc' = "idle"
        /\ UNCHANGED <<flow, cur, waiting, human, taken, queue, data, row>>
    BY <1>2 DEF ReachIterationLimit, Crash, engine
  <2>2. row.state = "INPROGRESS"
    BY <1>1, <2>1 DEF PlainTyped
  <2>3. QueuedOnce' /\ WaitsForInput' /\ queue' \in Seq(Node)
    BY <2>1, <2>2, EndsPlain
  <2>4. PlainTyped'
    BY <1>1, <2>1, <2>2 DEF PlainTyped
  <2> QED BY <2>3, <2>4 DEF PlainInv
<1>3. CASE TakeAborted \/ FailAborted \/ Fail
  <2>1. PICK n \in Node, s \in {"TERMINATED", "ERROR"} : Ends(n, s)
    <3>1. pc = "node" => cur \in Node
      BY <1>1 DEF PlainTyped
    <3>2. queue # <<>> => Head(queue) \in Node
      BY <1>1 DEF PlainTyped
    <3> QED BY <1>3, <3>1, <3>2 DEF TakeAborted, FailAborted, Fail
  <2>2. /\ pc # "idle"
        /\ UNCHANGED <<flow, cur, waiting, human, taken>>
        /\ queue' = queue \/ (queue # <<>> /\ queue' = Tail(queue))
    BY <1>3 DEF TakeAborted, FailAborted, Fail, engine, history
  <2>3. /\ pc' = "idle" /\ data' = Append(data, Rec(n, s))
        /\ row' = [state |-> s, data |-> data']
    BY <2>1 DEF Ends
  <2>4. s \in Status \ {"STOPPED"} /\ s # "none"
    BY DEF Status
  <2>5. data' \in Seq(Told)
    BY <2>3, <2>4, RecordsAppend
  <2>6. QueuedOnce' /\ WaitsForInput' /\ queue' \in Seq(Node)
    BY <2>2, <2>3, <2>4, EndsPlain
  <2>7. PlainTyped'
    BY <1>1, <2>2, <2>3, <2>4, <2>5, <2>6 DEF PlainTyped, Told
  <2> QED BY <2>6, <2>7 DEF PlainInv
<1>4. CASE EndRun
  <2>1. /\ pc = "loop" /\ pc' = "idle" /\ row' = [state |-> FinalStatus, data |-> data]
        /\ UNCHANGED <<flow, cur, waiting, human, taken, queue, data>>
    BY <1>4 DEF EndRun, engine, history
  <2>2. FinalStatus \in Status \ {"STOPPED"}
    <3>1. \A i \in DOMAIN data : data[i] \in Told
      BY <1>1
    <3>2. \A i \in DOMAIN data : data[i].status # "STOPPED"
      BY <3>1 DEF Told
    <3> QED BY <3>2 DEF FinalStatus, Status
  <2>3. row'.state # "none"
    BY <2>1, <2>2 DEF Status
  <2>4. QueuedOnce' /\ WaitsForInput' /\ queue' \in Seq(Node)
    BY <2>1, <2>3, EndsPlain
  <2>5. PlainTyped'
    BY <1>1, <2>1, <2>2, <2>3 DEF PlainTyped, Told
  <2> QED BY <2>4, <2>5 DEF PlainInv
<1>5. CASE IterateItem("FINISHED")
  <2>1. /\ pc = "node" /\ row' = [row EXCEPT !.data = data']
        /\ data' = Append(data, [node |-> cur, inner |-> TRUE, status |-> "FINISHED"])
        /\ UNCHANGED <<flow, pc, cur, queue, waiting, human, taken>>
    BY <1>5 DEF IterateItem, history
  <2>2. [node |-> cur, inner |-> TRUE, status |-> "FINISHED"] \in Told
    BY <1>1, <2>1 DEF PlainTyped, Told, Status
  <2>3. data' \in Seq(Told)
    BY <1>1, <2>1, <2>2, AppendProperties
  <2>4. row'.state = row.state /\ row'.data \in Seq(Told)
    BY <2>1, <2>3
  <2>5. PlainTyped'
    BY <1>1, <2>1, <2>3, <2>4 DEF PlainTyped, Told
  <2>6. QueuedOnce' /\ WaitsForInput'
    BY <1>1, <2>1, <2>4 DEF QueuedOnce, WaitsForInput, Pending, Queued, HasRun, Ran
  <2> QED BY <2>5, <2>6 DEF PlainInv
<1>6. CASE ItemFails \/ Abort \/ UNCHANGED vars
  <2>1. UNCHANGED <<flow, pc, cur, queue, waiting, data, human, row, taken>>
    BY <1>6 DEF ItemFails, Abort, vars, engine, history
  <2>2. PlainTyped'
    BY <1>1, <2>1 DEF PlainTyped
  <2>3. QueuedOnce' /\ WaitsForInput'
    BY <1>1, <2>1 DEF QueuedOnce, WaitsForInput, Pending, Queued, HasRun, Ran
  <2> QED BY <2>2, <2>3 DEF PlainInv
<1> QED BY <1>2, <1>3, <1>4, <1>5, <1>6

LEMMA PlainNext == ASSUME PlainFlows, PlainInv, [Next]_vars PROVE PlainInv'
<1>1. CASE Start
  BY <1>1, StartPlain
<1>2. CASE TakeNode
  BY <1>2, TakePlain
<1>3. ASSUME NEW out \in Out, Finish(out) PROVE PlainInv'
  BY <1>3, FinishKeepsPlain
<1>4. CASE Stop \/ Resume
  BY <1>4, NothingStops
<1>5. ASSUME NEW s \in {"FINISHED", "STOPPED"}, IterateItem(s) PROVE PlainInv'
  BY <1>5, NothingStops, OthersKeepPlain
<1>6. CASE \/ ReachIterationLimit \/ TakeAborted \/ EndRun \/ FailAborted \/ ItemFails
           \/ Fail \/ Abort \/ Crash \/ UNCHANGED vars
  BY <1>6, OthersKeepPlain
<1> QED BY <1>1, <1>2, <1>3, <1>4, <1>5, <1>6 DEF Next, Run

THEOREM PlainInvariance == ASSUME PlainFlows PROVE Spec => []PlainInv
<1>1. Init => PlainInv
  BY PlainInit
<1>2. PlainInv /\ [Next]_vars => PlainInv'
  BY PlainNext
<1> QED BY <1>1, <1>2, PTL DEF Spec

(* processNodeOutputs, waitingNodes: in a flow without decisions, loops and  *)
(* questions no node runs twice, however many inputs join at it and in       *)
(* whatever order they arrive.                                               *)
THEOREM EachNodeRunsOnce == ASSUME PlainFlows PROVE Spec => []RunsOnce
<1>1. PlainInv => RunsOnce
  BY DEF PlainInv, QueuedOnce, RunsOnce
<1> QED BY <1>1, PlainInvariance, PTL
-----------------------------------------------------------------------------
(* The plan such a flow is.                                                  *)

\* When nothing is queued everything has run: of the nodes that have not, the one
\* of least rank would wait for one of lesser rank.
LEMMA AllHaveRun ==
    ASSUME PlainInv, pc = "loop", queue = <<>>
    PROVE  \A n \in Node : HasRun(n)
<1> SUFFICES ASSUME \E n \in Node : ~ HasRun(n) PROVE FALSE
  OBVIOUS
<1>1. flow \in Flows
  BY DEF PlainInv, PlainTyped
<1>2. PICK rank \in [Node -> 1 .. Cardinality(Node)] :
        \A i \in DOMAIN flow.edges : rank[flow.edges[i].from] < rank[flow.edges[i].to]
  BY <1>1, FlowAssumption DEF IsFlow
<1> DEFINE T == {rank[n] : n \in {m \in Node : ~ HasRun(m)}}
<1>3. T \subseteq Nat /\ T # {}
  BY <1>2
<1>4. PICK n \in Node : ~ HasRun(n) /\ \A m \in Node : ~ HasRun(m) => rank[n] <= rank[m]
  <2>1. PICK x \in T : \A y \in T : x <= y
    BY <1>3, Least
  <2> QED BY <2>1
<1>5. ~ Pending(n)
  BY DEF Pending, Queued
<1>6. PICK s \in Sources(flow, n) : ~ HasRun(s)
  BY <1>4, <1>5 DEF PlainInv, WaitsForInput
<1>7. s \in Node /\ rank[s] < rank[n]
  BY <1>1, <1>2, <1>6, SourcesInNode DEF Sources
<1>8. rank[s] \in Int /\ rank[n] \in Int
  BY <1>2, <1>7
<1> QED BY <1>4, <1>6, <1>7, <1>8

LEMMA ErrorsAppend ==
    ASSUME data \in Seq(Told), NEW r \in Told, data' = Append(data, r)
    PROVE  \A e : Contains(data, e)' <=> Contains(data, e) \/ e = r
<1>1. /\ Len(data) \in Nat /\ Len(data') = Len(data) + 1
      /\ \A i \in 1 .. Len(data) : data'[i] = data[i]
      /\ data'[Len(data) + 1] = r
  BY AppendProperties
<1> DEFINE k == Len(data) + 1
<1>2. k \in 1 .. Len(data') /\ data'[k] = r
  BY <1>1
<1>3. \A i \in 1 .. Len(data') : i \in 1 .. Len(data) \/ i = k
  BY <1>1
<1>4. \A i \in 1 .. Len(data) : i \in 1 .. Len(data')
  BY <1>1
<1> HIDE DEF k
<1>5. ASSUME NEW e, Contains(data, e)' PROVE Contains(data, e) \/ e = r
  <2>1. PICK i \in 1 .. Len(data') : data'[i] = e
    BY <1>5 DEF Contains
  <2> QED BY <1>1, <1>2, <1>3, <2>1 DEF Contains
<1>6. ASSUME NEW e, Contains(data, e) PROVE Contains(data, e)'
  BY <1>1, <1>4, <1>6 DEF Contains
<1>7. Contains(data, r)'
  BY <1>2 DEF Contains
<1> QED BY <1>5, <1>6, <1>7

LEMMA PlainDagInit == ASSUME PlainFlows, Init PROVE Dag!DagInit
<1>1. \A n \in Node : Ran(n) = 0 /\ cur # n /\ ~ Contains(data, Rec(n, "ERROR"))
  BY FlowAssumption DEF Init, Ran, Out, Contains
<1>2. row.state = "none" /\ flow \in Flows
  BY DEF Init, NoRow
<1> QED BY <1>1, <1>2 DEF Dag!DagInit

LEMMA PlainDagStep ==
    ASSUME PlainFlows, PlainInv, PlainInv', [Next]_vars
    PROVE  [Dag!DagNext]_(Dag!dagVars)
<1> DEFINE Deps == [n \in Node |-> Sources(flow, n)]
           Started == {n \in Node : cur = n \/ Ran(n) > 0}
           Completed == {n \in Node : Ran(n) > 0}
           Failed == {n \in Node : Contains(data, Rec(n, "ERROR"))}
           Shown == CASE row.state = "none"     -> "pending"
                      [] row.state = "FINISHED" -> "completed"
                      [] OTHER                  -> "running"
<1>a. /\ flow \in Flows /\ data \in Seq(Told) /\ queue \in Seq(Node) /\ QueuedOnce
      /\ pc # "idle" => row.state = "INPROGRESS"
      /\ pc = "node" => cur \in Node
  BY DEF PlainInv, PlainTyped, Told
<1>b. NoNode \notin Node
  BY FlowAssumption
<1>1. CASE UNCHANGED <<flow, cur, taken, Failed, Shown>>
  <2>1. Deps' = Deps /\ Started' = Started /\ Completed' = Completed
    BY <1>1 DEF Ran
  <2> QED BY <1>1, <2>1 DEF Dag!dagVars
<1>2. CASE Start
  <2>1. UNCHANGED <<flow, cur, taken, data>> /\ Shown' = "running"
    BY <1>2 DEF Start, history
  <2>2. Deps' = Deps /\ Started' = Started /\ Completed' = Completed /\ Failed' = Failed
    BY <2>1 DEF Ran
  <2>3. Dag!Announce("running")
    BY <2>1, <2>2 DEF Dag!Announce
  <2> QED BY <2>3 DEF Dag!DagNext
<1>3. CASE TakeNode
  <2>1. /\ pc = "loop" /\ queue # <<>> /\ cur' = Head(queue)
        /\ UNCHANGED <<flow, taken, data, row>>
    BY <1>3 DEF TakeNode, history
  <2>2. /\ Deps' = Deps /\ Completed' = Completed /\ Failed' = Failed /\ Shown' = Shown
    BY <2>1 DEF Ran
  <2>3. PICK t \in Node : t = Head(queue) /\ Pending(t)
    BY <1>a, <2>1, TailQueue DEF QueuedOnce, Pending
  <2>4. Deps[t] \subseteq Completed
    BY <1>a, SourcesInNode, <2>3 DEF QueuedOnce, HasRun
  <2>5. Started' = Started \cup {t}
    <3>1. cur \in Node => Ran(cur) > 0
      BY <1>a, <1>b, <2>1 DEF QueuedOnce, HasRun
    <3>2. \A n \in Node : Ran(n)' = Ran(n)
      BY <2>1 DEF Ran
    <3> QED BY <2>1, <2>3, <3>1, <3>2
  <2>6. Dag!Start(t)
    BY <2>2, <2>4, <2>5 DEF Dag!Start
  <2> QED BY <2>3, <2>6 DEF Dag!DagNext
<1>4. ASSUME NEW out \in Out, Finish(out) PROVE [Dag!DagNext]_(Dag!dagVars)
  <2>1. /\ pc = "node" /\ flow' = flow /\ cur' = cur /\ row' = row
        /\ data' = Append(data, Rec(cur, "FINISHED"))
        /\ taken' = [taken EXCEPT ![cur][1] = @ + 1]
    BY <1>4, FinishPlain
  <2>2. cur \in Node /\ taken \in [Node -> [Out -> Nat]]
    BY <1>a, <2>1 DEF PlainInv, PlainTyped
  <2>3. \A n \in Node : /\ Ran(n) \in Nat
                        /\ Ran(n)' = IF n = cur THEN Ran(n) + 1 ELSE Ran(n)
    <3>1. 1 \in Out
      BY DEF Out
    <3> QED BY <2>1, <2>2, <3>1, RanCounts
  <2>4. Rec(cur, "FINISHED") \in Told /\ \A n \in Node : Rec(n, "ERROR") # Rec(cur, "FINISHED")
    BY <2>2 DEF Rec, Told, Status
  <2>5. Deps' = Deps /\ Shown' = Shown
    BY <2>1
  <2>6. Failed' = Failed
    BY <1>a, <2>1, <2>4, ErrorsAppend
  <2>7. Completed' = Completed \cup {cur} /\ Started' = Started /\ cur \in Started
    BY <2>1, <2>2, <2>3
  <2>8. Dag!Complete(cur)
    BY <2>5, <2>6, <2>7 DEF Dag!Complete
  <2> QED BY <2>2, <2>8 DEF Dag!DagNext
<1>5. CASE Fail
  <2>1. /\ pc = "node" /\ row' = [state |-> "ERROR", data |-> data']
        /\ data' = Append(data, Rec(cur, "ERROR"))
        /\ UNCHANGED <<flow, cur, taken>>
    BY <1>5 DEF Fail, Ends, engine, history
  <2>2. cur \in Node /\ Rec(cur, "ERROR") \in Told
    BY <1>a, <2>1 DEF Rec, Told, Status
  <2>3. Deps' = Deps /\ Started' = Started /\ Completed' = Completed /\ cur \in Started
    BY <2>1, <2>2 DEF Ran
  <2>4. Shown = "running" /\ Shown' = "running"
    BY <1>a, <2>1
  <2>5. Failed' = Failed \cup {cur}
    <3>1. \A n \in Node : Rec(n, "ERROR") = Rec(cur, "ERROR") <=> n = cur
      BY DEF Rec
    <3> QED BY <1>a, <2>1, <2>2, <3>1, ErrorsAppend
  <2>6. Dag!Fail(cur)
    BY <2>3, <2>4, <2>5 DEF Dag!Fail
  <2> QED BY <2>2, <2>6 DEF Dag!DagNext
<1>6. CASE TakeAborted \/ FailAborted
  <2>1. PICK n \in Node : Ends(n, "TERMINATED")
    BY <1>6, <1>a DEF TakeAborted, FailAborted
  <2>2. pc # "idle" /\ UNCHANGED <<flow, cur, taken>>
    BY <1>6 DEF TakeAborted, FailAborted, engine, history
  <2>3. /\ Rec(n, "TERMINATED") \in Told
        /\ \A m \in Node : Rec(m, "ERROR") # Rec(n, "TERMINATED")
    BY DEF Rec, Told, Status
  <2>4. /\ data' = Append(data, Rec(n, "TERMINATED"))
        /\ row' = [state |-> "TERMINATED", data |-> data']
    BY <2>1 DEF Ends
  <2>5. Failed' = Failed
    BY <1>a, <2>3, <2>4, ErrorsAppend
  <2>6. Shown = "running" /\ Shown' = "running"
    BY <1>a, <2>2, <2>4
  <2> QED BY <1>1, <2>2, <2>5, <2>6
<1>7. CASE EndRun
  <2>1. /\ pc = "loop" /\ queue = <<>> /\ row'.state = FinalStatus
        /\ UNCHANGED <<flow, cur, taken, data>>
    BY <1>7 DEF EndRun, engine, history
  <2>2. Deps' = Deps /\ Started' = Started /\ Completed' = Completed /\ Failed' = Failed
    BY <2>1 DEF Ran
  <2>3. Node \subseteq Completed
    BY <2>1, AllHaveRun DEF HasRun
  <2>4. Shown = "running"
    BY <1>a, <2>1
  <2>5. FinalStatus # "none"
    BY DEF FinalStatus
  <2>6. CASE FinalStatus = "FINISHED"
    <3>1. Shown' = "completed"
      BY <2>1, <2>6
    <3>2. Dag!Announce("completed")
      BY <2>2, <2>3, <3>1 DEF Dag!Announce
    <3> QED BY <3>2 DEF Dag!DagNext
  <2>7. CASE FinalStatus # "FINISHED"
    <3>1. Shown' = "running"
      BY <2>1, <2>5, <2>7
    <3> QED BY <1>1, <2>1, <2>2, <2>4, <3>1
  <2> QED BY <2>6, <2>7
<1>8. CASE IterateItem("FINISHED")
  <2>1. /\ pc = "node" /\ row' = [row EXCEPT !.data = data']
        /\ data' = Append(data, [node |-> cur, inner |-> TRUE, status |-> "FINISHED"])
        /\ UNCHANGED <<flow, cur, taken>>
    BY <1>8 DEF IterateItem, history
  <2>2. /\ [node |-> cur, inner |-> TRUE, status |-> "FINISHED"] \in Told
        /\ \A n \in Node : Rec(n, "ERROR") # [node |-> cur, inner |-> TRUE, status |-> "FINISHED"]
    BY <1>a, <2>1 DEF Rec, Told, Status
  <2>3. Failed' = Failed
    BY <1>a, <2>1, <2>2, ErrorsAppend
  <2>4. Shown = "running" /\ Shown' = "running"
    <3>1. row'.state = row.state
      BY <2>1
    <3> QED BY <1>a, <2>1, <3>1
  <2> QED BY <1>1, <2>1, <2>3, <2>4
<1>9. CASE ReachIterationLimit \/ ItemFails \/ Abort \/ Crash \/ UNCHANGED vars
  <2>1. UNCHANGED <<flow, cur, taken, data, row>>
    BY <1>9 DEF ReachIterationLimit, ItemFails, Abort, Crash, vars, engine, history
  <2> QED BY <1>1, <2>1
<1>10. CASE Stop \/ Resume
  BY <1>10, NothingStops
<1>11. ASSUME NEW s \in {"FINISHED", "STOPPED"}, IterateItem(s)
       PROVE  [Dag!DagNext]_(Dag!dagVars)
  BY <1>8, <1>11, NothingStops
<1> QED BY <1>2, <1>3, <1>4, <1>5, <1>6, <1>7, <1>9, <1>10, <1>11 DEF Next, Run

(* executeAgentFlow: a flow without decisions, loops and questions is run as *)
(* the plan it is: a node begins only after all nodes it has inputs from     *)
(* have finished, and an execution shown as finished has run every node.     *)
THEOREM PlainFlowsAreDagRuns == ASSUME PlainFlows PROVE Spec => ImplementsDagRun
<1>1. Init => Dag!DagInit
  BY PlainDagInit
<1>2. PlainInv /\ PlainInv' /\ [Next]_vars => [Dag!DagNext]_(Dag!dagVars)
  BY PlainDagStep
<1> QED BY <1>1, <1>2, PlainInvariance, PTL DEF Spec, ImplementsDagRun, Dag!DagSpec
=============================================================================
