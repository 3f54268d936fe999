------------------------ MODULE AgentflowRecordsProofs ------------------------
(* What the records and the row of any flow say, and which routes a flow     *)
(* follows when its questions lose nothing.                                  *)
EXTENDS AgentflowProofs

----------------------------------------------------------------------------
(* Positions of records.                                                     *)

LEMMA Greatest ==
    ASSUME NEW n \in Nat, NEW S, S \subseteq 1 .. n, S # {}
    PROVE  Max(S) \in S /\ \A i \in S : i <= Max(S)
<1> DEFINE T == {n - i : i \in S}
<1>1. T \subseteq Nat /\ T # {}
  <2>1. PICK i \in S : TRUE
    OBVIOUS
  <2>2. n - i \in T
    OBVIOUS
  <2>3. \A j \in S : n - j \in Nat
    OBVIOUS
  <2> QED BY <2>2, <2>3
<1>2. PICK x \in T : \A y \in T : x <= y
  BY <1>1, Least
<1>3. PICK i \in S : x = n - i
  BY <1>2
<1>4. \A j \in S : i >= j
  BY <1>2, <1>3
<1>5. Max(S) \in S /\ \A j \in S : Max(S) >= j
  BY <1>4 DEF Max
<1> QED BY <1>5

\* The record a human is asked about is the last one that is stopped.
LEMMA StoppedRecord ==
    ASSUME NEW R, row.data \in Seq(R), \E i \in DOMAIN row.data : row.data[i].status = "STOPPED"
    PROVE  /\ StoppedAt \in DOMAIN row.data /\ row.data[StoppedAt].status = "STOPPED"
           /\ \A i \in DOMAIN row.data : row.data[i].status = "STOPPED" => i <= StoppedAt
<1> DEFINE S == {i \in 1 .. Len(row.data) : row.data[i].status = "STOPPED"}
<1>1. Len(row.data) \in Nat /\ DOMAIN row.data = 1 .. Len(row.data)
  OBVIOUS
<1>2. S # {} /\ S \subseteq 1 .. Len(row.data)
  BY <1>1
<1>3. StoppedAt = Max(S)
  BY <1>2 DEF StoppedAt, SelectLastInSeq
<1> HIDE DEF S
<1>4. Max(S) \in S /\ \A i \in S : i <= Max(S)
  BY <1>1, <1>2, Greatest
<1> QED BY <1>1, <1>3, <1>4 DEF S

\* RecordsAt lists the records at the positions, all of them and no others.
LEMMA RecordsListed ==
    ASSUME NEW R, data \in Seq(R), NEW K, K \subseteq DOMAIN data
    PROVE  /\ RecordsAt(K) \in Seq(R)
           /\ \A k \in DOMAIN RecordsAt(K) : \E i \in K : RecordsAt(K)[k] = data[i]
           /\ \A i \in K : \E k \in DOMAIN RecordsAt(K) : RecordsAt(K)[k] = data[i]
<1> DEFINE upTo(i) == {j \in K : j <= i}
           n == Cardinality(K)
           D == 1 .. n
           at == [i \in K |-> Cardinality(upTo(i))]
<1>1. DOMAIN data = 1 .. Len(data) /\ Len(data) \in Nat
  OBVIOUS
<1>2. IsFiniteSet(K) /\ n \in Nat
  <2>1. IsFiniteSet(1 .. Len(data)) /\ K \subseteq 1 .. Len(data)
    BY <1>1, FS_Interval
  <2> QED BY <2>1, FS_Subset, FS_CardinalityType
<1>3. K \subseteq Int
  BY <1>1
<1>4. ASSUME NEW i \in K PROVE at[i] \in D
  <2>1. upTo(i) \subseteq K /\ i \in upTo(i)
    BY <1>3
  <2>2. IsFiniteSet(upTo(i)) /\ Cardinality(upTo(i)) <= n
    BY <1>2, <2>1, FS_Subset
  <2>3. Cardinality(upTo(i)) \in Nat /\ Cardinality(upTo(i)) # 0
    BY <2>1, <2>2, FS_CardinalityType, FS_EmptySet
  <2> QED BY <1>2, <2>2, <2>3
<1>5. ASSUME NEW i \in K, NEW j \in K, at[i] = at[j] PROVE i = j
  <2>1. ASSUME NEW a \in K, NEW b \in K, a < b PROVE at[a] # at[b]
    <3>1. upTo(a) \subseteq upTo(b) /\ b \in upTo(b) /\ b \notin upTo(a)
      BY <1>3, <2>1
    <3>2. IsFiniteSet(upTo(b))
      BY <1>2, FS_Subset
    <3>3. Cardinality(upTo(a)) # Cardinality(upTo(b))
      BY <3>1, <3>2, FS_Subset
    <3> QED BY <3>3
  <2> HIDE DEF at
  <2>2. ~ i < j /\ ~ j < i
    BY <1>5, <2>1
  <2> QED BY <1>3, <2>2
<1>6. at \in Injection(K, D)
  BY <1>4, <1>5 DEF Injection, IsInjective
<1>7. IsFiniteSet(D) /\ Cardinality(D) = n
  BY <1>2, FS_Interval
<1>8. at \in Surjection(K, D)
  BY <1>2, <1>6, <1>7, FS_Injection
<1>9. ASSUME NEW k \in D PROVE \E i \in K : Cardinality(upTo(i)) = k
  BY <1>8 DEF Surjection
<1> DEFINE pos(k) == CHOOSE i \in K : Cardinality(upTo(i)) = k
<1>10. ASSUME NEW k \in D PROVE pos(k) \in K
  BY <1>9
<1>11. RecordsAt(K) = [k \in D |-> data[pos(k)]]
  BY DEF RecordsAt
<1>12. \A i \in K : data[i] \in R
  BY <1>1
<1>a. ASSUME NEW i \in K PROVE at[i] \in D /\ pos(at[i]) = i
  <2>1. at[i] \in D /\ Cardinality(upTo(i)) = at[i]
    BY <1>4
  <2>2. pos(at[i]) \in K /\ Cardinality(upTo(pos(at[i]))) = at[i]
    BY <1>9, <2>1
  <2>3. at[pos(at[i])] = at[i]
    BY <2>2
  <2> QED BY <1>5, <2>1, <2>2, <2>3
<1> HIDE DEF pos
<1>13. RecordsAt(K) \in [1 .. n -> R]
  BY <1>10, <1>11, <1>12
<1>14. ASSUME NEW i \in K PROVE \E k \in DOMAIN RecordsAt(K) : RecordsAt(K)[k] = data[i]
  BY <1>11, <1>a
<1>15. RecordsAt(K) \in Seq(R)
  BY <1>2, <1>13, SeqDef
<1>16. \A k \in DOMAIN RecordsAt(K) : \E i \in K : RecordsAt(K)[k] = data[i]
  BY <1>10, <1>11
<1> QED BY <1>14, <1>15, <1>16

\* What is left of the records when a node ends.
LEMMA RecordsBefore ==
    ASSUME NEW R, data \in Seq(R)
    PROVE  /\ DataBefore \in Seq(R)
           /\ \A k \in DOMAIN DataBefore : \E i \in DOMAIN data :
                  /\ DataBefore[k] = data[i]
                  /\ human = cur => data[i].inner \/ data[i].node # cur
           /\ \A i \in DOMAIN data : data[i].inner =>
                  \E k \in DOMAIN DataBefore : DataBefore[k] = data[i]
<1>1. CASE human = cur
  <2> DEFINE K == {i \in DOMAIN data : data[i].inner \/ data[i].node # cur}
  <2>1. DataBefore = RecordsAt(K)
    BY <1>1 DEF DataBefore
  <2>2. K \subseteq DOMAIN data
    OBVIOUS
  <2> HIDE DEF K
  <2>3. /\ RecordsAt(K) \in Seq(R)
        /\ \A k \in DOMAIN RecordsAt(K) : \E i \in K : RecordsAt(K)[k] = data[i]
        /\ \A i \in K : \E k \in DOMAIN RecordsAt(K) : RecordsAt(K)[k] = data[i]
    BY <2>2, RecordsListed
  <2>4. /\ \A i \in K : i \in DOMAIN data /\ (data[i].inner \/ data[i].node # cur)
        /\ \A i \in DOMAIN data : data[i].inner => i \in K
    BY DEF K
  <2> DEFINE left == RecordsAt(K)
  <2>5. /\ left \in Seq(R)
        /\ \A k \in DOMAIN left : \E i \in K : left[k] = data[i]
        /\ \A i \in K : \E k \in DOMAIN left : left[k] = data[i]
    BY <2>3
  <2> HIDE DEF left
  <2>6. \A k \in DOMAIN left : \E i \in DOMAIN data :
            left[k] = data[i] /\ (data[i].inner \/ data[i].node # cur)
    BY <2>4, <2>5
  <2>7. \A i \in DOMAIN data : data[i].inner => \E k \in DOMAIN left : left[k] = data[i]
    BY <2>4, <2>5
  <2> QED BY <2>1, <2>5, <2>6, <2>7 DEF left
<1>2. CASE human # cur
  BY <1>2 DEF DataBefore
<1> QED BY <1>1, <1>2

LEMMA RecordKinds ==
    ASSUME NEW n \in Node, NEW s \in Status
    PROVE  /\ Rec(n, s) \in Record
           /\ [node |-> n, inner |-> TRUE, status |-> s] \in Record
           /\ Rec(n, s).status = s /\ Rec(n, s).node = n /\ ~ Rec(n, s).inner
BY DEF Rec, Record

\* A record is added.
LEMMA Added ==
    ASSUME NEW s \in Seq(Record), NEW r \in Record
    PROVE  /\ Append(s, r) \in Seq(Record) /\ Append(s, r) # <<>>
           /\ Len(Append(s, r)) = Len(s) + 1 /\ Len(s) \in Nat
           /\ Last(Append(s, r)) = r /\ Front(Append(s, r)) = s
           /\ \A i \in 1 .. Len(s) : Append(s, r)[i] = s[i]
           /\ Append(s, r)[Len(s) + 1] = r
<1> DEFINE t == Append(s, r)
<1>1. /\ t \in Seq(Record) /\ t # <<>> /\ Len(t) = Len(s) + 1 /\ Len(s) \in Nat
      /\ \A i \in 1 .. Len(s) : t[i] = s[i]
      /\ t[Len(s) + 1] = r
  BY AppendProperties
<1> HIDE DEF t
<1>2. Last(t) = r
  BY <1>1 DEF Last
<1>3. Front(t) = s
  <2>1. Front(t) = SubSeq(t, 1, Len(s))
    BY <1>1 DEF Front
  <2>2. /\ Front(t) \in Seq(Record) /\ Len(Front(t)) = Len(s)
        /\ \A i \in 1 .. Len(s) : Front(t)[i] = s[i]
    BY <1>1, <2>1
  <2> QED BY <2>2, SeqEqual
<1> QED BY <1>1, <1>2, <1>3 DEF t
----------------------------------------------------------------------------
(* Types, the row and the question under way.                                *)

LEMMA FlowTyped ==
    ASSUME flow \in Flows
    PROVE  /\ flow.kind \in [Node -> Kinds] /\ flow.edges \in Seq(Edge)
           /\ flow.back \in [Node -> Node] /\ flow.maxLoop \in Nat \ {0}
           /\ flow.asks \subseteq Node
BY FlowAssumption DEF Flow

LEMMA ReadyKnown ==
    ASSUME flow \in Flows, NEW n, NEW out
    PROVE  /\ ReadyChildren(n, out) \subseteq Children(n, out)
           /\ Children(n, out) \subseteq Node
           /\ IsFiniteSet(ReadyChildren(n, out))
<1>1. Children(n, out) \subseteq Node
  BY EdgesKnown DEF Children
<1>2. ReadyChildren(n, out) \subseteq Children(n, out)
  BY DEF ReadyChildren
<1> QED BY <1>1, <1>2, FlowAssumption, FS_Subset

\* What is queued behind the others when a node ends.
LEMMA QueuedNow ==
    ASSUME TypeOK, cur \in Node, NEW out \in Out, ProcessNodeOutputs(cur, out)
    PROVE  \E ready \in Seq(Node), back \in Seq(Node) :
               /\ queue' = (queue \o ready) \o back
               /\ ready \in SetToSeqs(ReadyChildren(cur, out))
               /\ back = IF LoopsBack(cur) THEN <<flow.back[cur]>> ELSE <<>>
<1>1. flow \in Flows /\ queue \in Seq(Node)
  BY DEF TypeOK
<1>2. PICK ready \in SetToSeqs(ReadyChildren(cur, out)) :
        queue' = queue \o ready \o (IF LoopsBack(cur) THEN <<flow.back[cur]>> ELSE <<>>)
  BY DEF ProcessNodeOutputs
<1>3. ready \in Seq(ReadyChildren(cur, out)) /\ ReadyChildren(cur, out) \subseteq Node
  BY <1>1, ReadyKnown, Listed
<1>4. ready \in Seq(Node)
  BY <1>3, SeqMonotonic
<1> DEFINE back == IF LoopsBack(cur) THEN <<flow.back[cur]>> ELSE <<>>
<1>5. back \in Seq(Node)
  <2>1. flow.back[cur] \in Node
    BY <1>1, FlowTyped
  <2> QED BY <2>1
<1> QED BY <1>2, <1>4, <1>5

LEMMA OutputsTyped ==
    ASSUME TypeOK, cur \in Node, NEW out \in Out, ProcessNodeOutputs(cur, out)
    PROVE  /\ queue' \in Seq(Node) /\ waiting' \in [Node -> SUBSET Node]
           /\ loops' \in [Node -> Nat] /\ jumps' \in [Node -> Nat]
           /\ taken' \in [Node -> [Out -> Nat]]
<1>1. /\ flow \in Flows /\ queue \in Seq(Node) /\ waiting \in [Node -> SUBSET Node]
      /\ loops \in [Node -> Nat] /\ jumps \in [Node -> Nat] /\ taken \in [Node -> [Out -> Nat]]
  BY DEF TypeOK
<1>2. queue' \in Seq(Node)
  <2>1. PICK ready \in Seq(Node), back \in Seq(Node) : queue' = (queue \o ready) \o back
    BY QueuedNow
  <2>2. queue \o ready \in Seq(Node)
    BY <1>1, ConcatProperties
  <2> QED BY <2>1, <2>2, ConcatProperties
<1>3. waiting' \in [Node -> SUBSET Node]
  BY <1>1 DEF ProcessNodeOutputs, Received
<1>4. loops' \in [Node -> Nat] /\ jumps' \in [Node -> Nat]
  BY <1>1 DEF ProcessNodeOutputs
<1>5. taken' \in [Node -> [Out -> Nat]]
  BY <1>1 DEF ProcessNodeOutputs
<1> QED BY <1>2, <1>3, <1>4, <1>5

LEMMA Bounds == Items \in Nat /\ MaxIterations \in Nat /\ MaxFails \in Nat /\ MaxResumes \in Nat
BY BoundsAssumption

LEMMA InvInit == Init => IInv
<1> SUFFICES ASSUME Init PROVE IInv
  OBVIOUS
<1>1. row.state = "none" /\ row.data = <<>> /\ data = <<>> /\ pc = "idle" /\ human = NoNode
      /\ ~ resumed
  BY DEF Init, NoRow
<1>2. TypeOK
  <2>1. /\ queue = <<>> /\ data = <<>> /\ row = [state |-> "none", data |-> <<>>]
        /\ cur = NoNode /\ item = 0 /\ human = NoNode
    BY DEF Init, NoRow
  <2>2. /\ waiting \in [Node -> SUBSET Node] /\ loops \in [Node -> Nat]
        /\ jumps \in [Node -> Nat] /\ taken \in [Node -> [Out -> Nat]]
    BY DEF Init
  <2>3. /\ queue \in Seq(Node) /\ data \in Seq(Record) /\ item \in 0 .. Items
        /\ row \in [state: Status \cup {"none", "INPROGRESS"}, data: Seq(Record)]
    BY <2>1, Bounds
  <2> QED BY <2>1, <2>2, <2>3 DEF Init, TypeOK
<1>3. \A n \in Node : waiting[n] = {} /\ \A o \in Out : taken[n][o] = 0
  BY DEF Init
<1> QED BY <1>1, <1>2, <1>3
        DEF IInv, RowMatchesRecords, FailedResumeCanBeRetried, RowKnown, RunKnown

LEMMA InvStart == ASSUME IInv, Start PROVE IInv'
<1>1. /\ pc = "idle" /\ row.state = "none" /\ pc' = "loop" /\ queue' = <<Root>>
      /\ row' = [state |-> "INPROGRESS", data |-> <<>>]
      /\ data = <<>> /\ human = NoNode /\ data' = data /\ human' = human
  BY DEF Start, IInv, RowKnown
<1>2. TypeOK'
  <2>1. Root \in Node
    BY OneRoot DEF IInv, TypeOK
  <2> QED BY <1>1, <2>1 DEF IInv, TypeOK, Start, bounds, history
<1>3. Unbroken(data)'
  BY <1>1 DEF Unbroken
<1> QED BY <1>1, <1>2, <1>3
        DEF IInv, RowMatchesRecords, FailedResumeCanBeRetried, RowKnown, RunKnown

LEMMA InvTake == ASSUME IInv, TakeNode PROVE IInv'
<1>1. /\ pc = "loop" /\ queue # <<>> /\ pc' = "node" /\ cur' = Head(queue)
      /\ queue' = Tail(queue) /\ item' = 0 /\ iterations' = iterations + 1
      /\ UNCHANGED <<flow, waiting, loops, data, human, resumed, aborted, row, bounds, history>>
  BY DEF TakeNode
<1>2. queue \in Seq(Node) /\ row.state = "INPROGRESS" /\ RunKnown
  BY <1>1 DEF IInv, TypeOK, RunKnown
<1>3. TypeOK'
  <2>1. Head(queue) \in Node /\ Tail(queue) \in Seq(Node)
    BY <1>1, <1>2, HeadTailProperties
  <2>2. item' \in 0 .. Items /\ iterations' \in Nat
    BY <1>1, Bounds DEF IInv, TypeOK
  <2> QED BY <1>1, <2>1, <2>2 DEF IInv, TypeOK, bounds, history
<1>4. Unbroken(data)' <=> Unbroken(data)
  BY <1>1 DEF Unbroken
<1>5. human # NoNode => Head(queue) = human /\ Tail(queue) = <<>>
  BY <1>1, <1>2 DEF RunKnown
<1>6. RunKnown'
  BY <1>1, <1>2, <1>4, <1>5 DEF RunKnown
<1> QED BY <1>1, <1>2, <1>3, <1>6
        DEF IInv, RowMatchesRecords, FailedResumeCanBeRetried, RowKnown

\* The run ends with a record of an error or of the abort.
LEMMA InvEnds == ASSUME IInv, TakeAborted \/ FailAborted \/ Fail PROVE IInv'
<1>1. PICK n \in Node, s \in {"TERMINATED", "ERROR"} :
        Ends(n, s) /\ (s = "ERROR" => pc = "node")
  <2>1. pc = "node" => cur \in Node
    BY DEF IInv, TypeOK
  <2>2. queue # <<>> => Head(queue) \in Node
    BY DEF IInv, TypeOK
  <2> QED BY <2>1, <2>2 DEF TakeAborted, FailAborted, Fail
<1>2. /\ data' = Append(data, Rec(n, s)) /\ row' = [state |-> s, data |-> data'] /\ pc' = "idle"
  BY <1>1 DEF Ends
<1>3. data \in Seq(Record) /\ Rec(n, s) \in Record /\ s \in Status
  BY RecordKinds DEF IInv, TypeOK, Status
<1>4. /\ data' \in Seq(Record) /\ data' # <<>> /\ Last(data') = Rec(n, s) /\ Front(data') = data
      /\ Len(data') = Len(data) + 1 /\ data'[Len(data')] = Rec(n, s) /\ Len(data) \in Nat
      /\ \A i \in 1 .. Len(data) : data'[i] = data[i]
  <2> DEFINE r == Rec(n, s)
  <2>1. data' = Append(data, r) /\ r \in Record
    BY <1>2, <1>3
  <2> HIDE DEF r
  <2>2. /\ data' \in Seq(Record) /\ data' # <<>> /\ Last(data') = r /\ Front(data') = data
        /\ Len(data') = Len(data) + 1 /\ data'[Len(data) + 1] = r /\ Len(data) \in Nat
        /\ \A i \in 1 .. Len(data) : data'[i] = data[i]
    BY <1>3, <2>1, Added
  <2> QED BY <2>2 DEF r
<1>a. /\ iterations \in Nat /\ fails \in Nat /\ queue \in Seq(Node)
  BY DEF IInv, TypeOK
<1>5. /\ pc \in {"loop", "node"}
      /\ UNCHANGED <<flow, cur, item, waiting, loops, human, resumed, aborted, taken, jumps, halted>>
      /\ queue' = queue \/ (queue # <<>> /\ queue' = Tail(queue))
      /\ iterations' \in Nat /\ fails' \in Nat /\ resumes' = resumes
  <2>1. CASE TakeAborted
    BY <1>a, <2>1 DEF TakeAborted, bounds, history
  <2>2. CASE FailAborted
    BY <1>a, <2>2 DEF FailAborted, engine, bounds, history
  <2>3. CASE Fail
    BY <1>a, <2>3 DEF Fail, engine, history
  <2> QED BY <2>1, <2>2, <2>3
<1>6. RunKnown /\ Unbroken(data)
  BY <1>5 DEF IInv, RunKnown
<1>7. TypeOK'
  <2>1. queue' \in Seq(Node)
    BY <1>5, <1>a, HeadTailProperties
  <2> QED BY <1>2, <1>3, <1>4, <1>5, <2>1 DEF IInv, TypeOK
<1>8. RowMatchesRecords'
  BY <1>2, <1>3, <1>4, RecordKinds DEF RowMatchesRecords
<1>9. FailedResumeCanBeRetried'
  <2> SUFFICES ASSUME s = "ERROR", human # NoNode PROVE Resumable'
    BY <1>2, <1>5 DEF FailedResumeCanBeRetried
  <2>1. data # <<>> /\ Last(data).status = "STOPPED"
    BY <1>1, <1>6, <1>5 DEF RunKnown
  <2>2. Len(data) >= 1
    BY <1>3, <2>1
  <2>3. /\ row'.state = "ERROR" /\ row'.data = data' /\ Len(data') >= 2 /\ Len(data') - 1 = Len(data)
        /\ data'[Len(data')].status = "ERROR" /\ data'[Len(data)].status = "STOPPED"
    <3>1. row'.state = "ERROR" /\ row'.data = data' /\ Len(data) \in 1 .. Len(data)
      BY <1>2, <1>4, <2>2
    <3>2. data'[Len(data)] = data[Len(data)] /\ data'[Len(data')].status = "ERROR"
      <4>1. Rec(n, s).status = "ERROR"
        BY DEF Rec
      <4> QED BY <1>4, <3>1, <4>1
    <3> QED BY <1>4, <2>1, <2>2, <3>1, <3>2 DEF Last
  <2> QED BY <2>3 DEF Resumable, FailedAfterStop
<1>10. RowKnown'
  <2>1. Unbroken(Front(row.data))'
    BY <1>2, <1>4, <1>6 DEF Unbroken
  <2> QED BY <1>2, <1>3, <2>1 DEF RowKnown, Status
<1> QED BY <1>2, <1>7, <1>8, <1>9, <1>10 DEF IInv, RunKnown

LEMMA AddedUnbroken ==
    ASSUME NEW s \in Seq(Record), NEW r \in Record, r.status \in {"FINISHED", "STOPPED"},
           \A i \in DOMAIN s : /\ s[i].status \in {"FINISHED", "STOPPED"}
                               /\ s[i].status = "STOPPED" => s[i].inner
    PROVE  /\ Unbroken(Append(s, r))
           /\ \A i \in DOMAIN Append(s, r) :
                 Append(s, r)[i].status = "STOPPED" /\ ~ Append(s, r)[i].inner =>
                     Append(s, r)[i] = r
<1> DEFINE t == Append(s, r)
<1>1. /\ t \in Seq(Record) /\ Len(t) = Len(s) + 1 /\ Len(s) \in Nat /\ t[Len(s) + 1] = r
      /\ \A i \in 1 .. Len(s) : t[i] = s[i]
  BY Added
<1> HIDE DEF t
<1>2. \A i \in DOMAIN t : (i = Len(t) /\ t[i] = r) \/ (i \in DOMAIN s /\ t[i] = s[i])
  BY <1>1
<1>3. Unbroken(t)
  BY <1>2 DEF Unbroken
<1> QED BY <1>2, <1>3 DEF t

\* When a node ends its question is dropped, and there is no other.
LEMMA BeforeUnbroken ==
    ASSUME IInv, pc = "node"
    PROVE  /\ DataBefore \in Seq(Record)
           /\ \A k \in DOMAIN DataBefore :
                 /\ DataBefore[k].status \in {"FINISHED", "STOPPED"}
                 /\ DataBefore[k].status = "STOPPED" => DataBefore[k].inner
<1>1. data \in Seq(Record) /\ RunKnown /\ NoNode \notin Node
  BY FlowAssumption DEF IInv, TypeOK
<1>2. DataBefore \in Seq(Record)
  BY <1>1, RecordsBefore
<1>3. ASSUME NEW k \in DOMAIN DataBefore
      PROVE  /\ DataBefore[k].status \in {"FINISHED", "STOPPED"}
             /\ DataBefore[k].status = "STOPPED" => DataBefore[k].inner
  <2>1. PICK i \in DOMAIN data : /\ DataBefore[k] = data[i]
                                 /\ human = cur => data[i].inner \/ data[i].node # cur
    BY <1>1, RecordsBefore
  <2>2. data[i] \in Record
    BY <1>1
  <2>3. /\ data[i].status \in {"FINISHED", "STOPPED"}
        /\ data[i].status = "STOPPED" /\ ~ data[i].inner => data[i].node = human
    BY <1>1 DEF RunKnown, Unbroken
  <2>4. human # NoNode => cur = human
    BY <1>1 DEF RunKnown
  <2>5. data[i].node # NoNode /\ data[i].inner \in BOOLEAN
    BY <1>1, <2>2 DEF Record
  <2> QED BY <2>1, <2>3, <2>4, <2>5
<1> QED BY <1>2, <1>3

LEMMA InvFinish == ASSUME IInv, NEW out \in Out, Finish(out) PROVE IInv'
<1>1. /\ pc = "node" /\ pc' = "loop" /\ data' = Append(DataBefore, Rec(cur, "FINISHED"))
      /\ ProcessNodeOutputs(cur, out)
      /\ human' = IF human = cur \/ LoopsBack(cur) THEN NoNode ELSE human
      /\ UNCHANGED <<flow, cur, item, resumed, iterations, aborted, row, fails, resumes, halted>>
  BY DEF Finish, bounds
<1>2. TypeOK /\ RunKnown /\ cur \in Node /\ row.state = "INPROGRESS"
  BY <1>1 DEF IInv, TypeOK, RunKnown
<1>3. human' = NoNode
  BY <1>1, <1>2 DEF RunKnown
<1>4. Rec(cur, "FINISHED") \in Record /\ Rec(cur, "FINISHED").status = "FINISHED"
  BY <1>2, RecordKinds DEF Status
<1>5. data' \in Seq(Record)
  BY <1>1, <1>4, BeforeUnbroken, Added
<1>6. Unbroken(data)'
  <2>1. Unbroken(data')
    BY <1>1, <1>4, BeforeUnbroken, AddedUnbroken
  <2> QED BY <2>1 DEF Unbroken
<1>7. \A i \in DOMAIN data' : ~ (data'[i].status = "STOPPED" /\ ~ data'[i].inner)
  <2>1. \A i \in DOMAIN data' :
            data'[i].status = "STOPPED" /\ ~ data'[i].inner => data'[i] = Rec(cur, "FINISHED")
    BY <1>1, <1>4, BeforeUnbroken, AddedUnbroken
  <2> QED BY <1>4, <2>1
<1>8. TypeOK'
  <2>1. /\ queue' \in Seq(Node) /\ waiting' \in [Node -> SUBSET Node]
        /\ loops' \in [Node -> Nat] /\ jumps' \in [Node -> Nat]
        /\ taken' \in [Node -> [Out -> Nat]]
    BY <1>1, <1>2, OutputsTyped
  <2> QED BY <1>1, <1>2, <1>3, <1>5, <2>1 DEF TypeOK
<1>9. RunKnown'
  BY <1>1, <1>2, <1>3, <1>6, <1>7 DEF RunKnown
<1> QED BY <1>1, <1>2, <1>8, <1>9
        DEF IInv, RowMatchesRecords, FailedResumeCanBeRetried, RowKnown

LEMMA InvStop == ASSUME IInv, Stop PROVE IInv'
<1>1. /\ pc = "node" /\ pc' = "idle" /\ data' = Append(DataBefore, Rec(cur, "STOPPED"))
      /\ row' = [state |-> "STOPPED", data |-> data']
      /\ human' = IF human = cur THEN NoNode ELSE human
      /\ UNCHANGED <<flow, cur, item, queue, waiting, loops, resumed, iterations, aborted,
                     fails, resumes, taken, jumps, halted>>
  BY DEF Stop, bounds, history
<1>2. TypeOK /\ cur \in Node
  BY <1>1 DEF IInv, TypeOK
<1>3. Rec(cur, "STOPPED") \in Record /\ Rec(cur, "STOPPED").status = "STOPPED"
  BY <1>2, RecordKinds DEF Status
<1>4. data' \in Seq(Record) /\ Len(data') \in DOMAIN data' /\ data'[Len(data')].status = "STOPPED"
  <2>1. /\ data' \in Seq(Record) /\ Len(data') = Len(DataBefore) + 1 /\ Len(DataBefore) \in Nat
        /\ data'[Len(DataBefore) + 1] = Rec(cur, "STOPPED")
    BY <1>1, <1>3, BeforeUnbroken, Added
  <2> QED BY <1>3, <2>1
<1>5. Unbroken(data')
  BY <1>1, <1>3, BeforeUnbroken, AddedUnbroken
<1>6. TypeOK'
  BY <1>1, <1>2, <1>4 DEF TypeOK, Status
<1>7. row'.state = "STOPPED" /\ row'.data = data'
  BY <1>1
<1>8. RowMatchesRecords'
  BY <1>4, <1>7 DEF RowMatchesRecords
<1>9. RowKnown'
  BY <1>5, <1>7 DEF RowKnown, Unbroken
<1> QED BY <1>1, <1>6, <1>7, <1>8, <1>9 DEF IInv, FailedResumeCanBeRetried, RunKnown

LEMMA InvIterate ==
    ASSUME IInv, NEW s \in {"FINISHED", "STOPPED"}, IterateItem(s) PROVE IInv'
<1> DEFINE r == [node |-> cur, inner |-> TRUE, status |-> s]
<1>1. /\ pc = "node" /\ item < Items /\ ~ resumed /\ item' = item + 1
      /\ data' = Append(data, r) /\ row' = [row EXCEPT !.data = data']
      /\ UNCHANGED <<flow, pc, cur, queue, waiting, loops, human, resumed, iterations, aborted,
                     fails, resumes, taken, jumps, halted>>
  BY DEF IterateItem, bounds, history
<1>2. /\ TypeOK /\ RunKnown /\ cur \in Node /\ row.state = "INPROGRESS" /\ NoNode \notin Node
      /\ data \in Seq(Record)
  BY <1>1, FlowAssumption DEF IInv, TypeOK, RunKnown
<1>3. human = NoNode
  BY <1>1, <1>2 DEF RunKnown
<1>4. r \in Record /\ r.status \in {"FINISHED", "STOPPED"} /\ r.inner
  BY <1>2, RecordKinds DEF Status
<1> HIDE DEF r
<1>5. ASSUME NEW i \in DOMAIN data
      PROVE  /\ data[i].status \in {"FINISHED", "STOPPED"}
             /\ data[i].status = "STOPPED" => data[i].inner
  <2>1. data[i] \in Record
    BY <1>2
  <2>2. data[i].node # NoNode /\ data[i].inner \in BOOLEAN
    BY <1>2, <2>1 DEF Record
  <2> QED BY <1>1, <1>2, <1>3, <2>2 DEF RunKnown, Unbroken
<1>6. data' \in Seq(Record)
  BY <1>1, <1>2, <1>4, Added
<1>7. Unbroken(data') /\ \A i \in DOMAIN data' : data'[i].status = "STOPPED" => data'[i].inner
  BY <1>1, <1>2, <1>4, <1>5, AddedUnbroken
<1>8. row'.state = "INPROGRESS" /\ row'.data = data'
  BY <1>1, <1>2 DEF TypeOK
<1>9. TypeOK'
  <2>1. row \in [state: Status \cup {"none", "INPROGRESS"}, data: Seq(Record)]
    BY <1>2 DEF TypeOK
  <2>2. row' = [state |-> row.state, data |-> data']
    BY <1>1, <2>1
  <2>3. row' \in [state: Status \cup {"none", "INPROGRESS"}, data: Seq(Record)]
    BY <1>6, <2>1, <2>2
  <2>4. item \in 0..Items
    BY <1>2 DEF TypeOK
  <2>5. item' \in 0..Items
    BY <1>1, <2>4, Bounds
  <2> QED BY <1>1, <1>2, <1>6, <2>3, <2>5 DEF TypeOK
<1>10. RunKnown'
  BY <1>1, <1>2, <1>3, <1>7, <1>8 DEF RunKnown, Unbroken
<1> QED BY <1>1, <1>8, <1>9, <1>10
        DEF IInv, RowMatchesRecords, FailedResumeCanBeRetried, RowKnown

LEMMA InvEndRun == ASSUME IInv, EndRun PROVE IInv'
<1>1. /\ pc = "loop" /\ pc' = "idle" /\ row' = [state |-> FinalStatus, data |-> data]
      /\ UNCHANGED <<flow, cur, item, queue, waiting, loops, data, human, resumed, iterations,
                     aborted, fails, resumes, taken, jumps, halted>>
  BY DEF EndRun, engine, bounds, history
<1>2. TypeOK /\ RunKnown /\ Unbroken(data)
  BY <1>1 DEF IInv, RunKnown
<1>3. /\ FinalStatus \in {"FINISHED", "STOPPED"}
      /\ FinalStatus = "FINISHED" => \A i \in DOMAIN data : data[i].status = "FINISHED"
      /\ FinalStatus = "STOPPED" => \E i \in DOMAIN data : data[i].status = "STOPPED"
  BY <1>2 DEF FinalStatus, Unbroken
<1>4. row'.state = FinalStatus /\ row'.data = data
  BY <1>1
<1>5. TypeOK'
  BY <1>1, <1>2, <1>3 DEF TypeOK, Status
<1>6. RowMatchesRecords'
  BY <1>3, <1>4 DEF RowMatchesRecords
<1>7. RowKnown'
  BY <1>2, <1>3, <1>4 DEF RowKnown, Unbroken
<1> QED BY <1>1, <1>3, <1>4, <1>5, <1>6, <1>7 DEF IInv, FailedResumeCanBeRetried, RunKnown

\* The records a resumption keeps, and the question among them.
Kept == IF row.state = "ERROR" THEN Front(row.data) ELSE row.data

LEMMA KeptKnown ==
    ASSUME IInv, Resumable
    PROVE  /\ Kept \in Seq(Record) /\ Unbroken(Kept)
           /\ StoppedAt \in DOMAIN Kept /\ Kept[StoppedAt] = row.data[StoppedAt]
           /\ Kept[StoppedAt].status = "STOPPED" /\ Kept[StoppedAt] \in Record
           /\ Kept # <<>>
           /\ \A i \in DOMAIN Kept :
                 /\ i \in DOMAIN row.data /\ Kept[i] = row.data[i]
                 /\ Kept[i].status = "STOPPED" /\ ~ Kept[i].inner => i = StoppedAt
           /\ ~ Kept[StoppedAt].inner => Last(Kept).status = "STOPPED"
           /\ \A i \in DOMAIN row.data : row.data[i].status = "STOPPED" => i \in DOMAIN Kept
<1>1. row.data \in Seq(Record) /\ row.state \in {"STOPPED", "ERROR"}
  BY DEF IInv, TypeOK, Resumable, FailedAfterStop
<1>2. DOMAIN row.data = 1 .. Len(row.data) /\ Len(row.data) \in Nat
  BY <1>1
<1>3. \E i \in DOMAIN row.data : row.data[i].status = "STOPPED"
  <2>1. CASE row.state = "STOPPED"
    BY <2>1 DEF IInv, RowMatchesRecords
  <2>2. CASE row.state = "ERROR"
    <3>1. Len(row.data) >= 2 /\ row.data[Len(row.data) - 1].status = "STOPPED"
      BY <2>2 DEF Resumable, FailedAfterStop
    <3> QED BY <1>2, <3>1
  <2> QED BY <1>1, <2>1, <2>2
<1>4. /\ StoppedAt \in DOMAIN row.data /\ row.data[StoppedAt].status = "STOPPED"
      /\ \A i \in DOMAIN row.data : row.data[i].status = "STOPPED" => i <= StoppedAt
  BY <1>1, <1>3, StoppedRecord
<1>5. /\ Kept \in Seq(Record) /\ Unbroken(Kept)
      /\ \A i \in DOMAIN Kept : i \in DOMAIN row.data /\ Kept[i] = row.data[i]
      /\ StoppedAt \in DOMAIN Kept
      /\ \A i \in DOMAIN row.data : row.data[i].status = "STOPPED" => i \in DOMAIN Kept
  <2>1. CASE row.state = "STOPPED"
    BY <1>1, <1>4, <2>1 DEF Kept, IInv, RowKnown
  <2>2. CASE row.state = "ERROR"
    <3>1. Len(row.data) >= 2 /\ row.data[Len(row.data)].status = "ERROR"
      BY <2>2 DEF Resumable, FailedAfterStop
    <3>2. /\ Kept \in Seq(Record) /\ Len(Kept) = Len(row.data) - 1
          /\ \A i \in 1 .. (Len(row.data) - 1) : Kept[i] = row.data[i]
      <4>1. Kept = SubSeq(row.data, 1, Len(row.data) - 1)
        BY <2>2 DEF Kept, Front
      <4> QED BY <1>1, <1>2, <3>1, <4>1
    <3>3. Unbroken(Kept)
      BY <2>2 DEF Kept, IInv, RowKnown
    <3>4. \A i \in DOMAIN row.data : row.data[i].status = "STOPPED" => i # Len(row.data)
      BY <3>1
    <3> QED BY <1>2, <1>4, <3>2, <3>3, <3>4
  <2> QED BY <1>1, <2>1, <2>2
<1>6. Kept[StoppedAt] = row.data[StoppedAt] /\ Kept[StoppedAt] \in Record
  BY <1>5
<1>7. DOMAIN Kept = 1 .. Len(Kept) /\ Len(Kept) \in Nat
  BY <1>5
<1>8. ASSUME NEW i \in DOMAIN Kept, Kept[i].status = "STOPPED", ~ Kept[i].inner
      PROVE  i = StoppedAt
  <2>1. i = Len(Kept)
    BY <1>5, <1>8 DEF Unbroken
  <2>2. i <= StoppedAt
    BY <1>4, <1>5, <1>8
  <2> QED BY <1>5, <1>7, <2>1, <2>2
<1>9. ~ Kept[StoppedAt].inner => Last(Kept).status = "STOPPED"
  BY <1>4, <1>5, <1>6 DEF Unbroken, Last
<1>10. Kept # <<>>
  BY <1>5, <1>7
<1> QED BY <1>4, <1>5, <1>6, <1>8, <1>9, <1>10

\* The parts of Resume.
LEMMA Resumption ==
    ASSUME Resume
    PROVE  /\ pc = "idle" /\ Resumable /\ pc' = "loop" /\ resumed' = TRUE
           /\ data' = Kept /\ row' = [state |-> "INPROGRESS", data |-> Kept]
           /\ human' = row.data[StoppedAt].node
           /\ queue' = IF row.data[StoppedAt].inner THEN <<>> ELSE <<human'>>
           /\ waiting' = [n \in Node |-> {}] /\ loops' = [n \in Node |-> 0]
           /\ cur' = NoNode /\ item' = 0 /\ iterations' = 0 /\ aborted' = FALSE
           /\ resumes' = resumes + 1
           /\ UNCHANGED <<flow, fails, taken, jumps, halted>>
BY DEF Resume, Kept, history

LEMMA InvResume == ASSUME IInv, Resume PROVE IInv'
<1> DEFINE stop == row.data[StoppedAt]
<1>1. /\ Kept \in Seq(Record) /\ Unbroken(Kept) /\ Kept # <<>>
      /\ stop \in Record
      /\ \A i \in DOMAIN Kept : Kept[i].status = "STOPPED" /\ ~ Kept[i].inner => Kept[i] = stop
      /\ ~ stop.inner => Last(Kept).status = "STOPPED"
  BY Resumption, KeptKnown
<1>2. human' = stop.node /\ human' \in Node
  BY <1>1, Resumption DEF Record
<1>3. queue' = IF stop.inner THEN <<>> ELSE <<human'>>
  BY Resumption
<1>4. TypeOK'
  <2>1. queue' \in Seq(Node)
    BY <1>2, <1>3
  <2>2. row' \in [state: Status \cup {"none", "INPROGRESS"}, data: Seq(Record)]
    BY <1>1, Resumption
  <2>3. /\ waiting' \in [Node -> SUBSET Node] /\ loops' \in [Node -> Nat]
        /\ resumes' \in Nat /\ item' \in 0 .. Items
    BY Resumption, Bounds DEF IInv, TypeOK
  <2>4. /\ pc' = "loop" /\ resumed' = TRUE /\ data' = Kept /\ cur' = NoNode
        /\ iterations' = 0 /\ aborted' = FALSE
        /\ UNCHANGED <<flow, fails, taken, jumps, halted>>
    BY Resumption
  <2> QED BY <1>1, <1>2, <2>1, <2>2, <2>3, <2>4 DEF IInv, TypeOK
<1>5. row'.state = "INPROGRESS" /\ pc' = "loop" /\ data' = Kept /\ resumed'
  BY Resumption
<1>6. RunKnown'
  <2>1. Unbroken(data)'
    BY <1>1, <1>5 DEF Unbroken
  <2>2. ASSUME NEW i \in DOMAIN data', data'[i].status = "STOPPED", ~ data'[i].inner
        PROVE  data'[i].node = human' /\ queue' = <<human'>>
    <3>1. Kept[i] = stop
      BY <1>1, <1>5, <2>2
    <3> QED BY <1>2, <1>3, <1>5, <2>2, <3>1
  <2>3. queue' # <<>> => data' # <<>> /\ Last(data').status = "STOPPED"
    BY <1>1, <1>3, <1>5
  <2> HIDE DEF stop
  <2> QED BY <1>3, <1>5, <2>1, <2>2, <2>3 DEF RunKnown
<1> QED BY <1>4, <1>5, <1>6 DEF IInv, RowMatchesRecords, FailedResumeCanBeRetried, RowKnown

LEMMA InvRest ==
    ASSUME IInv, ReachIterationLimit \/ Crash \/ ItemFails \/ Abort \/ UNCHANGED vars
    PROVE  IInv'
<1>1. /\ UNCHANGED <<flow, cur, queue, waiting, loops, data, human, resumed, iterations,
                     row, resumes, taken, jumps>>
      /\ pc' = pc \/ (pc # "idle" /\ pc' = "idle" /\ halted')
      /\ item' = item \/ (item < Items /\ item' = item + 1)
      /\ fails' = fails \/ fails' = fails + 1
      /\ halted' = halted \/ halted' = TRUE
      /\ aborted' = aborted \/ aborted' = TRUE
  <2>1. CASE ReachIterationLimit \/ Crash
    BY <2>1 DEF ReachIterationLimit, Crash, engine, bounds
  <2>2. CASE ItemFails
    BY <2>2 DEF ItemFails, history
  <2>3. CASE Abort
    BY <2>3 DEF Abort, engine, bounds, history
  <2>4. CASE UNCHANGED vars
    BY <2>4 DEF vars, engine, bounds, history
  <2> QED BY <2>1, <2>2, <2>3, <2>4
<1>2. TypeOK'
  <2>1. item' \in 0 .. Items /\ fails' \in Nat
    BY <1>1, Bounds DEF IInv, TypeOK
  <2> QED BY <1>1, <2>1 DEF IInv, TypeOK
<1>3. pc # "idle" => row.state = "INPROGRESS"
  BY DEF IInv, RunKnown
<1>4. RowMatchesRecords'
  BY <1>1, <1>3 DEF IInv, RowMatchesRecords
<1>5. RowKnown'
  BY <1>1, <1>3 DEF IInv, RowKnown, Unbroken
<1>6. RunKnown'
  BY <1>1 DEF IInv, RunKnown, Unbroken
<1>7. FailedResumeCanBeRetried'
  BY <1>1, <1>3 DEF IInv, FailedResumeCanBeRetried, Resumable, FailedAfterStop
<1> QED BY <1>2, <1>4, <1>5, <1>6, <1>7 DEF IInv

LEMMA InvNext == IInv /\ [Next]_vars => IInv'
<1> SUFFICES ASSUME IInv, [Next]_vars PROVE IInv'
  OBVIOUS
<1>1. CASE Start
  BY <1>1, InvStart
<1>2. CASE Resume
  BY <1>2, InvResume
<1>3. CASE TakeNode
  BY <1>3, InvTake
<1>4. ASSUME NEW out \in Out, Finish(out) PROVE IInv'
  BY <1>4, InvFinish
<1>5. CASE Stop
  BY <1>5, InvStop
<1>6. ASSUME NEW s \in {"FINISHED", "STOPPED"}, IterateItem(s) PROVE IInv'
  BY <1>6, InvIterate
<1>7. CASE EndRun
  BY <1>7, InvEndRun
<1>8. CASE TakeAborted \/ FailAborted \/ Fail
  BY <1>8, InvEnds
<1>9. CASE ReachIterationLimit \/ Crash \/ ItemFails \/ Abort \/ UNCHANGED vars
  BY <1>9, InvRest
<1> QED BY <1>1, <1>2, <1>3, <1>4, <1>5, <1>6, <1>7, <1>8, <1>9 DEF Next, Run

THEOREM Invariance == Spec => []IInv
BY InvInit, InvNext, PTL DEF Spec

(* The variables of the engine hold values of their kinds; in particular a   *)
(* resumption always finds the record it starts from, in any flow.           *)
THEOREM TypeCorrect == Spec => []TypeOK
<1>1. IInv => TypeOK
  BY DEF IInv
<1> QED BY <1>1, Invariance, PTL

(* executeAgentFlow: whatever fails, stops or is aborted, the row a user     *)
(* sees agrees with the records behind it, and shows a run as under way only *)
(* while there is one or after it ended without its handler.                 *)
THEOREM RowsMatchRecords == Spec => []RowMatchesRecords
<1>1. IInv => RowMatchesRecords
  BY DEF IInv
<1> QED BY <1>1, Invariance, PTL

(* "Found ERROR after STOPPED": in any flow, a node that fails after a human *)
(* answered can be answered again.                                           *)
THEOREM FailedAnswersCanBeRetried == Spec => []FailedResumeCanBeRetried
<1>1. IInv => FailedResumeCanBeRetried
  BY DEF IInv
<1> QED BY <1>1, Invariance, PTL
----------------------------------------------------------------------------
(* Iterations of flows without questions.                                    *)

\* One more record.
LEMMA ItemsAppended ==
    ASSUME data \in Seq(Record), NEW r \in Record, data' = Append(data, r), NEW n
    PROVE  /\ Cardinality(ItemRecords(n)) \in Nat
           /\ Cardinality(ItemRecords(n))' =
                  Cardinality(ItemRecords(n)) + (IF r.inner /\ r.node = n THEN 1 ELSE 0)
<1> DEFINE I == ItemRecords(n)
           k == Len(data) + 1
<1>1. /\ Len(data) \in Nat /\ DOMAIN data = 1 .. Len(data) /\ DOMAIN data' = 1 .. k
      /\ \A i \in 1 .. Len(data) : data'[i] = data[i]
      /\ data'[k] = r
  <2>1. /\ data' \in Seq(Record) /\ Len(data') = Len(data) + 1 /\ Len(data) \in Nat
        /\ \A i \in 1 .. Len(data) : data'[i] = data[i]
        /\ data'[Len(data) + 1] = r
    BY Added
  <2> QED BY <2>1
<1>2. I \subseteq 1 .. Len(data) /\ IsFiniteSet(I) /\ Cardinality(I) \in Nat /\ k \notin I
  <2>1. I \subseteq 1 .. Len(data) /\ IsFiniteSet(1 .. Len(data))
    BY <1>1, FS_Interval DEF ItemRecords
  <2>2. IsFiniteSet(I) /\ Cardinality(I) \in Nat
    BY <2>1, FS_Subset, FS_CardinalityType
  <2> QED BY <1>1, <2>1, <2>2
<1>3. I' = {i \in DOMAIN data' : data'[i].inner /\ data'[i].node = n}
  BY DEF ItemRecords
<1>4. I = {i \in DOMAIN data : data[i].inner /\ data[i].node = n}
  BY DEF ItemRecords
<1>5. I' = I \cup (IF r.inner /\ r.node = n THEN {k} ELSE {})
  <2>1. DOMAIN data' = DOMAIN data \cup {k}
    BY <1>1
  <2> HIDE DEF k
  <2> QED BY <1>1, <1>3, <1>4, <2>1
<1>6. Cardinality(I \cup {k}) = Cardinality(I) + 1
  BY <1>2, FS_AddElement
<1> HIDE DEF I
<1>7. Cardinality(I)' = Cardinality(I')
  OBVIOUS
<1>8. CASE r.inner /\ r.node = n
  BY <1>2, <1>5, <1>6, <1>7, <1>8 DEF I
<1>9. CASE ~ (r.inner /\ r.node = n)
  <2>1. I' = I
    BY <1>5, <1>9
  <2> QED BY <1>2, <1>7, <1>9, <2>1 DEF I
<1> QED BY <1>8, <1>9

\* What joins the records leaves the inner stops where they are.
LEMMA StopsAppended ==
    ASSUME NEW s \in Seq(Record), NEW r \in Record
    PROVE  /\ InnerStop(Append(s, r)) <=> InnerStop(s) \/ (r.status = "STOPPED" /\ r.inner)
           /\ (\A i \in DOMAIN s : s[i].status = "STOPPED" => s[i].inner)
                /\ (r.status = "STOPPED" => r.inner) =>
              \A i \in DOMAIN Append(s, r) :
                  Append(s, r)[i].status = "STOPPED" => Append(s, r)[i].inner
<1> DEFINE t == Append(s, r)
<1>1. /\ t \in Seq(Record) /\ Len(t) = Len(s) + 1 /\ Len(s) \in Nat
      /\ \A i \in 1 .. Len(s) : t[i] = s[i]
      /\ t[Len(s) + 1] = r
  BY Added
<1> HIDE DEF t
<1>2. /\ \A i \in DOMAIN t : t[i] = r \/ (i \in DOMAIN s /\ t[i] = s[i])
      /\ \A i \in DOMAIN s : i \in DOMAIN t /\ t[i] = s[i]
      /\ \E i \in DOMAIN t : t[i] = r
  BY <1>1
<1>3. InnerStop(t) <=> InnerStop(s) \/ (r.status = "STOPPED" /\ r.inner)
  BY <1>2 DEF InnerStop
<1> QED BY <1>2, <1>3 DEF t

LEMMA StopsBefore ==
    ASSUME IInv, pc = "node"
    PROVE  /\ InnerStop(DataBefore) <=> InnerStop(data)
           /\ human = NoNode => DataBefore = data
<1>1. data \in Seq(Record) /\ cur \in Node /\ NoNode \notin Node
  BY FlowAssumption DEF IInv, TypeOK
<1>2. \A k \in DOMAIN DataBefore : \E i \in DOMAIN data : DataBefore[k] = data[i]
  BY <1>1, RecordsBefore
<1>3. \A i \in DOMAIN data : data[i].inner => \E k \in DOMAIN DataBefore : DataBefore[k] = data[i]
  BY <1>1, RecordsBefore
<1>4. InnerStop(DataBefore) <=> InnerStop(data)
  BY <1>2, <1>3 DEF InnerStop
<1> QED BY <1>1, <1>4 DEF DataBefore

ItemsInv == QuietRun /\ ItemsSoFar /\ ItemsRun

LEMMA RanTyped ==
    ASSUME taken \in [Node -> [Out -> Nat]], NEW n \in Node
    PROVE  Ran(n) \in Nat
<1>1. taken[n][0] \in Nat /\ taken[n][1] \in Nat /\ taken[n][2] \in Nat
  BY DEF Out
<1> QED BY <1>1 DEF Ran

LEMMA ItemsInit == Init => ItemsInv
BY DEF Init, NoRow, ItemsInv, QuietRun, ItemsSoFar, ItemsRun

LEMMA ItemsStart == ASSUME IInv, ItemsInv, Start PROVE ItemsInv'
<1>1. /\ pc = "idle" /\ pc' = "loop" /\ data = <<>> /\ data' = <<>> /\ ~ resumed /\ resumed' = resumed
      /\ row' = [state |-> "INPROGRESS", data |-> <<>>] /\ UNCHANGED taken
      /\ \A n \in Node, o \in Out : taken[n][o] = 0
  BY DEF Start, history, IInv, RowKnown
<1>2. ASSUME NEW n \in Node PROVE Ran(n)' = 0 /\ Cardinality(ItemRecords(n))' = 0
  <2>1. Ran(n)' = 0
    BY <1>1 DEF Ran, Out
  <2>2. ItemRecords(n)' = {}
    BY <1>1 DEF ItemRecords
  <2> QED BY <2>1, <2>2, FS_EmptySet
<1>3. Items * 0 = 0
  BY Bounds
<1>4. ItemsSoFar'
  BY <1>1, <1>2, <1>3 DEF ItemsSoFar
<1> QED BY <1>1, <1>4 DEF ItemsInv, QuietRun, ItemsRun

LEMMA ItemsTake == ASSUME IInv, ItemsInv, TakeNode PROVE ItemsInv'
<1>1. /\ pc = "loop" /\ pc' = "node" /\ item' = 0
      /\ UNCHANGED <<flow, data, resumed, fails, aborted, row, taken>>
  BY DEF TakeNode, bounds, history
<1>2. row.state = "INPROGRESS" /\ taken \in [Node -> [Out -> Nat]]
  BY <1>1 DEF IInv, RunKnown, TypeOK
<1>3. \A n \in Node : Ran(n)' = Ran(n) /\ Cardinality(ItemRecords(n))' = Cardinality(ItemRecords(n))
  BY <1>1 DEF Ran, ItemRecords
<1>4. \A n \in Node : Items * Ran(n) + 0 = Items * Ran(n)
  BY <1>2, RanTyped, Bounds
<1>5. ItemsSoFar'
  BY <1>1, <1>3, <1>4 DEF ItemsInv, ItemsSoFar, InnerStop
<1> QED BY <1>1, <1>2, <1>5 DEF ItemsInv, QuietRun, ItemsRun, InnerStop

LEMMA ItemsFinish ==
    ASSUME IInv, ItemsInv, NEW out \in Out, Finish(out) PROVE ItemsInv'
<1> DEFINE r == Rec(cur, "FINISHED")
<1>1. /\ pc = "node" /\ pc' = "loop" /\ data' = Append(DataBefore, r)
      /\ flow.kind[cur] = "iteration" => item = Items
      /\ taken' = [taken EXCEPT ![cur][out] = @ + 1]
      /\ UNCHANGED <<flow, cur, item, resumed, aborted, row, fails>>
  BY DEF Finish, ProcessNodeOutputs, bounds
<1>2. /\ cur \in Node /\ taken \in [Node -> [Out -> Nat]] /\ data \in Seq(Record)
      /\ row.state = "INPROGRESS" /\ item \in Nat
  BY <1>1, Bounds DEF IInv, RunKnown, TypeOK
<1>3. r \in Record /\ r.status = "FINISHED" /\ ~ r.inner
  BY <1>2, RecordKinds DEF Status
<1> HIDE DEF r
<1>4. DataBefore \in Seq(Record)
  BY <1>1, BeforeUnbroken
<1>5. InnerStop(data') <=> InnerStop(data)
  BY <1>1, <1>3, <1>4, StopsBefore, StopsAppended
<1>6. \A i \in DOMAIN data' : data'[i].status = "STOPPED" => data'[i].inner
  BY <1>1, <1>3, <1>4, BeforeUnbroken, StopsAppended
<1>7. QuietRun'
  <2>1. InnerStop(data)' <=> InnerStop(data)
    BY <1>5 DEF InnerStop
  <2> QED BY <1>1, <1>6, <2>1 DEF ItemsInv, QuietRun
<1>8. ASSUME fails = 0, ~ aborted, ~ InnerStop(data), NEW n \in Node, flow.kind[n] = "iteration"
      PROVE  Cardinality(ItemRecords(n))' = Items * Ran(n)'
  <2>1. ~ resumed /\ human = NoNode
    BY <1>1, <1>8 DEF ItemsInv, QuietRun, IInv, RunKnown
  <2>2. data' = Append(data, r)
    BY <1>1, <2>1, StopsBefore
  <2>3. /\ Cardinality(ItemRecords(n))' = Cardinality(ItemRecords(n)) + 0
        /\ Cardinality(ItemRecords(n)) \in Nat
    BY <1>2, <1>3, <2>2, ItemsAppended
  <2>4. Cardinality(ItemRecords(n)) = Items * Ran(n) + (IF cur = n THEN item ELSE 0)
    BY <1>1, <1>8 DEF ItemsInv, ItemsSoFar
  <2>5. Ran(n) \in Nat /\ Ran(n)' = IF n = cur THEN Ran(n) + 1 ELSE Ran(n)
    BY <1>1, <1>2, RanCounts
  <2>6. CASE n = cur
    <3>1. Items * (Ran(n) + 1) = Items * Ran(n) + Items /\ Items * Ran(n) \in Nat
      BY <2>5, Bounds
    <3> QED BY <1>1, <1>8, <2>3, <2>4, <2>5, <2>6, <3>1, Bounds
  <2>7. CASE n # cur
    <3>1. Items * Ran(n) \in Nat
      BY <2>5, Bounds
    <3> QED BY <2>3, <2>4, <2>5, <2>7, <3>1
  <2> QED BY <2>6, <2>7
<1>9. ItemsSoFar'
  <2> SUFFICES ASSUME fails' = 0, ~ aborted', ~ InnerStop(data)', NEW n \in Node,
                      flow'.kind[n] = "iteration"
               PROVE  Cardinality(ItemRecords(n))' = Items * Ran(n)' + 0
    BY <1>1 DEF ItemsSoFar
  <2>1. ~ InnerStop(data)
    BY <1>5 DEF InnerStop
  <2>2. Cardinality(ItemRecords(n))' = Items * Ran(n)'
    BY <1>1, <1>8, <2>1
  <2>3. Ran(n)' \in Nat
    <3>1. Ran(n) \in Nat /\ Ran(n)' = IF n = cur THEN Ran(n) + 1 ELSE Ran(n)
      BY <1>1, <1>2, RanCounts
    <3> QED BY <3>1
  <2> QED BY <2>2, <2>3, Bounds
<1> QED BY <1>1, <1>2, <1>7, <1>9 DEF ItemsInv, ItemsRun

LEMMA ItemsIterate ==
    ASSUME IInv, ItemsInv, NEW s \in {"FINISHED", "STOPPED"}, IterateItem(s) PROVE ItemsInv'
<1> DEFINE r == [node |-> cur, inner |-> TRUE, status |-> s]
<1>1. /\ pc = "node" /\ flow.kind[cur] = "iteration" /\ item' = item + 1
      /\ data' = Append(data, r) /\ row' = [row EXCEPT !.data = data']
      /\ UNCHANGED <<flow, pc, cur, resumed, aborted, fails, taken>>
  BY DEF IterateItem, bounds, history
<1>2. /\ cur \in Node /\ taken \in [Node -> [Out -> Nat]] /\ data \in Seq(Record)
      /\ row.state = "INPROGRESS" /\ item \in Nat
      /\ row \in [state: Status \cup {"none", "INPROGRESS"}, data: Seq(Record)]
  BY <1>1, Bounds DEF IInv, RunKnown, TypeOK
<1>3. r \in Record /\ r.inner /\ r.node = cur /\ r.status = s
  BY <1>2, RecordKinds DEF Status
<1> HIDE DEF r
<1>4. row'.data = data' /\ row'.state = "INPROGRESS"
  BY <1>1, <1>2
<1>5. /\ InnerStop(data') <=> InnerStop(data) \/ s = "STOPPED"
      /\ \A i \in DOMAIN data' : data'[i].status = "STOPPED" => data'[i].inner
  BY <1>1, <1>2, <1>3, StopsAppended DEF ItemsInv, QuietRun
<1>6. QuietRun'
  <2>1. InnerStop(data) => InnerStop(data)'
    BY <1>5 DEF InnerStop
  <2> QED BY <1>1, <1>4, <1>5, <2>1 DEF ItemsInv, QuietRun
<1>7. ItemsSoFar'
  <2> SUFFICES ASSUME fails' = 0, ~ aborted', ~ InnerStop(data)', NEW n \in Node,
                      flow'.kind[n] = "iteration"
               PROVE  Cardinality(ItemRecords(n))' =
                          Items * Ran(n)' + (IF cur = n THEN item + 1 ELSE 0)
    BY <1>1 DEF ItemsSoFar
  <2>1. ~ InnerStop(data)
    BY <1>5 DEF InnerStop
  <2>2. Cardinality(ItemRecords(n)) = Items * Ran(n) + (IF cur = n THEN item ELSE 0)
    BY <1>1, <2>1 DEF ItemsInv, ItemsSoFar
  <2>3. Cardinality(ItemRecords(n))' = Cardinality(ItemRecords(n)) + (IF cur = n THEN 1 ELSE 0)
    BY <1>1, <1>2, <1>3, ItemsAppended
  <2>4. Ran(n)' = Ran(n) /\ Items * Ran(n) \in Nat
    <3>1. Ran(n) \in Nat /\ Ran(n)' = Ran(n)
      BY <1>1, <1>2, RanTyped DEF Ran
    <3> QED BY <3>1, Bounds
  <2> QED BY <1>2, <2>2, <2>3, <2>4
<1> QED BY <1>4, <1>6, <1>7 DEF ItemsInv, ItemsRun

LEMMA ItemsResume == ASSUME IInv, ItemsInv, Resume PROVE ItemsInv'
<1>1. /\ Kept[StoppedAt].status = "STOPPED" /\ StoppedAt \in DOMAIN Kept
      /\ \A i \in DOMAIN Kept : i \in DOMAIN row.data /\ Kept[i] = row.data[i]
  BY Resumption, KeptKnown
<1>2. \A i \in DOMAIN Kept : Kept[i].status = "STOPPED" => Kept[i].inner
  BY <1>1 DEF ItemsInv, QuietRun
<1>3. InnerStop(Kept)
  BY <1>1, <1>2 DEF InnerStop
<1>4. data' = Kept /\ row'.data = Kept /\ row'.state = "INPROGRESS"
  BY Resumption
<1>5. InnerStop(data)'
  BY <1>3, <1>4 DEF InnerStop
<1> QED BY <1>2, <1>4, <1>5 DEF ItemsInv, QuietRun, ItemsSoFar, ItemsRun

LEMMA ItemsEnds ==
    ASSUME IInv, ItemsInv, TakeAborted \/ FailAborted \/ Fail PROVE ItemsInv'
<1>1. PICK n \in Node, s \in {"TERMINATED", "ERROR"} : Ends(n, s)
  <2>1. pc = "node" => cur \in Node
    BY DEF IInv, TypeOK
  <2>2. queue # <<>> => Head(queue) \in Node
    BY DEF IInv, TypeOK
  <2> QED BY <2>1, <2>2 DEF TakeAborted, FailAborted, Fail
<1> DEFINE r == Rec(n, s)
<1>2. r \in Record /\ r.status # "STOPPED" /\ data \in Seq(Record)
  BY RecordKinds DEF IInv, TypeOK, Status
<1>3. data' = Append(data, r) /\ row'.state \in {"TERMINATED", "ERROR"} /\ row'.data = data' /\ pc' = "idle"
  BY <1>1 DEF Ends
<1> HIDE DEF r
<1>4. \A i \in DOMAIN data' : data'[i].status = "STOPPED" => data'[i].inner
  BY <1>2, <1>3, StopsAppended DEF ItemsInv, QuietRun
<1> QED BY <1>3, <1>4 DEF ItemsInv, QuietRun, ItemsSoFar, ItemsRun

LEMMA ItemsEndRun == ASSUME IInv, ItemsInv, EndRun PROVE ItemsInv'
<1>1. /\ pc = "loop" /\ pc' = "idle" /\ row' = [state |-> FinalStatus, data |-> data]
      /\ UNCHANGED <<flow, data, resumed, aborted, fails, taken>>
  BY DEF EndRun, engine, bounds, history
<1>2. FinalStatus = "FINISHED" => \A i \in DOMAIN data : data[i].status = "FINISHED"
  BY <1>1 DEF FinalStatus, IInv, RunKnown, Unbroken
<1>3. ASSUME FinalStatus = "FINISHED", fails = 0, ~ aborted, NEW n \in Node,
             flow.kind[n] = "iteration"
      PROVE  Cardinality(ItemRecords(n))' = Items * Ran(n)'
  <2>1. ~ InnerStop(data)
    BY <1>2, <1>3 DEF InnerStop
  <2>2. Cardinality(ItemRecords(n)) = Items * Ran(n) + 0
    BY <1>1, <1>3, <2>1 DEF ItemsInv, ItemsSoFar
  <2>3. Items * Ran(n) \in Nat
    BY RanTyped, Bounds DEF IInv, TypeOK
  <2>4. Ran(n)' = Ran(n) /\ ItemRecords(n)' = ItemRecords(n)
    BY <1>1 DEF Ran, ItemRecords
  <2> QED BY <2>2, <2>3, <2>4
<1>4. ItemsRun'
  BY <1>1, <1>3 DEF ItemsRun
<1> QED BY <1>1, <1>4 DEF ItemsInv, QuietRun, ItemsSoFar, InnerStop

LEMMA ItemsRest ==
    ASSUME IInv, ItemsInv, ReachIterationLimit \/ Crash \/ ItemFails \/ Abort \/ UNCHANGED vars
    PROVE  ItemsInv'
<1>1. UNCHANGED <<flow, cur, data, resumed, row, taken>>
  BY DEF ReachIterationLimit, Crash, ItemFails, Abort, vars, engine, history
<1>2. \A n : Ran(n)' = Ran(n) /\ ItemRecords(n)' = ItemRecords(n)
  BY <1>1 DEF Ran, ItemRecords
<1>3. InnerStop(data)' <=> InnerStop(data)
  BY <1>1 DEF InnerStop
<1>4. CASE pc' = "idle" /\ (UNCHANGED <<fails, aborted>> \/ row.state # "FINISHED")
  <2>1. ItemsSoFar' /\ QuietRun' /\ ItemsRun'
    BY <1>1, <1>2, <1>3, <1>4 DEF ItemsInv, QuietRun, ItemsSoFar, ItemsRun
  <2> QED BY <2>1 DEF ItemsInv
<1>5. CASE pc # "idle" /\ (aborted' \/ fails' # 0 \/ InnerStop(data)) /\ pc' = pc
  <2>1. row.state = "INPROGRESS"
    BY <1>5 DEF IInv, RunKnown
  <2> QED BY <1>1, <1>3, <1>5, <2>1 DEF ItemsInv, QuietRun, ItemsSoFar, ItemsRun
<1>6. CASE ReachIterationLimit \/ Crash
  <2>1. pc # "idle" /\ pc' = "idle"
    BY <1>6 DEF ReachIterationLimit, Crash
  <2>2. row.state = "INPROGRESS"
    BY <2>1 DEF IInv, RunKnown
  <2> QED BY <1>4, <2>1, <2>2
<1>7. CASE ItemFails
  <2>1. pc = "node" /\ pc' = pc /\ aborted' = aborted /\ fails \in Nat
        /\ (resumed \/ aborted \/ fails' = fails + 1)
    BY <1>7 DEF ItemFails, IInv, TypeOK
  <2>2. resumed => InnerStop(data)
    BY <2>1 DEF ItemsInv, QuietRun
  <2>3. fails' = fails + 1 => fails' # 0
    BY <2>1
  <2> QED BY <1>5, <2>1, <2>2, <2>3
<1>8. CASE Abort
  BY <1>5, <1>8 DEF Abort
<1>9. CASE UNCHANGED vars
  <2>1. UNCHANGED <<pc, item, fails, aborted>>
    BY <1>9 DEF vars, engine, bounds
  <2> QED BY <1>1, <1>2, <1>3, <2>1 DEF ItemsInv, QuietRun, ItemsSoFar, ItemsRun
<1> QED BY <1>6, <1>7, <1>8, <1>9

LEMMA ItemsNext == QuietFlows /\ IInv /\ ItemsInv /\ [Next]_vars => ItemsInv'
<1> SUFFICES ASSUME QuietFlows, IInv, ItemsInv, [Next]_vars PROVE ItemsInv'
  OBVIOUS
<1>1. CASE Start
  BY <1>1, ItemsStart
<1>2. CASE Resume
  BY <1>2, ItemsResume
<1>3. CASE TakeNode
  BY <1>3, ItemsTake
<1>4. ASSUME NEW out \in Out, Finish(out) PROVE ItemsInv'
  BY <1>4, ItemsFinish
<1>5. ~ Stop
  <2>1. pc = "node" => cur \in Node /\ flow \in Flows
    BY DEF IInv, TypeOK
  <2> QED BY <2>1 DEF Stop, QuietFlows, Asks
<1>6. ASSUME NEW s \in {"FINISHED", "STOPPED"}, IterateItem(s) PROVE ItemsInv'
  BY <1>6, ItemsIterate
<1>7. CASE EndRun
  BY <1>7, ItemsEndRun
<1>8. CASE TakeAborted \/ FailAborted \/ Fail
  BY <1>8, ItemsEnds
<1>9. CASE ReachIterationLimit \/ Crash \/ ItemFails \/ Abort \/ UNCHANGED vars
  BY <1>9, ItemsRest
<1> QED BY <1>1, <1>2, <1>3, <1>4, <1>5, <1>6, <1>7, <1>8, <1>9 DEF Next, Run

(* executeNode: a flow without human input and agents leaves, when it has    *)
(* finished without a fault, one record of every item each time an iteration *)
(* ran, and no other: whether nodes run once or again and again in loops.    *)
THEOREM ItemsAreRecorded == ASSUME QuietFlows PROVE Spec => []ItemsRun
<1>1. ItemsInv => ItemsRun
  BY DEF ItemsInv
<1>2. IInv /\ IInv' /\ ItemsInv /\ [Next]_vars => ItemsInv'
  BY QuietFlows, ItemsNext
<1> QED BY <1>1, <1>2, ItemsInit, Invariance, PTL DEF Spec
----------------------------------------------------------------------------
(* How often a node is queued.                                               *)

LEMMA CountTyped ==
    ASSUME NEW s \in Seq(Node), NEW n
    PROVE  /\ IsFiniteSet({i \in DOMAIN s : s[i] = n}) /\ Count(s, n) \in Nat
           /\ Count(s, n) > 0 <=> \E i \in DOMAIN s : s[i] = n
<1> DEFINE I == {i \in DOMAIN s : s[i] = n}
<1>1. IsFiniteSet(I) /\ Cardinality(I) \in Nat
  <2>1. I \subseteq 1 .. Len(s) /\ Len(s) \in Nat
    OBVIOUS
  <2>2. IsFiniteSet(1 .. Len(s))
    BY <2>1, FS_Interval
  <2>3. IsFiniteSet(I)
    BY <2>1, <2>2, FS_Subset
  <2> QED BY <2>3, FS_CardinalityType
<1>2. Cardinality(I) = 0 <=> I = {}
  BY <1>1, FS_EmptySet
<1>3. Count(s, n) = Cardinality(I)
  BY DEF Count
<1>4. I # {} <=> \E i \in DOMAIN s : s[i] = n
  OBVIOUS
<1> HIDE DEF I
<1>5. Count(s, n) \in Nat /\ (Count(s, n) > 0 <=> \E i \in DOMAIN s : s[i] = n)
  BY <1>1, <1>2, <1>3, <1>4
<1> QED BY <1>1, <1>5 DEF I

LEMMA CountEmpty == ASSUME NEW n PROVE Count(<<>>, n) = 0
<1>1. {i \in DOMAIN <<>> : <<>>[i] = n} = {}
  OBVIOUS
<1> QED BY <1>1, FS_EmptySet DEF Count

LEMMA CountSingle == ASSUME NEW m, NEW n PROVE Count(<<m>>, n) = IF m = n THEN 1 ELSE 0
<1>1. {i \in DOMAIN <<m>> : <<m>>[i] = n} = IF m = n THEN {1} ELSE {}
  OBVIOUS
<1> QED BY <1>1, FS_EmptySet, FS_Singleton DEF Count

LEMMA CountConcat ==
    ASSUME NEW s \in Seq(Node), NEW t \in Seq(Node), NEW n
    PROVE  Count(s \o t, n) = Count(s, n) + Count(t, n)
<1> DEFINE k == Len(s)
           I == {i \in DOMAIN s : s[i] = n}
           J == {i \in DOMAIN t : t[i] = n}
           K == {i + k : i \in J}
           f == [i \in J |-> i + k]
<1>1. /\ DOMAIN s = 1 .. k /\ k \in Nat /\ DOMAIN t = 1 .. Len(t) /\ Len(t) \in Nat
      /\ DOMAIN (s \o t) = 1 .. (k + Len(t))
      /\ \A i \in 1 .. (k + Len(t)) : (s \o t)[i] = IF i <= k THEN s[i] ELSE t[i - k]
  <2>1. /\ s \o t \in Seq(Node) /\ Len(s \o t) = Len(s) + Len(t)
        /\ \A i \in 1 .. Len(s) + Len(t) : (s \o t)[i] = IF i <= Len(s) THEN s[i] ELSE t[i - Len(s)]
    BY ConcatProperties
  <2> QED BY <2>1
<1>2. IsFiniteSet(I) /\ IsFiniteSet(J) /\ Cardinality(I) \in Nat /\ Cardinality(J) \in Nat
  BY CountTyped DEF Count
<1>3. IsFiniteSet(K) /\ Cardinality(K) = Cardinality(J)
  <2>1. J \subseteq Nat /\ k \in Nat
    BY <1>1
  <2>2. f \in [J -> K]
    OBVIOUS
  <2>3. \A i, j \in J : f[i] = f[j] => i = j
    <3>1. \A i, j \in Nat : i + k = j + k => i = j
      BY <2>1
    <3> QED BY <2>1, <3>1
  <2>4. \A x \in K : \E i \in J : f[i] = x
    OBVIOUS
  <2>5. f \in Bijection(J, K)
    BY <2>2, <2>3, <2>4 DEF Bijection, Injection, Surjection, IsInjective
  <2>6. ExistsBijection(J, K)
    BY <2>5 DEF ExistsBijection
  <2> QED BY <1>2, <2>6, FS_Bijection
<1>4. {i \in DOMAIN (s \o t) : (s \o t)[i] = n} = I \cup K
  <2>1. ASSUME NEW i \in DOMAIN (s \o t), (s \o t)[i] = n PROVE i \in I \cup K
    <3>1. CASE i <= k
      BY <1>1, <2>1, <3>1
    <3>2. CASE ~ i <= k
      <4>1. i - k \in DOMAIN t /\ t[i - k] = n /\ (i - k) + k = i
        BY <1>1, <2>1, <3>2
      <4>2. i - k \in J
        BY <4>1
      <4> QED BY <4>1, <4>2
    <3> QED BY <3>1, <3>2
  <2>2. ASSUME NEW i \in I PROVE i \in DOMAIN (s \o t) /\ (s \o t)[i] = n
    BY <1>1
  <2>3. ASSUME NEW i \in J PROVE i + k \in DOMAIN (s \o t) /\ (s \o t)[i + k] = n
    <3>1. i + k \in 1 .. (k + Len(t)) /\ ~ i + k <= k /\ (i + k) - k = i
      BY <1>1
    <3> QED BY <1>1, <3>1
  <2> QED BY <2>1, <2>2, <2>3
<1>5. I \cap K = {}
  BY <1>1
<1>a. /\ Count(s, n) = Cardinality(I) /\ Count(t, n) = Cardinality(J)
      /\ Count(s \o t, n) = Cardinality(I \cup K)
  BY <1>4 DEF Count
<1> HIDE DEF I, J, K, f, k
<1>6. Cardinality(I \cup K) = Cardinality(I) + Cardinality(K) - Cardinality(I \cap K)
  BY <1>2, <1>3, FS_Union
<1>7. Cardinality(I \cap K) = 0
  BY <1>5, FS_EmptySet
<1> QED BY <1>2, <1>3, <1>6, <1>7, <1>a

LEMMA CountTail ==
    ASSUME NEW s \in Seq(Node), s # <<>>, NEW n
    PROVE  Count(s, n) = Count(Tail(s), n) + (IF Head(s) = n THEN 1 ELSE 0)
<1>1. /\ Head(s) \in Node /\ Tail(s) \in Seq(Node) /\ Len(Tail(s)) = Len(s) - 1
      /\ \A i \in 1 .. Len(Tail(s)) : Tail(s)[i] = s[i + 1]
  BY HeadTailProperties
<1> DEFINE h == <<Head(s)>>
           t == Tail(s)
<1>2. h \in Seq(Node) /\ t \in Seq(Node) /\ Len(h) = 1 /\ h[1] = s[1] /\ Len(s) \in Nat \ {0}
      /\ Len(t) = Len(s) - 1 /\ \A i \in 1 .. Len(t) : t[i] = s[i + 1]
  BY <1>1
<1>3. Count(h, n) = IF Head(s) = n THEN 1 ELSE 0
  BY CountSingle
<1> HIDE DEF h, t
<1>4. s = h \o t
  <2>1. /\ h \o t \in Seq(Node) /\ Len(h \o t) = 1 + Len(t)
        /\ \A i \in 1 .. 1 + Len(t) : (h \o t)[i] = IF i <= 1 THEN h[i] ELSE t[i - 1]
    <3>1. /\ h \o t \in Seq(Node) /\ Len(h \o t) = Len(h) + Len(t)
          /\ \A i \in 1 .. Len(h) + Len(t) : (h \o t)[i] = IF i <= Len(h) THEN h[i] ELSE t[i - Len(h)]
      BY <1>2, ConcatProperties
    <3> QED BY <1>2, <3>1
  <2>2. Len(h \o t) = Len(s)
    BY <1>2, <2>1
  <2>3. ASSUME NEW i \in 1 .. Len(s) PROVE (h \o t)[i] = s[i]
    <3>1. i \in 1 .. 1 + Len(t)
      BY <1>2
    <3>2. CASE i = 1
      BY <1>2, <2>1, <3>1, <3>2
    <3>3. CASE i # 1
      <4>1. ~ i <= 1 /\ i - 1 \in 1 .. Len(t) /\ (i - 1) + 1 = i
        BY <1>2, <3>3
      <4> QED BY <1>2, <2>1, <3>1, <4>1
    <3> QED BY <3>2, <3>3
  <2> QED BY <2>1, <2>2, <2>3, SeqEqual
<1>5. Count(s, n) = Count(h, n) + Count(t, n)
  BY <1>2, <1>4, CountConcat
<1>6. Count(h, n) \in Nat /\ Count(t, n) \in Nat
  BY <1>2, CountTyped
<1>7. Count(h, n) + Count(t, n) = Count(t, n) + Count(h, n)
  BY <1>6
<1> QED BY <1>3, <1>5, <1>7 DEF t

\* A set that is listed counts each of its elements once.
LEMMA CountListed ==
    ASSUME NEW S, S \subseteq Node, IsFiniteSet(S), NEW f \in SetToSeqs(S), NEW n
    PROVE  f \in Seq(Node) /\ Count(f, n) = IF n \in S THEN 1 ELSE 0
<1>1. /\ f \in Seq(S) /\ \A s \in S : \E i \in DOMAIN f : f[i] = s
      /\ \A i, j \in DOMAIN f : f[i] = f[j] => i = j
  BY Listed
<1>2. f \in Seq(Node)
  BY <1>1, SeqMonotonic
<1> DEFINE I == {i \in DOMAIN f : f[i] = n}
<1>3. CASE n \in S
  <2>1. PICK i \in DOMAIN f : f[i] = n
    BY <1>1, <1>3
  <2>2. I = {i}
    BY <1>1, <2>1
  <2> QED BY <1>2, <1>3, <2>2, FS_Singleton DEF Count
<1>4. CASE n \notin S
  <2>1. I = {}
    BY <1>1, <1>4
  <2> QED BY <1>2, <1>4, <2>1, FS_EmptySet DEF Count
<1> QED BY <1>3, <1>4
----------------------------------------------------------------------------
(* Inputs and outputs of the nodes of any flow.                              *)

LEMMA SameFlow ==
    ASSUME flow' = flow
    PROVE  /\ Root' = Root /\ LoopTargets' = LoopTargets
           /\ \A n : Into(n)' = Into(n)
           /\ \A n : HasReceivedRequiredInputs(n, waiting[n])'
                        <=> HasReceivedRequiredInputs(n, waiting'[n])
<1>1. Root' = Root
  BY DEF Root
<1>2. LoopTargets' = LoopTargets /\ \A n : Into(n)' = Into(n)
  BY DEF LoopTargets, Into
<1>3. FirstSource' = FirstSource
  BY DEF FirstSource
<1>4. ASSUME NEW n PROVE Walk(n)' = Walk(n)
  BY <1>3 DEF Walk
<1>5. ASSUME NEW n PROVE ConditionParent(n)' = ConditionParent(n)
  <2>1. Walk(n)' = Walk(n)
    BY <1>4
  <2> QED BY <2>1 DEF ConditionParent
<1>6. ASSUME NEW n PROVE ExpectedInputs(n)' = ExpectedInputs(n)
  BY <1>5 DEF ExpectedInputs
<1>7. ASSUME NEW n, NEW c PROVE ConditionalGroup(n, c)' = ConditionalGroup(n, c)
  BY <1>5 DEF ConditionalGroup
<1>8. ASSUME NEW n
      PROVE  HasReceivedRequiredInputs(n, waiting[n])'
                 <=> HasReceivedRequiredInputs(n, waiting'[n])
  <2>1. ExpectedInputs(n)' = ExpectedInputs(n)
    BY <1>6
  <2>2. \A s : ConditionalGroup(n, ConditionParent(s))' = ConditionalGroup(n, ConditionParent(s))
    BY <1>5 DEF ConditionalGroup
  <2> QED BY <2>1, <2>2 DEF HasReceivedRequiredInputs
<1> QED BY <1>1, <1>2, <1>8

\* The edges behind the sources of a node.
LEMMA IntoKnown ==
    ASSUME flow \in Flows, NEW n \in Node
    PROVE  /\ Sources(flow, n) = {flow.edges[i].from : i \in Into(n)}
           /\ \A i \in Into(n) : /\ i \in DOMAIN flow.edges /\ flow.edges[i].to = n
                                 /\ flow.edges[i].from \in Node /\ flow.edges[i].out \in Out \ {0}
<1>1. flow.edges \in Seq(Edge)
  BY FlowTyped
<1>2. \A i \in DOMAIN flow.edges : flow.edges[i] \in Edge
  BY <1>1
<1> QED BY <1>2 DEF Sources, Into, Edge

\* All inputs are enough, none are not.
LEMMA AllSourcesSuffice ==
    ASSUME NEW n, NEW received, Sources(flow, n) \subseteq received
    PROVE  HasReceivedRequiredInputs(n, received)
<1>1. ExpectedInputs(n) \subseteq received
  BY DEF ExpectedInputs
<1>2. ASSUME NEW s \in Sources(flow, n)
      PROVE  ConditionalGroup(n, ConditionParent(s)) \cap received # {}
  <2>1. s \in ConditionalGroup(n, ConditionParent(s))
    BY DEF ConditionalGroup
  <2> QED BY <2>1
<1> QED BY <1>1, <1>2 DEF HasReceivedRequiredInputs

LEMMA NothingSuffices ==
    ASSUME flow \in Flows, NEW n \in Node \ {Root}
    PROVE  ~ HasReceivedRequiredInputs(n, {})
<1>1. PICK s : s \in Sources(flow, n)
  BY OneRoot
<1>2. \A g : g \cap {} = {}
  OBVIOUS
<1>3. CASE s \in ExpectedInputs(n)
  BY <1>3 DEF HasReceivedRequiredInputs
<1>4. CASE s \notin ExpectedInputs(n)
  BY <1>1, <1>2, <1>4 DEF HasReceivedRequiredInputs
<1> QED BY <1>3, <1>4

\* An edge of the output that is fulfilled leads on, and of the others none does.
LEMMA Given ==
    ASSUME flow \in Flows, Tidy(flow), NEW i \in DOMAIN flow.edges
    PROVE  flow.edges[i].to \in Children(flow.edges[i].from, flow.edges[i].out)
<1> DEFINE c == flow.edges[i].from
           out == flow.edges[i].out
<1>1. ASSUME flow.edges[i].to \in Ignored(c, out) PROVE FALSE
  <2>1. PICK j \in DOMAIN flow.edges :
          /\ Decides(flow, c) /\ flow.edges[j].from = c /\ flow.edges[j].out # out
          /\ flow.edges[j].to = flow.edges[i].to
    BY <1>1 DEF Ignored
  <2>2. j # i
    BY <2>1
  <2> QED BY <2>1, <2>2 DEF Tidy
<1> QED BY <1>1 DEF Children

LEMMA HandsOn ==
    ASSUME flow \in Flows, Tidy(flow), NEW c, NEW out, Decides(flow, c) \/ out = 1,
           NEW n \in Node, NEW i, Into(n) = {i}
    PROVE  n \in ReadyChildren(c, out) <=> flow.edges[i].from = c /\ flow.edges[i].out = out
<1>1. /\ i \in DOMAIN flow.edges /\ flow.edges[i].to = n
      /\ \A j \in DOMAIN flow.edges : flow.edges[j].to = n => j = i
  BY DEF Into
<1>2. Sources(flow, n) = {flow.edges[i].from}
  BY IntoKnown
<1>3. ASSUME flow.edges[i].from = c, flow.edges[i].out = out PROVE n \in ReadyChildren(c, out)
  <2>1. n \in Children(c, out)
    BY <1>1, <1>3, Given
  <2>2. Received(c, n) = waiting[n] \cup {c}
    BY DEF Received
  <2>3. HasReceivedRequiredInputs(n, Received(c, n))
    BY <1>2, <1>3, <2>2, AllSourcesSuffice
  <2> QED BY <2>1, <2>3 DEF ReadyChildren
<1>4. ASSUME n \in Children(c, out) PROVE flow.edges[i].from = c /\ flow.edges[i].out = out
  <2>1. flow.edges[i].from = c
    BY <1>1, <1>4 DEF Children
  <2>2. CASE Decides(flow, c)
    <3>1. IsFirst(flow, i)
      <4>1. ASSUME NEW j \in 1 .. (i - 1), flow.edges[j].from = flow.edges[i].from
            PROVE  flow.edges[j].out # flow.edges[i].out
        <5>1. flow.edges \in Seq(Edge) /\ DOMAIN flow.edges = 1 .. Len(flow.edges)
          BY FlowTyped
        <5>2. i \in 1 .. Len(flow.edges) /\ Len(flow.edges) \in Nat
          BY <1>1, <5>1
        <5>3. j \in DOMAIN flow.edges /\ j # i
          BY <5>1, <5>2
        <5> QED BY <1>1, <2>1, <2>2, <4>1, <5>3 DEF Tidy
      <4> QED BY <4>1 DEF IsFirst
    <3>2. n \notin Ignored(c, out)
      BY <1>4 DEF Children
    <3> QED BY <1>1, <2>1, <2>2, <3>1, <3>2 DEF Ignored
  <2>3. CASE ~ Decides(flow, c)
    <3>1. flow.edges[i].out = 1
      BY <1>1, <2>1, <2>3, FlowAssumption DEF IsFlow
    <3> QED BY <2>1, <2>3, <3>1
  <2> QED BY <2>2, <2>3
<1> QED BY <1>3, <1>4 DEF ReadyChildren

\* The first node is nobody's child, and loop nodes have none.
LEMMA NoChildren ==
    ASSUME flow \in Flows, NEW c, NEW out
    PROVE  /\ Root \notin Children(c, out)
           /\ flow.kind[c] = "loop" => Children(c, out) = {}
<1>1. \A i \in DOMAIN flow.edges : flow.edges[i].to # Root
  BY OneRoot DEF Sources
<1>2. \A i \in DOMAIN flow.edges : flow.kind[flow.edges[i].from] # "loop"
  BY FlowAssumption DEF IsFlow
<1> QED BY <1>1, <1>2 DEF Children

LEMMA NarrowHandsOn ==
    ASSUME flow \in Flows, Narrow(flow), NEW c, NEW out, Decides(flow, c) \/ out = 1,
           NEW a \in Children(c, out), NEW b \in Children(c, out)
    PROVE  a = b
<1>1. ASSUME NEW i \in DOMAIN flow.edges, flow.edges[i].from = c,
             flow.edges[i].to \in Children(c, out)
      PROVE  flow.edges[i].out = out
  <2>1. CASE Decides(flow, c)
    <3>1. IsFirst(flow, i)
      <4>1. ASSUME NEW j \in 1 .. (i - 1), flow.edges[j].from = flow.edges[i].from
            PROVE  flow.edges[j].out # flow.edges[i].out
        <5>1. flow.edges \in Seq(Edge) /\ DOMAIN flow.edges = 1 .. Len(flow.edges)
          BY FlowTyped
        <5>2. i \in 1 .. Len(flow.edges) /\ Len(flow.edges) \in Nat
          BY <5>1
        <5>3. j \in DOMAIN flow.edges /\ j # i
          BY <5>1, <5>2
        <5> QED BY <4>1, <5>3 DEF Narrow
      <4> QED BY <4>1 DEF IsFirst
    <3> QED BY <1>1, <2>1, <3>1 DEF Children, Ignored
  <2>2. CASE ~ Decides(flow, c)
    BY <1>1, <2>2, FlowAssumption DEF IsFlow
  <2> QED BY <2>1, <2>2
<1>2. PICK i \in DOMAIN flow.edges : flow.edges[i].from = c /\ flow.edges[i].to = a
  BY DEF Children
<1>3. PICK j \in DOMAIN flow.edges : flow.edges[j].from = c /\ flow.edges[j].to = b
  BY DEF Children
<1>4. flow.edges[i].out = out /\ flow.edges[j].out = out
  BY <1>1, <1>2, <1>3
<1> QED BY <1>2, <1>3, <1>4 DEF Narrow
----------------------------------------------------------------------------
(* Routes.                                                                   *)

LEMMA PendingIsDue ==
    ASSUME TypeOK, NEW n
    PROVE  Due(n) \in Nat /\ Count(queue, n) \in Nat /\ (Pending(n) <=> Due(n) > 0)
<1>1. Count(queue, n) \in Nat /\ (Count(queue, n) > 0 <=> Queued(n))
  <2>1. queue \in Seq(Node)
    BY DEF TypeOK
  <2> QED BY <2>1, CountTyped DEF Queued
<1> QED BY <1>1 DEF Due, Pending

LEMMA ChosenCounts ==
    ASSUME taken \in [Node -> [Out -> Nat]], flow \in Flows, flow' = flow,
           NEW m \in Node, NEW o \in Out, taken' = [taken EXCEPT ![m][o] = @ + 1],
           NEW i \in DOMAIN flow.edges
    PROVE  /\ Chosen(i) \in Nat
           /\ Chosen(i)' = IF flow.edges[i].from = m /\ flow.edges[i].out = o
                             THEN Chosen(i) + 1 ELSE Chosen(i)
<1> DEFINE a == flow.edges[i].from
           b == flow.edges[i].out
<1>1. a \in Node /\ b \in Out
  <2>1. flow.edges \in Seq(Edge)
    BY FlowTyped
  <2>2. flow.edges[i] \in Edge
    BY <2>1
  <2> QED BY <2>2 DEF Edge
<1>2. Chosen(i) = taken[a][b] /\ Chosen(i)' = taken'[a][b]
  BY DEF Chosen
<1> HIDE DEF a, b
<1>3. taken[a][b] \in Nat
  BY <1>1
<1>4. taken'[a][b] = IF a = m /\ b = o THEN taken[a][b] + 1 ELSE taken[a][b]
  BY <1>1
<1> QED BY <1>2, <1>3, <1>4 DEF a, b

LEMMA FinishParts ==
    ASSUME IInv, NEW out \in Out, Finish(out)
    PROVE  /\ pc = "node" /\ pc' = "loop" /\ TypeOK /\ cur \in Node /\ flow \in Flows
           /\ Decides(flow, cur) \/ out = 1
           /\ ProcessNodeOutputs(cur, out)
           /\ taken' = [taken EXCEPT ![cur][out] = @ + 1]
           /\ flow' = flow /\ row' = row /\ row.state = "INPROGRESS" /\ human' = NoNode
           /\ InnerStop(data)' <=> InnerStop(data)
<1>1. /\ pc = "node" /\ pc' = "loop" /\ flow' = flow /\ row' = row
      /\ data' = Append(DataBefore, Rec(cur, "FINISHED"))
      /\ ProcessNodeOutputs(cur, out) /\ (Decides(flow, cur) \/ out = 1)
      /\ human' = IF human = cur \/ LoopsBack(cur) THEN NoNode ELSE human
  BY DEF Finish
<1>2. TypeOK /\ cur \in Node /\ flow \in Flows /\ row.state = "INPROGRESS"
  BY <1>1 DEF IInv, TypeOK, RunKnown
<1>3. human' = NoNode
  BY <1>1 DEF IInv, RunKnown
<1>4. InnerStop(data') <=> InnerStop(data)
  <2> DEFINE r == Rec(cur, "FINISHED")
  <2>1. r \in Record /\ ~ r.inner
    BY <1>2, RecordKinds DEF Status
  <2> HIDE DEF r
  <2>2. DataBefore \in Seq(Record)
    BY <1>1, BeforeUnbroken
  <2>3. data' = Append(DataBefore, r)
    BY <1>1 DEF r
  <2> QED BY <1>1, <2>1, <2>2, <2>3, StopsBefore, StopsAppended
<1>5. InnerStop(data)' <=> InnerStop(data)
  BY <1>4 DEF InnerStop
<1>6. taken' = [taken EXCEPT ![cur][out] = @ + 1]
  BY <1>1 DEF ProcessNodeOutputs
<1> QED BY <1>1, <1>2, <1>3, <1>5, <1>6

\* What a node that ends adds to the queue.
LEMMA FinishCounts ==
    ASSUME IInv, NEW out \in Out, Finish(out), NEW n \in Node
    PROVE  Count(queue', n) =
               Count(queue, n) + (IF n \in ReadyChildren(cur, out) THEN 1 ELSE 0)
                               + (IF LoopsBack(cur) /\ flow.back[cur] = n THEN 1 ELSE 0)
<1>1. TypeOK /\ cur \in Node /\ flow \in Flows /\ ProcessNodeOutputs(cur, out)
  BY FinishParts
<1>2. PICK ready \in Seq(Node), back \in Seq(Node) :
           /\ queue' = (queue \o ready) \o back
           /\ ready \in SetToSeqs(ReadyChildren(cur, out))
           /\ back = IF LoopsBack(cur) THEN <<flow.back[cur]>> ELSE <<>>
  BY <1>1, QueuedNow
<1>3. queue \in Seq(Node) /\ queue \o ready \in Seq(Node)
  BY <1>1, ConcatProperties DEF TypeOK
<1>4. Count(queue', n) = Count(queue \o ready, n) + Count(back, n)
  <2>1. \A s, t \in Seq(Node) : Count(s \o t, n) = Count(s, n) + Count(t, n)
    BY CountConcat
  <2>2. Count((queue \o ready) \o back, n) = Count(queue \o ready, n) + Count(back, n)
    BY <1>3, <2>1
  <2> QED BY <1>2, <2>2
<1>5. Count(queue \o ready, n) = Count(queue, n) + Count(ready, n)
  BY <1>3, CountConcat
<1>6. Count(ready, n) = IF n \in ReadyChildren(cur, out) THEN 1 ELSE 0
  <2>1. ReadyChildren(cur, out) \subseteq Node /\ IsFiniteSet(ReadyChildren(cur, out))
    BY <1>1, ReadyKnown
  <2> QED BY <1>2, <2>1, CountListed
<1>7. Count(back, n) = IF LoopsBack(cur) /\ flow.back[cur] = n THEN 1 ELSE 0
  BY <1>2, CountEmpty, CountSingle
<1> QED BY <1>4, <1>5, <1>6, <1>7

\* A node behind one output is handed on exactly when that output is fulfilled.
LEMMA FinishBalances ==
    ASSUME SafeFlows, IInv, NEW out \in Out, Finish(out), NEW n \in Node \ {Root},
           Balanced(n, Due(n))
    PROVE  Balanced(n, Due(n))'
<1>1. /\ TypeOK /\ cur \in Node /\ flow \in Flows /\ flow' = flow /\ pc = "node" /\ pc' = "loop"
      /\ Decides(flow, cur) \/ out = 1
      /\ taken' = [taken EXCEPT ![cur][out] = @ + 1]
      /\ taken \in [Node -> [Out -> Nat]]
  BY FinishParts DEF TypeOK
<1>2. Tidy(flow)
  BY <1>1 DEF SafeFlows
<1>3. Into(n)' = Into(n) /\ LoopTargets' = LoopTargets
  BY <1>1, SameFlow
<1>4. ASSUME NEW i \in Into(n), Into(n) = {i}, n \notin LoopTargets
      PROVE  Ran(n)' + Due(n)' = Chosen(i)'
  <2> DEFINE now == IF n \in ReadyChildren(cur, out) THEN 1 ELSE 0
  <2>1. i \in DOMAIN flow.edges
    BY DEF Into
  <2>2. Chosen(i) \in Nat /\ Chosen(i)' = Chosen(i) + now
    <3>1. Chosen(i) \in Nat
          /\ Chosen(i)' = IF flow.edges[i].from = cur /\ flow.edges[i].out = out
                            THEN Chosen(i) + 1 ELSE Chosen(i)
      BY <1>1, <2>1, ChosenCounts
    <3>2. n \in ReadyChildren(cur, out) <=> flow.edges[i].from = cur /\ flow.edges[i].out = out
      BY <1>1, <1>2, <1>4, HandsOn
    <3> QED BY <3>1, <3>2
  <2>3. Ran(n) \in Nat /\ Ran(n)' = Ran(n) + (IF n = cur THEN 1 ELSE 0)
    <3>1. Ran(n) \in Nat /\ Ran(n)' = IF n = cur THEN Ran(n) + 1 ELSE Ran(n)
      BY <1>1, RanCounts
    <3> QED BY <3>1
  <2>4. ~ (LoopsBack(cur) /\ flow.back[cur] = n)
    BY <1>1, <1>4 DEF LoopsBack, LoopTargets
  <2>5. Count(queue, n) \in Nat /\ Count(queue', n) = Count(queue, n) + now
    <3>1. Count(queue, n) \in Nat
      BY <1>1, PendingIsDue
    <3>2. Count(queue', n) = Count(queue, n) + now + 0
      BY <2>4, FinishCounts
    <3> QED BY <3>1, <3>2
  <2>6. Due(n)' = Count(queue', n)
    BY <1>1, <2>5 DEF Due, Count
  <2>7. Due(n) = Count(queue, n) + (IF n = cur THEN 1 ELSE 0)
    BY <1>1 DEF Due
  <2>8. Ran(n) + Due(n) = Chosen(i)
    BY <1>4 DEF Balanced
  <2>9. now \in Nat
    OBVIOUS
  <2> HIDE DEF now
  <2> QED BY <2>2, <2>3, <2>5, <2>6, <2>7, <2>8, <2>9
<1> QED BY <1>3, <1>4 DEF Balanced

\* A node that may not run yet remembers the input.
LEMMA FinishRemembers ==
    ASSUME SafeFlows, IInv, NEW out \in Out, Finish(out), NEW n \in Node \ {Root}, Remembered(n)
    PROVE  Remembered(n)'
<1>1. /\ TypeOK /\ cur \in Node /\ flow \in Flows /\ flow' = flow /\ pc = "node" /\ pc' = "loop"
      /\ Decides(flow, cur) \/ out = 1
      /\ ProcessNodeOutputs(cur, out)
      /\ taken' = [taken EXCEPT ![cur][out] = @ + 1]
      /\ taken \in [Node -> [Out -> Nat]]
  BY FinishParts DEF TypeOK
<1>2. Tidy(flow)
  BY <1>1 DEF SafeFlows
<1>3. Ran(n) \in Nat /\ Ran(n)' = IF n = cur THEN Ran(n) + 1 ELSE Ran(n)
  BY <1>1, RanCounts
<1>4. ASSUME Ran(n) > 0 \/ n = cur PROVE Ran(n)' > 0
  BY <1>3, <1>4
<1>5. ASSUME Count(queue, n) > 0 \/ n \in ReadyChildren(cur, out) PROVE Pending(n)'
  <2>1. Count(queue, n) \in Nat
    BY <1>1, PendingIsDue
  <2>2. Count(queue', n) > 0
    BY <1>5, <2>1, FinishCounts
  <2>3. queue' \in Seq(Node)
    BY <1>1, OutputsTyped
  <2>4. \E i \in DOMAIN queue' : queue'[i] = n
    BY <2>2, <2>3, CountTyped
  <2> QED BY <2>4 DEF Pending, Queued
<1>6. ASSUME ~ Ran(n) > 0, n # cur, ~ Count(queue, n) > 0, n \notin ReadyChildren(cur, out)
      PROVE  /\ \A i \in Into(n)' : Chosen(i)' > 0 => flow'.edges[i].from \in waiting'[n]
             /\ ~ HasReceivedRequiredInputs(n, waiting[n])'
  <2>1. ~ Pending(n)
    <3>1. Due(n) = Count(queue, n) + 0 /\ Count(queue, n) \in Nat
      BY <1>1, <1>6, PendingIsDue DEF Due
    <3> QED BY <1>1, <1>6, <3>1, PendingIsDue
  <2>2. /\ \A i \in Into(n) : Chosen(i) > 0 => flow.edges[i].from \in waiting[n]
        /\ ~ HasReceivedRequiredInputs(n, waiting[n])
    BY <1>6, <2>1 DEF Remembered
  <2>3. waiting'[n] = IF n \in Children(cur, out) THEN waiting[n] \cup {cur} ELSE waiting[n]
    BY <1>1, <1>6 DEF ProcessNodeOutputs, Received
  <2>4. ASSUME NEW i \in Into(n), Chosen(i)' > 0 PROVE flow.edges[i].from \in waiting'[n]
    <3>1. i \in DOMAIN flow.edges /\ flow.edges[i].to = n
      BY DEF Into
    <3>2. CASE Chosen(i) > 0
      BY <2>2, <2>3, <3>2
    <3>3. CASE ~ Chosen(i) > 0
      <4>1. Chosen(i) \in Nat
            /\ Chosen(i)' = IF flow.edges[i].from = cur /\ flow.edges[i].out = out
                              THEN Chosen(i) + 1 ELSE Chosen(i)
        BY <1>1, <3>1, ChosenCounts
      <4>2. flow.edges[i].from = cur /\ flow.edges[i].out = out
        BY <2>4, <3>3, <4>1
      <4>3. n \in Children(cur, out)
        BY <1>1, <1>2, <3>1, <4>2, Given
      <4> QED BY <2>3, <4>2, <4>3
    <3> QED BY <3>2, <3>3
  <2>5. ~ HasReceivedRequiredInputs(n, waiting'[n])
    <3>1. CASE n \in Children(cur, out)
      BY <1>6, <2>3, <3>1 DEF ReadyChildren, Received
    <3>2. CASE n \notin Children(cur, out)
      BY <2>2, <2>3, <3>2
    <3> QED BY <3>1, <3>2
  <2> QED BY <1>1, <2>4, <2>5, SameFlow
<1> QED BY <1>4, <1>5, <1>6 DEF Remembered

LEMMA EmptyQueue == ASSUME TypeOK, Len(queue) + 1 <= 1 PROVE queue = <<>>
BY DEF TypeOK

LEMMA FinishAlone ==
    ASSUME SafeFlows, IInv, AskedAlone, NEW out \in Out, Finish(out) PROVE AskedAlone'
<1>1. /\ TypeOK /\ cur \in Node /\ flow \in Flows /\ flow' = flow /\ pc = "node" /\ pc' = "loop"
      /\ Decides(flow, cur) \/ out = 1
      /\ ProcessNodeOutputs(cur, out) /\ human' = NoNode
      /\ InnerStop(data)' <=> InnerStop(data)
  BY FinishParts
<1>2. Root \in Node /\ Root' = Root
  BY <1>1, OneRoot, SameFlow
<1>3. ASSUME Narrow(flow) PROVE Len(queue') <= 1
  <2>1. queue = <<>>
    BY <1>1, <1>3, EmptyQueue DEF AskedAlone
  <2>2. PICK ready \in Seq(Node), back \in Seq(Node) :
           /\ queue' = (queue \o ready) \o back
           /\ ready \in SetToSeqs(ReadyChildren(cur, out))
           /\ back = IF LoopsBack(cur) THEN <<flow.back[cur]>> ELSE <<>>
    BY <1>1, QueuedNow
  <2>3. queue' = ready \o back /\ Len(queue') = Len(ready) + Len(back)
    <3>1. queue \o ready = ready
      BY <2>1, ConcatEmptySeq
    <3> QED BY <2>2, <3>1, ConcatProperties
  <2>4. Len(ready) = Cardinality(ReadyChildren(cur, out)) /\ Len(ready) \in Nat
    <3> DEFINE k == Cardinality(ReadyChildren(cur, out))
    <3>1. k \in Nat
      BY <1>1, ReadyKnown, FS_CardinalityType
    <3>2. ready \in [1 .. k -> ReadyChildren(cur, out)]
      BY <2>2 DEF SetToSeqs
    <3> HIDE DEF k
    <3>3. DOMAIN ready = 1 .. k /\ DOMAIN ready = 1 .. Len(ready) /\ Len(ready) \in Nat
      BY <3>2
    <3>4. Len(ready) = k
      BY <3>1, <3>3
    <3> QED BY <3>3, <3>4 DEF k
  <2>5. CASE flow.kind[cur] = "loop"
    <3>1. ReadyChildren(cur, out) = {}
      BY <1>1, <2>5, NoChildren, ReadyKnown
    <3>2. Len(ready) = 0 /\ Len(back) <= 1
      BY <2>2, <2>4, <3>1, FS_EmptySet
    <3> QED BY <2>3, <3>2
  <2>6. CASE flow.kind[cur] # "loop"
    <3>1. Len(back) = 0
      BY <2>2, <2>6 DEF LoopsBack
    <3>2. \A a, b \in ReadyChildren(cur, out) : a = b
      BY <1>1, <1>3, ReadyKnown, NarrowHandsOn
    <3>3. Len(ready) <= 1
      <4>1. CASE ReadyChildren(cur, out) = {}
        BY <2>4, <4>1, FS_EmptySet
      <4>2. CASE ReadyChildren(cur, out) # {}
        <5>1. PICK a : ReadyChildren(cur, out) = {a}
          BY <3>2, <4>2
        <5>2. Cardinality({a}) = 1
          BY FS_Singleton
        <5> QED BY <2>4, <5>1, <5>2
      <4> QED BY <4>1, <4>2
    <3> QED BY <2>3, <2>4, <3>1, <3>3
  <2> QED BY <2>5, <2>6
<1>4. ASSUME ~ Narrow(flow), ~ InnerStop(data), Asks(flow, Root) PROVE ~ Pending(Root)'
  <2>1. Count(queue, Root) = 0
    <3>1. CASE Pending(Root)
      <4>1. queue = <<>>
        BY <1>1, <1>4, <3>1, EmptyQueue DEF AskedAlone
      <4> QED BY <4>1, CountEmpty
    <3>2. CASE ~ Pending(Root)
      <4>1. Count(queue, Root) \in Nat /\ ~ Queued(Root)
        BY <1>1, <3>2, PendingIsDue DEF Pending
      <4>2. queue \in Seq(Node)
        BY <1>1 DEF TypeOK
      <4>3. ~ Count(queue, Root) > 0
        BY <4>1, <4>2, CountTyped DEF Queued
      <4> QED BY <4>1, <4>3
    <3> QED BY <3>1, <3>2
  <2>2. Root \notin ReadyChildren(cur, out)
    BY <1>1, NoChildren, ReadyKnown
  <2>3. ~ (LoopsBack(cur) /\ flow.back[cur] = Root)
    <3>1. AsksFirst(flow)
      BY <1>1, <1>4 DEF SafeFlows
    <3> QED BY <1>1, <1>2, <1>4, <3>1 DEF AsksFirst, LoopsBack
  <2>4. Count(queue', Root) = 0
    BY <1>2, <2>1, <2>2, <2>3, FinishCounts
  <2>5. queue' \in Seq(Node)
    BY <1>1, OutputsTyped
  <2>6. ~ \E i \in DOMAIN queue' : queue'[i] = Root
    <3>1. ~ Count(queue', Root) > 0
      BY <2>4
    <3> QED BY <2>5, <3>1, CountTyped
  <2>7. Pending(Root)' <=> (\E i \in DOMAIN queue' : queue'[i] = Root)
    BY <1>1, <1>2 DEF Pending, Queued
  <2> QED BY <2>6, <2>7
<1>5. Len(queue') \in Nat
  BY <1>1, OutputsTyped
<1> QED BY <1>1, <1>2, <1>3, <1>4, <1>5 DEF AskedAlone

\* The end of a run that may be resumed: nothing but the question was due.
LEMMA RoutesEnd ==
    ASSUME SafeFlows, IInv, RoutesInv, pc' = "idle", UNCHANGED <<flow, taken>>, RoutesFollowed',
           Resumable' /\ ~ InnerStop(row.data)' =>
               /\ pc = "node" /\ queue = <<>> /\ ~ InnerStop(data) /\ StoppedNode' = cur
               /\ Narrow(flow) \/ (cur = Root /\ Asks(flow, Root))
    PROVE  RoutesInv'
<1>1. /\ TypeOK /\ flow \in Flows /\ taken \in [Node -> [Out -> Nat]]
      /\ Root \in Node /\ Root' = Root /\ LoopTargets' = LoopTargets
      /\ \A n : Into(n)' = Into(n)
  BY OneRoot, SameFlow DEF IInv, TypeOK
<1>2. \A n : Ran(n)' = Ran(n) /\ \A i : Chosen(i)' = Chosen(i)
  BY DEF Ran, Chosen
<1>3. ASSUME Resumable', ~ InnerStop(row.data)', NEW n \in Node \ {Root}
      PROVE  /\ Balanced(n, IF n = StoppedNode THEN 1 ELSE 0)'
             /\ (Ran(n) > 0 \/ n = StoppedNode \/ \A i \in Into(n) : Chosen(i) = 0)'
  <2>1. /\ pc = "node" /\ queue = <<>> /\ ~ InnerStop(data) /\ StoppedNode' = cur
        /\ Narrow(flow) \/ (cur = Root /\ Asks(flow, Root))
    BY <1>3
  <2>2. Balanced(n, Due(n)) /\ Remembered(n)
    BY <2>1 DEF RoutesInv, RoutesOfRun
  <2>3. Due(n) = IF n = cur THEN 1 ELSE 0
    BY <2>1, CountEmpty DEF Due
  <2>4. Balanced(n, IF n = StoppedNode THEN 1 ELSE 0)'
    BY <1>1, <1>2, <2>1, <2>2, <2>3 DEF Balanced
  <2>5. ASSUME ~ Ran(n) > 0, n # cur, NEW i \in Into(n) PROVE Chosen(i) = 0
    <3>1. ~ Pending(n)
      BY <2>1, <2>5 DEF Pending, Queued
    <3>2. /\ Chosen(i) > 0 => flow.edges[i].from \in waiting[n]
          /\ ~ HasReceivedRequiredInputs(n, waiting[n])
      BY <2>2, <2>5, <3>1 DEF Remembered
    <3>3. /\ i \in DOMAIN flow.edges /\ flow.edges[i].to = n
          /\ flow.edges[i].from \in Node /\ flow.edges[i].out \in Out
      BY <1>1, IntoKnown
    <3>4. Chosen(i) \in Nat
      BY <1>1, <3>3 DEF Chosen
    <3>5. CASE Narrow(flow)
      <4>1. Into(n) = {i}
        BY <3>3, <3>5 DEF Narrow, Into
      <4>2. Sources(flow, n) = {flow.edges[i].from}
        BY <1>1, <4>1, IntoKnown
      <4>3. ~ Chosen(i) > 0
        BY <3>2, <4>2, AllSourcesSuffice
      <4> QED BY <3>4, <4>3
    <3>6. CASE ~ Narrow(flow)
      <4>1. NothingRan
        BY <2>1, <3>6 DEF RoutesInv, AskedAlone, Pending
      <4> QED BY <3>3, <4>1 DEF NothingRan, Chosen
    <3> QED BY <3>5, <3>6
  <2> QED BY <1>1, <1>2, <2>1, <2>4, <2>5
<1>4. RoutesOfStop'
  BY <1>1, <1>3 DEF RoutesOfStop
<1>5. AskedAlone'
  <2> SUFFICES ASSUME Resumable', ~ Narrow(flow), ~ InnerStop(row.data)'
               PROVE  StoppedNode' = Root /\ Asks(flow, Root) /\ NothingRan'
    BY <1>1 DEF AskedAlone
  <2>1. pc = "node" /\ ~ InnerStop(data) /\ StoppedNode' = cur /\ cur = Root /\ Asks(flow, Root)
    OBVIOUS
  <2>2. NothingRan
    BY <2>1 DEF RoutesInv, AskedAlone, Pending
  <2> QED BY <2>1, <2>2 DEF NothingRan
<1> QED BY <1>4, <1>5 DEF RoutesInv, RoutesOfRun

LEMMA RoutesInit == Init => RoutesInv
<1> SUFFICES ASSUME Init PROVE RoutesInv
  OBVIOUS
<1>1. pc = "idle" /\ row.state = "none"
  BY DEF Init, NoRow
<1>2. ~ Resumable
  BY <1>1 DEF Resumable, FailedAfterStop
<1> QED BY <1>1, <1>2 DEF RoutesInv, RoutesOfRun, RoutesOfStop, AskedAlone, RoutesFollowed

LEMMA RoutesStart == ASSUME IInv, RoutesInv, Start PROVE RoutesInv'
<1>1. /\ pc' = "loop" /\ queue' = <<Root>> /\ row' = [state |-> "INPROGRESS", data |-> <<>>]
      /\ human' = NoNode /\ flow' = flow /\ flow \in Flows
      /\ \A n \in Node : waiting'[n] = {} /\ \A o \in Out : taken'[n][o] = 0
  BY DEF Start, IInv, RowKnown, TypeOK, history
<1>2. /\ Root \in Node /\ Root' = Root /\ LoopTargets' = LoopTargets
      /\ \A n : Into(n)' = Into(n)
      /\ \A n : HasReceivedRequiredInputs(n, waiting[n])'
                   <=> HasReceivedRequiredInputs(n, waiting'[n])
  BY <1>1, OneRoot, SameFlow
<1>3. ASSUME NEW n \in Node \ {Root}
      PROVE  /\ Ran(n)' = 0 /\ Due(n)' = 0
             /\ \A i \in Into(n) : Chosen(i)' = 0
             /\ ~ HasReceivedRequiredInputs(n, waiting[n])'
  <2>1. Ran(n)' = 0
    BY <1>1 DEF Ran, Out
  <2>2. Due(n)' = 0
    <3>1. Count(queue', n) = 0
      BY <1>1, CountSingle
    <3> QED BY <1>1, <3>1 DEF Due, Count
  <2>3. \A i \in Into(n) : flow.edges[i].from \in Node /\ flow.edges[i].out \in Out
    BY <1>1, IntoKnown
  <2>4. \A i \in Into(n) : Chosen(i)' = 0
    BY <1>1, <2>3 DEF Chosen
  <2>5. ~ HasReceivedRequiredInputs(n, {})
    BY <1>1, NothingSuffices
  <2>6. waiting'[n] = {}
    BY <1>1
  <2> QED BY <1>2, <2>1, <2>2, <2>4, <2>5, <2>6
<1>4. RoutesOfRun'
  <2>1. ASSUME NEW n \in Node \ {Root} PROVE Balanced(n, Due(n))'
    BY <1>2, <1>3, <2>1 DEF Balanced
  <2>2. ASSUME NEW n \in Node \ {Root} PROVE Remembered(n)'
    BY <1>2, <1>3, <2>2 DEF Remembered
  <2> QED BY <1>2, <2>1, <2>2 DEF RoutesOfRun
<1>5. AskedAlone'
  <2>1. NothingRan'
    BY <1>1 DEF NothingRan
  <2> QED BY <1>1, <2>1 DEF AskedAlone
<1> QED BY <1>1, <1>4, <1>5 DEF RoutesInv, RoutesOfStop, RoutesFollowed

LEMMA RoutesResume == ASSUME IInv, RoutesInv, Resume PROVE RoutesInv'
<1> DEFINE stop == row.data[StoppedAt]
<1>1. /\ pc = "idle" /\ Resumable /\ pc' = "loop" /\ flow' = flow /\ taken' = taken
      /\ data' = Kept /\ row'.state = "INPROGRESS"
      /\ human' = stop.node
      /\ queue' = IF stop.inner THEN <<>> ELSE <<human'>>
      /\ waiting' = [n \in Node |-> {}]
  BY Resumption
<1>2. /\ flow \in Flows /\ TypeOK /\ Root' = Root /\ LoopTargets' = LoopTargets
      /\ \A n : Into(n)' = Into(n)
      /\ \A n : HasReceivedRequiredInputs(n, waiting[n])'
                   <=> HasReceivedRequiredInputs(n, waiting'[n])
  BY <1>1, SameFlow DEF IInv, TypeOK
<1>3. /\ StoppedAt \in DOMAIN Kept /\ Kept[StoppedAt] = stop /\ stop.status = "STOPPED"
      /\ \A i \in DOMAIN Kept : i \in DOMAIN row.data /\ Kept[i] = row.data[i]
      /\ \A i \in DOMAIN row.data : row.data[i].status = "STOPPED" => i \in DOMAIN Kept
  BY <1>1, KeptKnown
<1>4. ASSUME ~ InnerStop(data)' PROVE ~ InnerStop(row.data) /\ ~ stop.inner
  BY <1>1, <1>3, <1>4 DEF InnerStop
<1>5. StoppedNode = stop.node
  BY DEF StoppedNode
<1>6. \A n : Ran(n)' = Ran(n) /\ \A i : Chosen(i)' = Chosen(i)
  BY <1>1 DEF Ran, Chosen
<1> HIDE DEF stop
<1>7. ASSUME ~ InnerStop(data)', NEW n \in Node \ {Root}
      PROVE  Balanced(n, Due(n))' /\ Remembered(n)'
  <2>1. ~ InnerStop(row.data) /\ queue' = <<StoppedNode>>
    BY <1>1, <1>4, <1>5, <1>7
  <2>2. /\ Balanced(n, IF n = StoppedNode THEN 1 ELSE 0)
        /\ Ran(n) > 0 \/ n = StoppedNode \/ \A i \in Into(n) : Chosen(i) = 0
    BY <1>1, <2>1 DEF RoutesInv, RoutesOfStop
  <2>3. Due(n)' = IF n = StoppedNode THEN 1 ELSE 0
    <3>1. Count(queue', n) = IF StoppedNode = n THEN 1 ELSE 0
      BY <2>1, CountSingle
    <3>2. Due(n)' = Count(queue', n) + 0
      BY <1>1 DEF Due, Count
    <3> QED BY <3>1, <3>2
  <2>4. Balanced(n, Due(n))'
    BY <1>2, <1>6, <2>2, <2>3 DEF Balanced
  <2>5. Remembered(n)'
    <3>1. ~ HasReceivedRequiredInputs(n, waiting[n])'
      <4>1. ~ HasReceivedRequiredInputs(n, {})
        BY <1>2, NothingSuffices
      <4>2. waiting'[n] = {}
        BY <1>1
      <4> QED BY <1>2, <4>1, <4>2
    <3>2. n = StoppedNode => Pending(n)'
      <4>1. 1 \in DOMAIN <<StoppedNode>> /\ <<StoppedNode>>[1] = StoppedNode
        OBVIOUS
      <4> QED BY <2>1, <4>1 DEF Pending, Queued
    <3> QED BY <1>2, <1>6, <2>2, <3>1, <3>2 DEF Remembered
  <2> QED BY <2>4, <2>5
<1>8. RoutesOfRun'
  BY <1>2, <1>7 DEF RoutesOfRun
<1>9. AskedAlone'
  <2>1. Len(queue') <= 1 /\ Len(queue') \in Nat
    BY <1>1
  <2>2. ASSUME ~ Narrow(flow), ~ InnerStop(data)'
        PROVE  human' = Root /\ Asks(flow, Root) /\ NothingRan'
    <3>1. StoppedNode = Root /\ Asks(flow, Root) /\ NothingRan
      BY <1>1, <1>4, <2>2 DEF RoutesInv, AskedAlone
    <3> QED BY <1>1, <1>5, <3>1 DEF NothingRan
  <2> QED BY <1>1, <1>2, <2>1, <2>2 DEF AskedAlone
<1> QED BY <1>1, <1>8, <1>9 DEF RoutesInv, RoutesOfStop, RoutesFollowed

LEMMA RoutesTake == ASSUME IInv, RoutesInv, TakeNode PROVE RoutesInv'
<1>1. /\ pc = "loop" /\ queue # <<>> /\ pc' = "node" /\ cur' = Head(queue)
      /\ queue' = Tail(queue)
      /\ UNCHANGED <<flow, waiting, data, human, row, taken>>
  BY DEF TakeNode, history
<1>2. /\ TypeOK /\ flow \in Flows /\ queue \in Seq(Node) /\ row.state = "INPROGRESS"
      /\ Root \in Node /\ Root' = Root /\ LoopTargets' = LoopTargets
      /\ \A n : Into(n)' = Into(n)
      /\ \A n : HasReceivedRequiredInputs(n, waiting[n])'
                   <=> HasReceivedRequiredInputs(n, waiting'[n])
  BY <1>1, OneRoot, SameFlow DEF IInv, TypeOK, RunKnown
<1>3. \A n : Ran(n)' = Ran(n) /\ \A i : Chosen(i)' = Chosen(i)
  BY <1>1 DEF Ran, Chosen
<1>4. TypeOK'
  BY InvTake DEF IInv
<1>5. ASSUME NEW n \in Node PROVE Due(n)' = Due(n) /\ (Pending(n)' <=> Pending(n))
  <2>1. Count(queue, n) = Count(Tail(queue), n) + (IF Head(queue) = n THEN 1 ELSE 0)
    BY <1>1, <1>2, CountTail
  <2>2. Due(n)' = Count(Tail(queue), n) + (IF Head(queue) = n THEN 1 ELSE 0)
    BY <1>1 DEF Due, Count
  <2>3. Due(n) = Count(queue, n) + 0 /\ Count(queue, n) \in Nat
    BY <1>1, <1>2, PendingIsDue DEF Due
  <2>4. Due(n)' = Due(n)
    BY <2>1, <2>2, <2>3
  <2>5. Pending(n) <=> Due(n) > 0
    BY <1>2, PendingIsDue
  <2>6. Pending(n)' <=> Due(n)' > 0
    <3>1. Count(Tail(queue), n) > 0 <=> \E i \in DOMAIN Tail(queue) : Tail(queue)[i] = n
      BY <1>1, <1>2, HeadTailProperties, CountTyped
    <3>2. Count(Tail(queue), n) \in Nat
      BY <1>1, <1>2, HeadTailProperties, CountTyped
    <3>3. Pending(n)' <=> (\E i \in DOMAIN Tail(queue) : Tail(queue)[i] = n) \/ Head(queue) = n
      BY <1>1 DEF Pending, Queued
    <3> QED BY <2>2, <3>1, <3>2, <3>3
  <2> QED BY <2>4, <2>5, <2>6
<1>6. RoutesOfRun'
  <2> SUFFICES ASSUME ~ InnerStop(data)', NEW n \in Node \ {Root}
               PROVE  Balanced(n, Due(n))' /\ Remembered(n)'
    BY <1>2 DEF RoutesOfRun
  <2>1. ~ InnerStop(data)
    BY <1>1 DEF InnerStop
  <2>2. Balanced(n, Due(n)) /\ Remembered(n)
    BY <1>1, <2>1 DEF RoutesInv, RoutesOfRun
  <2>3. Balanced(n, Due(n))'
    BY <1>2, <1>3, <1>5, <2>2 DEF Balanced
  <2>4. Remembered(n)'
    BY <1>1, <1>2, <1>3, <1>5, <2>2 DEF Remembered
  <2> QED BY <2>3, <2>4
<1>7. AskedAlone'
  <2>1. Len(queue') + 1 = Len(queue) + 0
    BY <1>1, <1>2
  <2>2. Pending(Root)' <=> Pending(Root)
    BY <1>2, <1>5
  <2>3. NothingRan' <=> NothingRan
    BY <1>1 DEF NothingRan
  <2>4. InnerStop(data)' <=> InnerStop(data)
    BY <1>1 DEF InnerStop
  <2> QED BY <1>1, <1>2, <2>1, <2>2, <2>3, <2>4 DEF RoutesInv, AskedAlone
<1> QED BY <1>1, <1>2, <1>6, <1>7 DEF RoutesInv, RoutesOfStop, RoutesFollowed

LEMMA RoutesFinish ==
    ASSUME SafeFlows, IInv, RoutesInv, NEW out \in Out, Finish(out) PROVE RoutesInv'
<1>1. /\ pc = "node" /\ pc' = "loop" /\ flow \in Flows /\ flow' = flow /\ row' = row
      /\ row.state = "INPROGRESS"
      /\ InnerStop(data)' <=> InnerStop(data)
  BY FinishParts
<1>2. Root' = Root
  BY <1>1, SameFlow
<1>3. ASSUME ~ InnerStop(data), NEW n \in Node \ {Root} PROVE Balanced(n, Due(n))' /\ Remembered(n)'
  <2>1. Balanced(n, Due(n)) /\ Remembered(n)
    BY <1>1, <1>3 DEF RoutesInv, RoutesOfRun
  <2> QED BY <2>1, FinishBalances, FinishRemembers
<1>4. RoutesOfRun'
  BY <1>1, <1>2, <1>3 DEF RoutesOfRun
<1>5. AskedAlone'
  BY FinishAlone DEF RoutesInv
<1> QED BY <1>1, <1>4, <1>5 DEF RoutesInv, RoutesOfStop, RoutesFollowed

\* The record a human is asked about next.
LEMMA LastStopped ==
    ASSUME NEW n \in Nat, NEW S, S \subseteq 1 .. n, NEW m \in S, \A i \in S : i <= m
    PROVE  Max(S) = m
<1> DEFINE x == Max(S)
<1>1. x \in S /\ \A i \in S : i <= x
  BY Greatest
<1> HIDE DEF x
<1>2. m <= x /\ x <= m /\ m \in Int /\ x \in Int
  BY <1>1
<1>3. x = m
  BY <1>2
<1> QED BY <1>3 DEF x

LEMMA RoutesStop == ASSUME SafeFlows, IInv, RoutesInv, Stop PROVE RoutesInv'
<1> DEFINE r == Rec(cur, "STOPPED")
           k == Len(data')
<1>1. /\ pc = "node" /\ pc' = "idle" /\ data' = Append(DataBefore, r)
      /\ Asks(flow, cur)
      /\ row'.state = "STOPPED" /\ row'.data = data'
      /\ UNCHANGED <<flow, taken>>
  BY DEF Stop, Asks, history
<1>2. TypeOK /\ cur \in Node /\ flow \in Flows /\ DataBefore \in Seq(Record)
  BY <1>1, BeforeUnbroken DEF IInv, TypeOK
<1>3. r \in Record /\ r.status = "STOPPED" /\ r.node = cur /\ ~ r.inner
  BY <1>2, RecordKinds DEF Status
<1> HIDE DEF r
<1>4. data' \in Seq(Record) /\ data'[k] = r /\ k \in Nat /\ k \in 1 .. k
  <2>1. /\ data' \in Seq(Record) /\ Len(data') = Len(DataBefore) + 1 /\ Len(DataBefore) \in Nat
        /\ data'[Len(DataBefore) + 1] = r
    BY <1>1, <1>2, <1>3, Added
  <2> QED BY <2>1
<1>5. InnerStop(row.data)' <=> InnerStop(data)
  <2>1. InnerStop(data') <=> InnerStop(data)
    BY <1>1, <1>2, <1>3, StopsBefore, StopsAppended
  <2> QED BY <1>1, <2>1 DEF InnerStop
<1>6. StoppedNode' = cur
  <2> DEFINE S == {i \in 1 .. k : data'[i].status = "STOPPED"}
  <2>1. k \in S /\ S \subseteq 1 .. k /\ \A i \in S : i <= k
    BY <1>3, <1>4
  <2>2. StoppedAt' = Max(S)
    BY <1>1, <2>1 DEF StoppedAt, SelectLastInSeq
  <2> HIDE DEF S, k
  <2>3. StoppedAt' = k
    BY <1>4, <2>1, <2>2, LastStopped
  <2>4. StoppedNode' = data'[k].node
    BY <1>1, <2>3 DEF StoppedNode
  <2> QED BY <1>3, <1>4, <2>4
<1>7. ASSUME ~ InnerStop(data)
      PROVE  queue = <<>> /\ (Narrow(flow) \/ (cur = Root /\ Asks(flow, Root)))
  <2>1. CASE Narrow(flow)
    BY <1>1, <1>2, <2>1, EmptyQueue DEF RoutesInv, AskedAlone
  <2>2. CASE ~ Narrow(flow)
    <3>1. AsksFirst(flow)
      BY <1>2, <2>2 DEF SafeFlows
    <3>2. cur = Root
      BY <1>1, <1>2, <3>1, OneRoot DEF AsksFirst
    <3>3. Len(queue) + 1 <= 1
      BY <1>1, <1>7, <2>2, <3>2 DEF RoutesInv, AskedAlone, Pending
    <3> QED BY <1>1, <1>2, <3>2, <3>3, EmptyQueue
  <2> QED BY <2>1, <2>2
<1>8. RoutesFollowed'
  BY <1>1 DEF RoutesFollowed
<1> HIDE DEF k
<1> QED BY <1>1, <1>5, <1>6, <1>7, <1>8, RoutesEnd

\* A node that fails after a human answered it is asked about again.
LEMMA RoutesFail == ASSUME SafeFlows, IInv, RoutesInv, Fail PROVE RoutesInv'
<1> DEFINE r == Rec(cur, "ERROR")
           k == Len(data)
<1>1. /\ pc = "node" /\ pc' = "idle" /\ data' = Append(data, r)
      /\ row'.state = "ERROR" /\ row'.data = data'
      /\ UNCHANGED <<flow, taken>>
  BY DEF Fail, Ends, history
<1>2. TypeOK /\ cur \in Node /\ flow \in Flows /\ data \in Seq(Record) /\ RunKnown
      /\ NoNode \notin Node
  BY <1>1, FlowAssumption DEF IInv, TypeOK
<1>3. r \in Record /\ r.status = "ERROR"
  BY <1>2, RecordKinds DEF Status
<1> HIDE DEF r
<1>4. /\ data' \in Seq(Record) /\ Len(data') = k + 1 /\ k \in Nat /\ data'[k + 1] = r
      /\ \A i \in 1 .. k : data'[i] = data[i]
  BY <1>1, <1>2, <1>3, Added
<1>5. InnerStop(row.data)' <=> InnerStop(data)
  <2>1. InnerStop(data') <=> InnerStop(data)
    BY <1>1, <1>2, <1>3, StopsAppended
  <2> QED BY <1>1, <2>1 DEF InnerStop
<1>6. ASSUME Resumable', ~ InnerStop(data)
      PROVE  /\ queue = <<>> /\ StoppedNode' = cur
             /\ Narrow(flow) \/ (cur = Root /\ Asks(flow, Root))
  <2>1. Len(data') >= 2 /\ data'[Len(data') - 1].status = "STOPPED"
    BY <1>1, <1>6 DEF Resumable, FailedAfterStop
  <2>2. k \in 1 .. k /\ k \in DOMAIN data /\ data[k].status = "STOPPED"
    <3>1. k >= 1 /\ (k + 1) - 1 = k
      BY <1>4, <2>1
    <3> QED BY <1>2, <1>4, <2>1, <3>1
  <2>3. ~ data[k].inner
    BY <1>6, <2>2 DEF InnerStop
  <2>4. human = data[k].node /\ human # NoNode
    <3>1. data[k] \in Record
      BY <1>2, <2>2
    <3> QED BY <1>1, <1>2, <2>2, <2>3, <3>1 DEF RunKnown, Record
  <2>5. cur = human /\ queue = <<>>
    BY <1>1, <1>2, <2>4 DEF RunKnown
  <2>6. StoppedNode' = cur
    <3> DEFINE S == {i \in 1 .. Len(data') : data'[i].status = "STOPPED"}
    <3>1. k + 1 \notin S
      BY <1>3, <1>4
    <3>2. k \in S /\ S \subseteq 1 .. k
      BY <1>4, <2>2, <3>1
    <3>3. \A i \in S : i <= k
      BY <1>4, <3>2
    <3>4. StoppedAt' = Max(S)
      BY <1>1, <3>2 DEF StoppedAt, SelectLastInSeq
    <3> HIDE DEF S, k
    <3>5. StoppedAt' = k
      BY <1>4, <3>2, <3>3, <3>4, LastStopped
    <3>6. StoppedNode' = data'[k].node
      BY <1>1, <3>5 DEF StoppedNode
    <3> QED BY <1>4, <2>2, <2>4, <2>5, <3>6
  <2>7. Narrow(flow) \/ (human = Root /\ Asks(flow, Root))
    BY <1>1, <1>6, <2>4 DEF RoutesInv, AskedAlone
  <2> QED BY <2>5, <2>6, <2>7
<1>7. RoutesFollowed'
  BY <1>1 DEF RoutesFollowed
<1> HIDE DEF k
<1> QED BY <1>1, <1>5, <1>6, <1>7, RoutesEnd

\* Nobody is asked about a run that was aborted or was left without its handler.
LEMMA RoutesBreak ==
    ASSUME SafeFlows, IInv, RoutesInv,
           TakeAborted \/ FailAborted \/ ReachIterationLimit \/ Crash
    PROVE  RoutesInv'
<1>1. /\ pc # "idle" /\ pc' = "idle" /\ UNCHANGED <<flow, taken>>
      /\ row'.state = "TERMINATED" \/ row' = row
  BY DEF TakeAborted, FailAborted, Ends, ReachIterationLimit, Crash, history
<1>2. row'.state \in {"TERMINATED", "INPROGRESS"}
  BY <1>1 DEF IInv, RunKnown
<1>3. ~ Resumable'
  BY <1>2 DEF Resumable, FailedAfterStop
<1>4. RoutesFollowed'
  BY <1>2 DEF RoutesFollowed
<1> QED BY <1>1, <1>3, <1>4, RoutesEnd

\* The queue is empty: nothing is due, and no input that came was forgotten.
LEMMA RoutesEndRun == ASSUME SafeFlows, IInv, RoutesInv, EndRun PROVE RoutesInv'
<1>1. /\ pc = "loop" /\ queue = <<>> /\ pc' = "idle"
      /\ row'.state = FinalStatus /\ row'.data = data
      /\ UNCHANGED <<flow, data, taken>>
  BY DEF EndRun, history
<1>2. /\ TypeOK /\ flow \in Flows /\ taken \in [Node -> [Out -> Nat]] /\ RunKnown /\ Unbroken(data)
      /\ data \in Seq(Record)
      /\ Root \in Node /\ Root' = Root /\ LoopTargets' = LoopTargets
      /\ \A n : Into(n)' = Into(n)
  BY <1>1, OneRoot, SameFlow DEF IInv, TypeOK, RunKnown
<1>3. \A n : Ran(n)' = Ran(n) /\ \A i : Chosen(i)' = Chosen(i)
  BY <1>1 DEF Ran, Chosen
<1>4. /\ FinalStatus \in {"FINISHED", "STOPPED"}
      /\ FinalStatus = "FINISHED" => \A i \in DOMAIN data : data[i].status = "FINISHED"
      /\ FinalStatus = "STOPPED" => \E i \in DOMAIN data : data[i].status = "STOPPED"
  BY <1>2 DEF FinalStatus, Unbroken
<1>5. ASSUME FinalStatus = "STOPPED" PROVE InnerStop(row.data)'
  <2>1. PICK i \in DOMAIN data : data[i].status = "STOPPED"
    BY <1>4, <1>5
  <2>2. data[i].inner
    BY <1>1, <1>2, <2>1 DEF RunKnown
  <2> QED BY <1>1, <2>1, <2>2 DEF InnerStop
<1>6. ASSUME FinalStatus = "FINISHED", NEW n \in Node \ {Root}
      PROVE  /\ \A i \in Into(n) : Into(n) = {i} /\ n \notin LoopTargets => Ran(n) = Chosen(i)
             /\ (\A i \in Into(n) : Chosen(i) > 0) => Ran(n) > 0
  <2>1. ~ InnerStop(data)
    BY <1>4, <1>6 DEF InnerStop
  <2>2. Balanced(n, Due(n)) /\ Remembered(n)
    BY <1>1, <2>1 DEF RoutesInv, RoutesOfRun
  <2>3. Due(n) = 0 /\ ~ Pending(n)
    BY <1>1, CountEmpty DEF Due, Pending, Queued
  <2>4. Ran(n) \in Nat
    BY <1>2, RanTyped
  <2>5. \A i \in Into(n) : Into(n) = {i} /\ n \notin LoopTargets => Ran(n) = Chosen(i)
    BY <2>2, <2>3, <2>4 DEF Balanced
  <2>6. ASSUME \A i \in Into(n) : Chosen(i) > 0 PROVE Ran(n) > 0
    <3> SUFFICES ASSUME ~ Ran(n) > 0 PROVE FALSE
      OBVIOUS
    <3>1. /\ \A i \in Into(n) : flow.edges[i].from \in waiting[n]
          /\ ~ HasReceivedRequiredInputs(n, waiting[n])
      BY <2>2, <2>3, <2>6 DEF Remembered
    <3>2. Sources(flow, n) = {flow.edges[i].from : i \in Into(n)}
      BY <1>2, IntoKnown
    <3>3. Sources(flow, n) \subseteq waiting[n]
      BY <3>1, <3>2
    <3> QED BY <3>1, <3>3, AllSourcesSuffice
  <2> QED BY <2>5, <2>6
<1>7. RoutesFollowed'
  BY <1>1, <1>2, <1>3, <1>6 DEF RoutesFollowed
<1>8. ASSUME Resumable' PROVE InnerStop(row.data)'
  BY <1>1, <1>4, <1>5, <1>8 DEF Resumable, FailedAfterStop
<1> QED BY <1>1, <1>7, <1>8, RoutesEnd

\* Items, the signal of an abort and the end of the run before leave the routes alone.
LEMMA RoutesKept ==
    ASSUME IInv, RoutesInv, UNCHANGED <<flow, pc, cur, queue, waiting, human, taken>>,
           InnerStop(data) => InnerStop(data)',
           row' = row \/ (pc # "idle" /\ row'.state = "INPROGRESS")
    PROVE  RoutesInv'
<1>1. /\ Root' = Root /\ LoopTargets' = LoopTargets
      /\ \A n : Into(n)' = Into(n)
      /\ \A n : HasReceivedRequiredInputs(n, waiting[n])'
                   <=> HasReceivedRequiredInputs(n, waiting[n])
  BY SameFlow
<1>2. /\ \A n : Ran(n)' = Ran(n) /\ \A i : Chosen(i)' = Chosen(i)
      /\ \A n : Due(n)' = Due(n) /\ (Pending(n)' <=> Pending(n))
      /\ NothingRan' <=> NothingRan
  BY DEF Ran, Chosen, Due, Count, Pending, Queued, NothingRan
<1>3. RoutesOfRun'
  <2> SUFFICES ASSUME pc # "idle", ~ InnerStop(data)', NEW n \in Node \ {Root}
               PROVE  Balanced(n, Due(n))' /\ Remembered(n)'
    BY <1>1 DEF RoutesOfRun
  <2>1. Balanced(n, Due(n)) /\ Remembered(n)
    BY DEF RoutesInv, RoutesOfRun
  <2> QED BY <1>1, <1>2, <2>1 DEF Balanced, Remembered
<1>4. CASE row' = row
  <2>1. /\ Resumable' <=> Resumable
        /\ StoppedNode' = StoppedNode
        /\ InnerStop(row.data)' <=> InnerStop(row.data)
    <3>1. StoppedAt' = StoppedAt
      BY <1>4 DEF StoppedAt, SelectLastInSeq
    <3> QED BY <1>4, <3>1 DEF Resumable, FailedAfterStop, StoppedNode, InnerStop
  <2>2. RoutesOfStop'
    <3> SUFFICES ASSUME pc = "idle", Resumable, ~ InnerStop(row.data), NEW n \in Node \ {Root}
                 PROVE  /\ Balanced(n, IF n = StoppedNode THEN 1 ELSE 0)'
                        /\ (Ran(n) > 0 \/ n = StoppedNode \/ \A i \in Into(n) : Chosen(i) = 0)'
      BY <1>1, <2>1 DEF RoutesOfStop
    <3>1. /\ Balanced(n, IF n = StoppedNode THEN 1 ELSE 0)
          /\ Ran(n) > 0 \/ n = StoppedNode \/ \A i \in Into(n) : Chosen(i) = 0
      BY DEF RoutesInv, RoutesOfStop
    <3> QED BY <1>1, <1>2, <2>1, <3>1 DEF Balanced
  <2>3. AskedAlone'
    BY <1>1, <1>2, <2>1 DEF RoutesInv, AskedAlone
  <2>4. RoutesFollowed'
    BY <1>1, <1>2, <1>4 DEF RoutesInv, RoutesFollowed
  <2> QED BY <1>3, <2>2, <2>3, <2>4 DEF RoutesInv
<1>5. CASE pc # "idle" /\ row'.state = "INPROGRESS"
  <2>1. AskedAlone'
    BY <1>1, <1>2, <1>5 DEF RoutesInv, AskedAlone
  <2> QED BY <1>3, <1>5, <2>1 DEF RoutesInv, RoutesOfStop, RoutesFollowed
<1> QED BY <1>4, <1>5

LEMMA RoutesRest ==
    ASSUME IInv, RoutesInv, ItemFails \/ Abort \/ UNCHANGED vars PROVE RoutesInv'
<1>1. UNCHANGED <<flow, pc, cur, queue, waiting, human, taken, data, row>>
  BY DEF ItemFails, Abort, vars, engine, history
<1>2. InnerStop(data) => InnerStop(data)'
  BY <1>1 DEF InnerStop
<1> QED BY <1>1, <1>2, RoutesKept

LEMMA RoutesIterate ==
    ASSUME IInv, RoutesInv, NEW s \in {"FINISHED", "STOPPED"}, IterateItem(s) PROVE RoutesInv'
<1> DEFINE r == [node |-> cur, inner |-> TRUE, status |-> s]
<1>1. /\ pc = "node" /\ data' = Append(data, r) /\ row' = [row EXCEPT !.data = data']
      /\ UNCHANGED <<flow, pc, cur, queue, waiting, human, taken>>
  BY DEF IterateItem, history
<1>2. /\ cur \in Node /\ data \in Seq(Record) /\ row.state = "INPROGRESS"
      /\ row \in [state: Status \cup {"none", "INPROGRESS"}, data: Seq(Record)]
  BY <1>1 DEF IInv, TypeOK, RunKnown
<1>3. r \in Record
  BY <1>2, RecordKinds DEF Status
<1> HIDE DEF r
<1>4. InnerStop(data) => InnerStop(data)'
  <2>1. InnerStop(data) => InnerStop(data')
    BY <1>1, <1>2, <1>3, StopsAppended
  <2> QED BY <2>1 DEF InnerStop
<1>5. row'.state = "INPROGRESS" /\ pc # "idle"
  BY <1>1, <1>2
<1> QED BY <1>1, <1>4, <1>5, RoutesKept

LEMMA RoutesNext == SafeFlows /\ IInv /\ RoutesInv /\ [Next]_vars => RoutesInv'
<1> SUFFICES ASSUME SafeFlows, IInv, RoutesInv, [Next]_vars PROVE RoutesInv'
  OBVIOUS
<1>1. CASE Start
  BY <1>1, RoutesStart
<1>2. CASE Resume
  BY <1>2, RoutesResume
<1>3. CASE TakeNode
  BY <1>3, RoutesTake
<1>4. ASSUME NEW out \in Out, Finish(out) PROVE RoutesInv'
  BY <1>4, RoutesFinish
<1>5. CASE Stop
  BY <1>5, RoutesStop
<1>6. ASSUME NEW s \in {"FINISHED", "STOPPED"}, IterateItem(s) PROVE RoutesInv'
  BY <1>6, RoutesIterate
<1>7. CASE EndRun
  BY <1>7, RoutesEndRun
<1>8. CASE Fail
  BY <1>8, RoutesFail
<1>9. CASE TakeAborted \/ FailAborted \/ ReachIterationLimit \/ Crash
  BY <1>9, RoutesBreak
<1>10. CASE ItemFails \/ Abort \/ UNCHANGED vars
  BY <1>10, RoutesRest
<1> QED BY <1>1, <1>2, <1>3, <1>4, <1>5, <1>6, <1>7, <1>8, <1>9, <1>10 DEF Next, Run

(* processNodeOutputs, setupNodeDependencies: in a flow whose questions lose *)
(* nothing, with any number of nodes, decisions, nested loops and            *)
(* resumptions, a finished execution ran every node behind one output as     *)
(* often as that output was fulfilled, and every join all of whose inputs    *)
(* came.                                                                     *)
THEOREM RoutesAreFollowed == ASSUME SafeFlows PROVE Spec => []RoutesFollowed
<1>1. RoutesInv => RoutesFollowed
  BY DEF RoutesInv
<1>2. IInv /\ IInv' /\ RoutesInv /\ [Next]_vars => RoutesInv'
  BY SafeFlows, RoutesNext
<1> QED BY <1>1, <1>2, RoutesInit, Invariance, PTL DEF Spec
-----------------------------------------------------------------------------
(* Every run ends.                                                           *)

\* The passes of the main loop still to come, of which each may run all items of an
\* iteration, and what is left of the pass under way.
Passes == MaxIterations + 1 - iterations

StepsLeft ==
    IF pc = "idle" THEN 0
    ELSE Passes * (Items + 2) + (IF pc = "node" THEN Items - item + 1 ELSE 0) + 1

PassesLeft == iterations <= MaxIterations + 1

LEMMA PassesNext == IInv /\ PassesLeft /\ [Next]_vars => PassesLeft'
<1> SUFFICES ASSUME IInv, PassesLeft, [Next]_vars PROVE PassesLeft'
  OBVIOUS
<1>1. iterations \in Nat /\ MaxIterations \in Nat
  BY Bounds DEF IInv, TypeOK
<1>2. CASE TakeNode \/ TakeAborted
  BY <1>1, <1>2 DEF TakeNode, TakeAborted, PassesLeft
<1>3. CASE Resume
  BY <1>1, <1>3 DEF Resume, PassesLeft
<1>4. CASE ~ (TakeNode \/ TakeAborted \/ Resume)
  <2>1. iterations' = iterations
    BY <1>4 DEF Next, Run, Start, ReachIterationLimit, EndRun, Finish, Stop, FailAborted, Fail,
                ItemFails, IterateItem, Abort, Crash, vars, engine
  <2> QED BY <2>1 DEF PassesLeft
<1> QED BY <1>2, <1>3, <1>4

LEMMA StepsTyped ==
    ASSUME IInv, PassesLeft
    PROVE  /\ StepsLeft \in Nat
           /\ pc # "idle" => StepsLeft > 0
           /\ Passes \in Nat /\ Passes * (Items + 2) \in Nat
           /\ Items \in Nat /\ item \in 0..Items
<1>1. Passes \in Nat /\ Items \in Nat /\ item \in 0..Items
  BY Bounds DEF Passes, PassesLeft, IInv, TypeOK
<1>2. \A a, b \in Nat : a * b \in Nat
  OBVIOUS
<1>3. Passes * (Items + 2) \in Nat
  BY <1>1, <1>2
<1> QED BY <1>1, <1>3 DEF StepsLeft

\* A pass begun is one pass less to come.
LEMMA StepsOfPass ==
    ASSUME IInv, PassesLeft, TakeNode
    PROVE  StepsLeft' \in Nat /\ StepsLeft' < StepsLeft
<1>1. /\ pc = "loop" /\ pc' = "node" /\ item' = 0
      /\ iterations \in Nat /\ iterations' = iterations + 1 /\ iterations <= MaxIterations
      /\ MaxIterations \in Nat /\ Items \in Nat
  BY Bounds DEF TakeNode, IInv, TypeOK
<1>2. Passes' \in Nat /\ Passes = Passes' + 1
  BY <1>1 DEF Passes
<1>3. \A a, b \in Nat : a * b \in Nat /\ (a + 1) * b = a * b + b
  OBVIOUS
<1>4. /\ Passes' * (Items + 2) \in Nat
      /\ (Passes' + 1) * (Items + 2) = Passes' * (Items + 2) + (Items + 2)
  <2>1. Items + 2 \in Nat
    BY <1>1
  <2> QED BY <1>2, <1>3, <2>1
<1>5. Passes * (Items + 2) = Passes' * (Items + 2) + (Items + 2)
  BY <1>2, <1>4
<1>6. StepsLeft = Passes * (Items + 2) + 0 + 1
  BY <1>1 DEF StepsLeft
<1>7. StepsLeft' = Passes' * (Items + 2) + (Items - 0 + 1) + 1
  BY <1>1 DEF StepsLeft
<1> QED BY <1>1, <1>4, <1>5, <1>6, <1>7

\* An item done is one item less, and a node done leads back to the loop.
LEMMA StepsOfNode ==
    ASSUME IInv, PassesLeft,
           ItemFails \/ (\E s \in {"FINISHED", "STOPPED"} : IterateItem(s))
               \/ (\E out \in Out : Finish(out))
    PROVE  StepsLeft' \in Nat /\ StepsLeft' < StepsLeft
<1>1. pc = "node" /\ iterations' = iterations
  BY DEF ItemFails, IterateItem, Finish
<1>2. Passes' = Passes
  BY <1>1 DEF Passes
<1>3. \/ pc' = "node" /\ item < Items /\ item' = item + 1
      \/ pc' = "loop"
  BY DEF ItemFails, IterateItem, Finish
<1>4. Passes * (Items + 2) \in Nat /\ Items \in Nat /\ item \in 0..Items
  BY StepsTyped
<1>5. StepsLeft = Passes * (Items + 2) + (Items - item + 1) + 1
  BY <1>1 DEF StepsLeft
<1>6. CASE pc' = "node" /\ item < Items /\ item' = item + 1
  <2>1. StepsLeft' = Passes * (Items + 2) + (Items - (item + 1) + 1) + 1
    BY <1>2, <1>6 DEF StepsLeft
  <2> QED BY <1>4, <1>5, <2>1
<1>7. CASE pc' = "loop"
  <2>1. StepsLeft' = Passes * (Items + 2) + 0 + 1
    BY <1>2, <1>7 DEF StepsLeft
  <2> QED BY <1>4, <1>5, <2>1
<1> QED BY <1>3, <1>6, <1>7

LEMMA StepsNext ==
    ASSUME IInv, PassesLeft, [Next]_vars
    PROVE  /\ Run => StepsLeft' < StepsLeft
           /\ StepsLeft' > StepsLeft => Start \/ Resume
<1>1. StepsLeft \in Nat /\ (pc # "idle" => StepsLeft > 0)
  BY StepsTyped
<1>2. CASE TakeNode
  BY <1>1, <1>2, StepsOfPass
<1>3. CASE ItemFails \/ (\E s \in {"FINISHED", "STOPPED"} : IterateItem(s))
               \/ (\E out \in Out : Finish(out))
  BY <1>1, <1>3, StepsOfNode
<1>4. CASE ReachIterationLimit \/ TakeAborted \/ EndRun \/ Stop \/ FailAborted \/ Fail \/ Crash
  <2>1. pc # "idle" /\ pc' = "idle"
    BY <1>4 DEF ReachIterationLimit, TakeAborted, Ends, EndRun, Stop, FailAborted, Fail, Crash
  <2>2. StepsLeft' = 0
    BY <2>1 DEF StepsLeft
  <2> QED BY <1>1, <2>1, <2>2
<1>5. CASE Abort \/ UNCHANGED vars
  <2>1. UNCHANGED <<pc, item, iterations>>
    BY <1>5 DEF Abort, vars, engine
  <2>2. StepsLeft' = StepsLeft
    BY <2>1 DEF StepsLeft, Passes
  <2>3. ~ Run
    <3>1. item' # item + 1
      BY <2>1 DEF IInv, TypeOK
    <3> QED BY <2>1, <3>1 DEF Run, ReachIterationLimit, TakeNode, TakeAborted, Ends, EndRun,
                              Finish, Stop, FailAborted, ItemFails, IterateItem
  <2> QED BY <1>1, <2>2, <2>3
<1>6. CASE Start \/ Resume
  <2>1. pc = "idle"
    BY <1>6 DEF Start, Resume
  <2>2. ~ Run
    BY <2>1 DEF Run, ReachIterationLimit, TakeNode, TakeAborted, EndRun, Finish, Stop,
                FailAborted, ItemFails, IterateItem
  <2> QED BY <1>6, <2>2
<1> QED BY <1>2, <1>3, <1>4, <1>5, <1>6 DEF Next, Run

(* executeAgentFlow: whatever the flow, its loops and iterations, each step   *)
(* of the engine leaves fewer of them to come, and nothing but a new request  *)
(* adds any: a call takes at most (MaxIterations + 1) * (Items + 2) + 1 steps. *)
THEOREM RunsAreBounded ==
    Spec => /\ [](StepsLeft \in Nat)
            /\ [][/\ Run => StepsLeft' < StepsLeft
                  /\ StepsLeft' > StepsLeft => Start \/ Resume]_vars
<1>1. Init => PassesLeft
  BY Bounds DEF Init, PassesLeft
<1>2. IInv /\ PassesLeft => StepsLeft \in Nat
  BY StepsTyped
<1>3. IInv /\ PassesLeft /\ [Next]_vars =>
          [/\ Run => StepsLeft' < StepsLeft
           /\ StepsLeft' > StepsLeft => Start \/ Resume]_vars
  BY StepsNext
<1> QED BY <1>1, <1>2, <1>3, PassesNext, Invariance, PTL DEF Spec
=============================================================================
