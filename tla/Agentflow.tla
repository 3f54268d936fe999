----------------------------- MODULE Agentflow ------------------------------
(***************************************************************************)
(* executeAgentFlow (utils/buildAgentflow.ts): one execution of a flow.    *)
(* The engine keeps a queue of nodes to run and, for every node that has   *)
(* received some of its inputs, the nodes they came from; it runs one node *)
(* at a time.  Human input nodes and agents that want a tool approved stop *)
(* the execution, which a later request resumes from its row.              *)
(*                                                                         *)
(* The blocks inside an iteration node are abstracted: a sub-flow of an    *)
(* item leaves one record, finished or stopped, or fails and leaves none.  *)
(***************************************************************************)
EXTENDS Integers, Sequences, FiniteSets, SequencesExt

CONSTANTS
    Node,           \* the nodes outside iteration blocks; numbers, for MC's sake
    NoNode,
    Flows,          \* the flows that may be drawn
    MaxIterations,  \* MAX_ITERATIONS
    Items,          \* items of an iteration node
    MaxFails,       \* bound: node runs that throw
    MaxResumes,     \* bound: requests that resume
    MayAbort,       \* whether the user may abort
    MayCrash        \* whether the server may die

Kinds == {"plain", "decision", "human", "agent", "loop", "iteration"}

\* The outputs of a decision (bound: two; a condition node has one per condition), and
\* output 0, which stands for none of them being fulfilled.
Out == 0..2

Edge == [from: Node, out: Out \ {0}, to: Node]

\* kind of each node, the edges in the order in which they were drawn, where each
\* loop node leads back to and how often, and the iteration nodes whose agents
\* ask for approval.
Flow == [kind: [Node -> Kinds], edges: Seq(Edge), back: [Node -> Node],
         maxLoop: Nat \ {0}, asks: SUBSET Node]

Decides(f, n) == f.kind[n] \in {"decision", "human"}

Sources(f, n) == {f.edges[i].from : i \in {j \in DOMAIN f.edges : f.edges[j].to = n}}

\* The edge of an output that edges.find returns.
IsFirst(f, i) ==
    \A j \in 1..(i - 1) : f.edges[j].from = f.edges[i].from => f.edges[j].out # f.edges[i].out

\* What the editor lets a user draw and the engine starts: one node without
\* inputs, no cycle, loop nodes without outputs, one output unless the node
\* decides.  Two edges between the same nodes start at different outputs, and
\* we leave out the case that one of them is not the first of its output.
IsFlow(f) ==
    /\ Cardinality({n \in Node : Sources(f, n) = {}}) = 1
    /\ \E rank \in [Node -> 1..Cardinality(Node)] :
         \A i \in DOMAIN f.edges : rank[f.edges[i].from] < rank[f.edges[i].to]
    /\ \A i \in DOMAIN f.edges :
         /\ f.kind[f.edges[i].from] # "loop"
         /\ Decides(f, f.edges[i].from) \/ f.edges[i].out = 1
         /\ \A j \in DOMAIN f.edges \ {i} :
              f.edges[j].from = f.edges[i].from /\ f.edges[j].to = f.edges[i].to =>
                  f.edges[i].out # f.edges[j].out /\ IsFirst(f, i)

ASSUME FlowAssumption ==
    /\ IsFiniteSet(Node) /\ NoNode \notin Node
    /\ Flows \subseteq Flow /\ \A f \in Flows : IsFlow(f)

ASSUME BoundsAssumption ==
    /\ {MaxIterations, Items, MaxFails, MaxResumes} \subseteq Nat
    /\ {MayAbort, MayCrash} \subseteq BOOLEAN

VARIABLES
    flow,        \* the flow
    pc,          \* "idle", or in the loop, or running a node
    cur,         \* the node that is running
    item,        \* items of the running iteration node that are done
    queue,       \* nodeExecutionQueue
    waiting,     \* waitingNodes: the inputs received; {} where there is no entry
    loops,       \* loopCounts
    data,        \* agentFlowExecutedData
    human,       \* the start node of currentHumanInput, or NoNode
    resumed,     \* whether incomingInput carries a humanInput
    iterations,  \* passes through the main loop
    aborted,     \* the abort signal
    row,         \* the execution row: its state and its data
    fails, resumes, \* how many faults and resumptions there were
    taken,       \* history: how often each node finished with each output
    jumps,       \* history: how often each loop node led back
    halted       \* history: the execution ended without writing its row

engine  == <<cur, item, queue, waiting, loops, human, resumed, iterations>>
bounds  == <<fails, resumes>>
history == <<taken, jumps, halted>>
vars == <<flow, pc, engine, data, aborted, row, bounds, history>>

Status == {"FINISHED", "STOPPED", "ERROR", "TERMINATED"}

Record == [node: Node, inner: BOOLEAN, status: Status]

Rec(n, s) == [node |-> n, inner |-> FALSE, status |-> s]
-----------------------------------------------------------------------------
(* Inputs of a node.                                                        *)

\* The source of the first edge drawn into a node; NoNode has none.
FirstSource ==
    [n \in Node \cup {NoNode} |->
        LET into == {i \in DOMAIN flow.edges : flow.edges[i].to = n}
        IN IF into = {} THEN NoNode
           ELSE flow.edges[CHOOSE i \in into : \A j \in into : i <= j].from]

\* The nodes findConditionParent walks through, starting with n.
Walk(n) ==
    LET up[k \in 0..Cardinality(Node)] ==
            IF k = 0 THEN n ELSE FirstSource[up[k - 1]]
    IN up

\* The decision a node is found to depend on, or NoNode.
ConditionParent(n) ==
    LET found == {k \in 0..Cardinality(Node) : Walk(n)[k] \in {m \in Node : Decides(flow, m)}}
    IN IF found = {} THEN NoNode
       ELSE Walk(n)[CHOOSE k \in found : \A j \in found : k <= j]

\* Inputs that do not depend on a decision are all needed; of those that depend
\* on one decision, one is.
ExpectedInputs(n) == {s \in Sources(flow, n) : ConditionParent(s) = NoNode}
ConditionalGroup(n, c) == {s \in Sources(flow, n) : ConditionParent(s) = c}

\* Mutant: one of the unconditional inputs is enough.
MutHasReceivedRequiredInputs(n, received) ==
    /\ ExpectedInputs(n) # {} => ExpectedInputs(n) \cap received # {}
    /\ \A s \in Sources(flow, n) \ ExpectedInputs(n) :
         ConditionalGroup(n, ConditionParent(s)) \cap received # {}

HasReceivedRequiredInputs(n, received) ==
    /\ ExpectedInputs(n) \subseteq received
    /\ \A s \in Sources(flow, n) \ ExpectedInputs(n) :
         ConditionalGroup(n, ConditionParent(s)) \cap received # {}
-----------------------------------------------------------------------------
(* Outputs of a node.                                                       *)

\* Mutant: the outputs that are fulfilled are ignored.
MutIgnored(n, out) ==
    {flow.edges[i].to : i \in
        {j \in DOMAIN flow.edges : /\ Decides(flow, n)
                                   /\ flow.edges[j].from = n
                                   /\ flow.edges[j].out = out
                                   /\ IsFirst(flow, j)}}

\* determineNodesToIgnore: the first edge of every output that is not fulfilled.
Ignored(n, out) ==
    {flow.edges[i].to : i \in
        {j \in DOMAIN flow.edges : /\ Decides(flow, n)
                                   /\ flow.edges[j].from = n
                                   /\ flow.edges[j].out # out
                                   /\ IsFirst(flow, j)}}

Children(n, out) ==
    {flow.edges[i].to : i \in {j \in DOMAIN flow.edges : flow.edges[j].from = n}}
        \ Ignored(n, out)

\* Mutant: a child's entry is made anew for every input.
MutReceived(n, c) == {n}

Received(n, c) == waiting[c] \cup {n}

\* Mutant: children do not wait for their other inputs.
MutReadyChildren(n, out) == Children(n, out)

\* The children that may run now that n has finished.
ReadyChildren(n, out) ==
    {c \in Children(n, out) : HasReceivedRequiredInputs(c, Received(n, c))}

\* Children are visited in the order of the edges.
InEdgeOrder(n, s) ==
    \A i, j \in DOMAIN s : i < j =>
        \E a, b \in DOMAIN flow.edges :
            /\ flow.edges[a].from = n /\ flow.edges[a].to = s[i]
            /\ flow.edges[b].from = n /\ flow.edges[b].to = s[j]
            /\ a < b

\* Mutant: one pass too many.
MutLoopsBack(n) == flow.kind[n] = "loop" /\ loops[n] + 1 <= flow.maxLoop

LoopsBack(n) == flow.kind[n] = "loop" /\ loops[n] + 1 < flow.maxLoop

\* processNodeOutputs.
ProcessNodeOutputs(n, out) ==
    /\ \E ready \in SetToSeqs(ReadyChildren(n, out)) :
         /\ InEdgeOrder(n, ready)
         /\ queue' = queue \o ready \o (IF LoopsBack(n) THEN <<flow.back[n]>> ELSE <<>>)
    /\ waiting' = [c \in Node |->
                     IF c \in ReadyChildren(n, out) THEN {}
                     ELSE IF c \in Children(n, out) THEN Received(n, c)
                     ELSE waiting[c]]
    /\ loops' = [loops EXCEPT ![n] = IF LoopsBack(n) THEN @ + 1 ELSE @]
    /\ jumps' = [jumps EXCEPT ![n] = IF LoopsBack(n) THEN @ + 1 ELSE @]
    /\ taken' = [taken EXCEPT ![n][out] = @ + 1]
-----------------------------------------------------------------------------
(* The execution.                                                           *)

Root == CHOOSE n \in Node : Sources(flow, n) = {}

NoRow == [state |-> "none", data |-> <<>>]

Init ==
    /\ flow \in Flows
    /\ pc = "idle" /\ cur = NoNode /\ item = 0
    /\ queue = <<>> /\ waiting = [n \in Node |-> {}] /\ loops = [n \in Node |-> 0]
    /\ data = <<>> /\ human = NoNode /\ resumed = FALSE /\ iterations = 0
    /\ aborted = FALSE
    /\ row = NoRow
    /\ fails = 0 /\ resumes = 0
    /\ taken = [n \in Node |-> [o \in Out |-> 0]] /\ jumps = [n \in Node |-> 0]
    /\ halted = FALSE

\* A request without human input: a row is inserted.
Start ==
    /\ pc = "idle" /\ row.state = "none"
    /\ pc' = "loop"
    /\ queue' = <<Root>>
    /\ row' = [state |-> "INPROGRESS", data |-> <<>>]
    /\ UNCHANGED <<flow, cur, item, waiting, loops, data, human, resumed, iterations, aborted,
                   bounds, history>>

\* A record whose node a human can be asked about.
StoppedAt == SelectLastInSeq(row.data, LAMBDA r : r.status = "STOPPED")

\* The last record says that the node resumed last time failed.
FailedAfterStop ==
    /\ row.state = "ERROR" /\ Len(row.data) >= 2
    /\ row.data[Len(row.data)].status = "ERROR"
    /\ row.data[Len(row.data) - 1].status = "STOPPED"

Resumable == row.state = "STOPPED" \/ FailedAfterStop

\* A request with human input: the last record that is stopped names the node to
\* start from; a node inside an iteration is dropped from the starting nodes.  A
\* client that names a node itself names this one, which it was asked by; one that
\* names another node of the execution is not modelled.
Resume ==
    /\ pc = "idle" /\ Resumable /\ resumes < MaxResumes
    /\ LET kept == IF row.state = "ERROR" THEN Front(row.data) ELSE row.data
           stop == row.data[StoppedAt]
       IN /\ data' = kept
          /\ row' = [state |-> "INPROGRESS", data |-> kept]
          /\ queue' = IF stop.inner THEN <<>> ELSE <<stop.node>>
          /\ human' = stop.node
    /\ pc' = "loop" /\ resumed' = TRUE /\ resumes' = resumes + 1
    /\ cur' = NoNode /\ item' = 0
    /\ waiting' = [n \in Node |-> {}] /\ loops' = [n \in Node |-> 0] /\ iterations' = 0
    /\ aborted' = FALSE
    /\ UNCHANGED <<flow, fails, history>>

\* Mutant: the pass is skipped instead.
MutReachIterationLimit ==
    /\ pc = "loop" /\ queue # <<>> /\ iterations > MaxIterations
    /\ queue' = Append(Tail(queue), Head(queue))
    /\ UNCHANGED <<flow, pc, cur, item, waiting, loops, data, human, resumed, iterations,
                   aborted, row, bounds, history>>

\* Too many passes: the error leaves the loop without passing its handler.
ReachIterationLimit ==
    /\ pc = "loop" /\ queue # <<>> /\ iterations > MaxIterations
    /\ pc' = "idle" /\ halted' = TRUE
    /\ UNCHANGED <<flow, engine, data, aborted, row, bounds, taken, jumps>>

TakeNode ==
    /\ pc = "loop" /\ queue # <<>> /\ iterations <= MaxIterations
    /\ ~ aborted
    /\ pc' = "node" /\ cur' = Head(queue) /\ queue' = Tail(queue) /\ item' = 0
    /\ iterations' = iterations + 1
    /\ UNCHANGED <<flow, waiting, loops, data, human, resumed, aborted, row, bounds, history>>

\* The records at some positions, in their order.
RecordsAt(K) ==
    [k \in 1..Cardinality(K) |-> data[CHOOSE i \in K : Cardinality({j \in K : j <= i}) = k]]

\* A node that runs with the human input loses the records it has so far.
DataBefore ==
    IF human = cur THEN RecordsAt({i \in DOMAIN data : data[i].inner \/ data[i].node # cur})
    ELSE data

\* Mutant: the record the node was stopped with is dropped before it has run.
MutEnds(n, s) ==
    /\ data' = Append(DataBefore, Rec(n, s))
    /\ row' = [state |-> s, data |-> data']
    /\ pc' = "idle"

\* The handler of the loop: a record is added to the data as they are, and the row
\* is written.
Ends(n, s) ==
    /\ data' = Append(data, Rec(n, s))
    /\ row' = [state |-> s, data |-> data']
    /\ pc' = "idle"

TakeAborted ==
    /\ pc = "loop" /\ queue # <<>> /\ iterations <= MaxIterations
    /\ aborted
    /\ Ends(Head(queue), "TERMINATED")
    /\ queue' = Tail(queue) /\ iterations' = iterations + 1
    /\ UNCHANGED <<flow, cur, item, waiting, loops, human, resumed, aborted, bounds, history>>

\* executeNode returns, and the outputs are handed on.
Finish(out) ==
    /\ pc = "node"
    /\ IF Decides(flow, cur) THEN out \in Out ELSE out = 1
    /\ flow.kind[cur] = "human" => human # NoNode
    /\ flow.kind[cur] = "iteration" => item = Items
    /\ data' = Append(DataBefore, Rec(cur, "FINISHED"))
    /\ ProcessNodeOutputs(cur, out)
    /\ human' = IF human = cur \/ LoopsBack(cur) THEN NoNode ELSE human
    /\ pc' = "loop"
    /\ UNCHANGED <<flow, cur, item, resumed, iterations, aborted, row, bounds, halted>>

\* A human input node without human input, or an agent that wants a tool approved:
\* the loop is left.
Stop ==
    /\ pc = "node"
    /\ \/ flow.kind[cur] = "human" /\ human = NoNode
       \/ flow.kind[cur] = "agent"
    /\ data' = Append(DataBefore, Rec(cur, "STOPPED"))
    /\ row' = [state |-> "STOPPED", data |-> data']
    /\ pc' = "idle"
    /\ human' = IF human = cur THEN NoNode ELSE human
    /\ UNCHANGED <<flow, cur, item, queue, waiting, loops, resumed, iterations, aborted,
                   bounds, history>>

\* The node throws.  The data keep the record the node was stopped with.
Fail ==
    /\ pc = "node" /\ fails < MaxFails
    /\ fails' = fails + 1
    /\ Ends(cur, "ERROR")
    /\ UNCHANGED <<flow, engine, aborted, resumes, history>>

\* The node notices the abort.
FailAborted ==
    /\ pc = "node" /\ aborted
    /\ Ends(cur, "TERMINATED")
    /\ UNCHANGED <<flow, engine, aborted, bounds, history>>

\* Mutant: one item too many.
MutIterateItem(s) ==
    /\ pc = "node" /\ flow.kind[cur] = "iteration" /\ item <= Items
    /\ ~ resumed
    /\ s = "STOPPED" => cur \in flow.asks
    /\ data' = Append(data, [node |-> cur, inner |-> TRUE, status |-> s])
    /\ row' = [row EXCEPT !.data = data']
    /\ item' = item + 1
    /\ UNCHANGED <<flow, pc, cur, queue, waiting, loops, human, resumed, iterations, aborted,
                   bounds, history>>

\* Mutant: the records of an item replace those of the items before.
MutIterateItemAnew(s) ==
    /\ pc = "node" /\ flow.kind[cur] = "iteration" /\ item < Items
    /\ ~ resumed
    /\ s = "STOPPED" => cur \in flow.asks
    /\ data' = Append(SelectSeq(data, LAMBDA r : ~ r.inner),
                      [node |-> cur, inner |-> TRUE, status |-> s])
    /\ row' = [row EXCEPT !.data = data']
    /\ item' = item + 1
    /\ UNCHANGED <<flow, pc, cur, queue, waiting, loops, human, resumed, iterations, aborted,
                   bounds, history>>

\* The sub-flow of an item ends; its record joins the data and the row's data.
\* A sub-flow started by a request with human input looks for an execution to
\* resume and finds none.
IterateItem(s) ==
    /\ pc = "node" /\ flow.kind[cur] = "iteration" /\ item < Items
    /\ ~ resumed
    /\ s = "STOPPED" => cur \in flow.asks
    /\ data' = Append(data, [node |-> cur, inner |-> TRUE, status |-> s])
    /\ row' = [row EXCEPT !.data = data']
    /\ item' = item + 1
    /\ UNCHANGED <<flow, pc, cur, queue, waiting, loops, human, resumed, iterations, aborted,
                   bounds, history>>

\* The error of a sub-flow becomes a result of the iteration.
ItemFails ==
    /\ pc = "node" /\ flow.kind[cur] = "iteration" /\ item < Items
    /\ \/ resumed /\ fails' = fails
       \/ aborted /\ fails' = fails
       \/ fails < MaxFails /\ fails' = fails + 1
    /\ item' = item + 1
    /\ UNCHANGED <<flow, pc, cur, queue, waiting, loops, data, human, resumed, iterations,
                   aborted, row, resumes, history>>

\* Mutant: stopped records are not looked for.
MutFinalStatus ==
    LET some(s) == \E i \in DOMAIN data : data[i].status = s
    IN CASE some("TERMINATED") -> "TERMINATED"
         [] ~ some("TERMINATED") /\ some("ERROR") -> "ERROR"
         [] OTHER -> "FINISHED"

\* The queue is empty: what the records say decides the state of the row.
FinalStatus ==
    LET some(s) == \E i \in DOMAIN data : data[i].status = s
    IN CASE some("TERMINATED") -> "TERMINATED"
         [] ~ some("TERMINATED") /\ some("ERROR") -> "ERROR"
         [] ~ some("TERMINATED") /\ ~ some("ERROR") /\ some("STOPPED") -> "STOPPED"
         [] OTHER -> "FINISHED"

EndRun ==
    /\ pc = "loop" /\ queue = <<>>
    /\ row' = [state |-> FinalStatus, data |-> data]
    /\ pc' = "idle"
    /\ UNCHANGED <<flow, engine, data, aborted, bounds, history>>

\* The user aborts (abortControllerPool.abort).
Abort ==
    /\ MayAbort /\ pc # "idle" /\ ~ aborted
    /\ aborted' = TRUE
    /\ UNCHANGED <<flow, pc, engine, data, row, bounds, history>>

Crash ==
    /\ MayCrash /\ pc # "idle"
    /\ pc' = "idle" /\ halted' = TRUE
    /\ UNCHANGED <<flow, engine, data, aborted, row, bounds, taken, jumps>>

Run ==
    \/ ReachIterationLimit \/ TakeNode \/ TakeAborted \/ EndRun
    \/ \E out \in Out : Finish(out)
    \/ Stop \/ FailAborted \/ ItemFails
    \/ \E s \in {"FINISHED", "STOPPED"} : IterateItem(s)

Next == Start \/ Resume \/ Run \/ Fail \/ Abort \/ Crash

Spec == Init /\ [][Next]_vars /\ WF_vars(Run)
-----------------------------------------------------------------------------
(* Properties.                                                              *)

\* The variables hold values of their kinds.
TypeOK ==
    /\ flow \in Flows
    /\ pc \in {"idle", "loop", "node"} /\ cur \in Node \cup {NoNode} /\ item \in 0..Items
    /\ queue \in Seq(Node) /\ waiting \in [Node -> SUBSET Node] /\ loops \in [Node -> Nat]
    /\ data \in Seq(Record) /\ human \in Node \cup {NoNode} /\ resumed \in BOOLEAN
    /\ iterations \in Nat /\ aborted \in BOOLEAN
    /\ row \in [state: Status \cup {"none", "INPROGRESS"}, data: Seq(Record)]
    /\ fails \in Nat /\ resumes \in Nat
    /\ taken \in [Node -> [Out -> Nat]] /\ jumps \in [Node -> Nat] /\ halted \in BOOLEAN
    /\ pc = "node" => cur \in Node

Ran(n) == taken[n][0] + taken[n][1] + taken[n][2]

Into(n) == {i \in DOMAIN flow.edges : flow.edges[i].to = n}

\* How often the output that edge i starts at was fulfilled.
Chosen(i) == taken[flow.edges[i].from][flow.edges[i].out]

LoopTargets == {flow.back[n] : n \in {m \in Node : flow.kind[m] = "loop"}}

\* A flow without decisions is what DagRun calls a plan: a node runs after all
\* nodes it has inputs from, and the execution is finished when all have run.
Dag == INSTANCE DagRun WITH
    Task <- Node,
    Plans <- {[n \in Node |-> Sources(f, n)] : f \in Flows},
    Budget <- 0,
    deps <- [n \in Node |-> Sources(flow, n)],
    started <- {n \in Node : cur = n \/ Ran(n) > 0},
    completed <- {n \in Node : Ran(n) > 0},
    failed <- {n \in Node : Contains(data, Rec(n, "ERROR"))},
    spent <- 0,
    status <- CASE row.state = "none"     -> "pending"
                [] row.state = "FINISHED" -> "completed"
                [] OTHER                  -> "running"

ImplementsDagRun == Dag!DagSpec

\* processNodeOutputs: without loops and decisions no node runs twice, whichever
\* of its inputs arrives last.
RunsOnce == \A n \in Node : Ran(n) <= 1

\* processNodeOutputs, setupNodeDependencies: when an execution has finished, a node
\* behind one output has run exactly as often as that output was fulfilled, and a
\* join all of whose inputs came has run, whether the inputs depend on decisions or
\* not.
RoutesFollowed ==
    row.state = "FINISHED" =>
        \A n \in Node \ {Root} :
            /\ \A i \in Into(n) : Into(n) = {i} /\ n \notin LoopTargets => Ran(n) = Chosen(i)
            /\ (\A i \in Into(n) : Chosen(i) > 0) => Ran(n) > 0

\* executeAgentFlow: the row a user sees agrees with its records, and an execution
\* shown as under way is under way unless it ended without its handler.
RowMatchesRecords ==
    /\ row.state \in {"ERROR", "TERMINATED"} =>
          row.data # <<>> /\ Last(row.data).status = row.state
    /\ row.state = "FINISHED" => \A i \in DOMAIN row.data : row.data[i].status = "FINISHED"
    /\ row.state = "STOPPED" => \E i \in DOMAIN row.data : row.data[i].status = "STOPPED"
    /\ row.state = "INPROGRESS" => pc # "idle" \/ halted

\* "Found ERROR after STOPPED": when the node that a human resumed fails, the
\* human can resume it once more.
FailedResumeCanBeRetried ==
    pc = "idle" /\ row.state = "ERROR" /\ human # NoNode => Resumable

\* Max Loop Count: a loop node leads back less often than its maximum, in every
\* call of executeAgentFlow: a resumption counts anew.
LoopBound == \A n \in Node : jumps[n] <= (flow.maxLoop - 1) * (resumes + 1)

ItemRecords(n) == {i \in DOMAIN data : data[i].inner /\ data[i].node = n}

\* executeNode: an iteration that met no fault leaves a record of every item.
ItemsRun ==
    row.state = "FINISHED" /\ fails = 0 /\ ~ aborted =>
        \A n \in Node : flow.kind[n] = "iteration" =>
            Cardinality(ItemRecords(n)) = Items * Ran(n)

\* Every execution ends: loops are bounded, and so are the passes.
EveryRunEnds == (pc # "idle") ~> (pc = "idle")
-----------------------------------------------------------------------------
(* Why flows without decisions, loops and questions run as they should.     *)

PlainFlows ==
    \A f \in Flows, n \in Node : f.kind[n] \in {"plain", "iteration"} /\ n \notin f.asks

HasRun(n) == Ran(n) > 0

Queued(n) == \E i \in DOMAIN queue : queue[i] = n

Pending(n) == Queued(n) \/ (pc = "node" /\ cur = n)

\* Nothing is stopped, so that no request resumes.
PlainTyped ==
    /\ flow \in Flows
    /\ pc \in {"idle", "loop", "node"} /\ cur \in Node \cup {NoNode}
    /\ queue \in Seq(Node) /\ waiting \in [Node -> SUBSET Node]
    /\ data \in Seq([node: Node, inner: BOOLEAN, status: Status \ {"STOPPED"}])
    /\ row.data \in Seq([node: Node, inner: BOOLEAN, status: Status \ {"STOPPED"}])
    /\ row.state \in {"none", "INPROGRESS"} \cup (Status \ {"STOPPED"})
    /\ human = NoNode
    /\ taken \in [Node -> [Out -> Nat]]
    /\ pc = "node" => cur \in Node
    /\ pc # "idle" => row.state = "INPROGRESS"
    /\ row.state = "none" => cur = NoNode /\ waiting = [n \in Node |-> {}]

\* A node is queued once, after all its inputs, and not again after it has run.
QueuedOnce ==
    /\ \A i, j \in DOMAIN queue : queue[i] = queue[j] => i = j
    /\ pc = "node" => ~ Queued(cur)
    /\ pc = "loop" /\ cur # NoNode => HasRun(cur)
    /\ \A n \in Node :
         /\ Ran(n) <= 1
         /\ Pending(n) => ~ HasRun(n)
         /\ Pending(n) \/ HasRun(n) => \A s \in Sources(flow, n) : HasRun(s)
         /\ row.state = "none" => ~ Pending(n) /\ ~ HasRun(n)

\* A node that is not queued yet waits for an input, and those that came are known.
WaitsForInput ==
    pc # "idle" =>
        \A n \in Node : Pending(n) \/ HasRun(n) \/
            /\ waiting[n] = {s \in Sources(flow, n) : HasRun(s)}
            /\ \E s \in Sources(flow, n) : ~ HasRun(s)

PlainInv == PlainTyped /\ QueuedOnce /\ WaitsForInput

\* Loops: what a resumption forgets is at most one round less than the maximum.
JumpsKnown ==
    /\ flow \in Flows /\ resumes \in Nat
    /\ loops \in [Node -> Nat] /\ jumps \in [Node -> Nat]
    /\ \A n \in Node : /\ loops[n] <= flow.maxLoop - 1
                        /\ jumps[n] <= (flow.maxLoop - 1) * resumes + loops[n]
-----------------------------------------------------------------------------
(* What the row and the records of any flow say.                            *)

\* Nothing failed so far, and a node that stopped is the last that ran.
Unbroken(records) ==
    \A i \in DOMAIN records :
        /\ records[i].status \in {"FINISHED", "STOPPED"}
        /\ records[i].status = "STOPPED" /\ ~ records[i].inner => i = Len(records)

\* A row that may be resumed.
RowKnown ==
    /\ row.state = "none" =>
          /\ pc = "idle" /\ data = <<>> /\ human = NoNode /\ ~ resumed
          /\ \A n \in Node : waiting[n] = {} /\ \A o \in Out : taken[n][o] = 0
    /\ row.state = "STOPPED" => Unbroken(row.data)
    /\ row.state = "ERROR" => Unbroken(Front(row.data))

\* A run that brings a human's answer begins with the node that asked, alone; until
\* that node has run, its question is the last record.
RunKnown ==
    pc # "idle" =>
        /\ row.state = "INPROGRESS"
        /\ Unbroken(data)
        /\ \A i \in DOMAIN data :
              data[i].status = "STOPPED" /\ ~ data[i].inner =>
                  data[i].node = human /\ (pc = "loop" => queue = <<human>>)
        /\ human # NoNode =>
              /\ resumed
              /\ queue = <<>> \/ (pc = "loop" /\ queue = <<human>>)
              /\ pc = "node" => cur = human
              /\ pc = "node" \/ queue # <<>> =>
                    data # <<>> /\ Last(data).status = "STOPPED"

IInv == TypeOK /\ RowMatchesRecords /\ FailedResumeCanBeRetried /\ RowKnown /\ RunKnown
-----------------------------------------------------------------------------
(* Flows whose questions lose nothing.                                      *)

\* Every edge that leaves a decision has an output and a target of its own.
Tidy(f) ==
    \A i, j \in DOMAIN f.edges :
        i # j /\ f.edges[i].from = f.edges[j].from /\ Decides(f, f.edges[i].from) =>
            f.edges[i].out # f.edges[j].out /\ f.edges[i].to # f.edges[j].to

Asks(f, n) == f.kind[n] \in {"human", "agent"}

\* Nothing but the first node asks, and it runs once.
AsksFirst(f) ==
    \A n \in Node : Asks(f, n) =>
        Sources(f, n) = {} /\ \A m \in Node : f.kind[m] = "loop" => f.back[m] # n

\* Every output leads to one node, and every node has one input.
Narrow(f) ==
    \A i, j \in DOMAIN f.edges : i # j =>
        /\ f.edges[i].to # f.edges[j].to
        /\ f.edges[i].from = f.edges[j].from => f.edges[i].out # f.edges[j].out

SafeFlows == \A f \in Flows : Tidy(f) /\ (AsksFirst(f) \/ Narrow(f))

QuietFlows == \A f \in Flows, n \in Node : ~ Asks(f, n)

\* An agent inside an iteration asked: the execution will not be shown as finished.
InnerStop(records) == \E i \in DOMAIN records : records[i].status = "STOPPED" /\ records[i].inner

Count(s, n) == Cardinality({i \in DOMAIN s : s[i] = n})

\* How often n is still to run.
Due(n) == Count(queue, n) + (IF pc = "node" /\ cur = n THEN 1 ELSE 0)

\* The node a resumption would start.
StoppedNode == row.data[StoppedAt].node

\* A node behind one output is due as often as it was chosen and has not run.
Balanced(n, due) ==
    \A i \in Into(n) :
        Into(n) = {i} /\ n \notin LoopTargets => Ran(n) + due = Chosen(i)

\* A node that was never queued knows the inputs that came, and lacks some.
Remembered(n) ==
    \/ Ran(n) > 0 \/ Pending(n)
    \/ /\ \A i \in Into(n) : Chosen(i) > 0 => flow.edges[i].from \in waiting[n]
       /\ ~ HasReceivedRequiredInputs(n, waiting[n])

RoutesOfRun ==
    pc # "idle" /\ ~ InnerStop(data) =>
        \A n \in Node \ {Root} : Balanced(n, Due(n)) /\ Remembered(n)

\* While a human is asked nothing else is due.
RoutesOfStop ==
    pc = "idle" /\ Resumable /\ ~ InnerStop(row.data) =>
        \A n \in Node \ {Root} :
            /\ Balanced(n, IF n = StoppedNode THEN 1 ELSE 0)
            /\ Ran(n) > 0 \/ n = StoppedNode \/ \A i \in Into(n) : Chosen(i) = 0

NothingRan == \A n \in Node, o \in Out : taken[n][o] = 0

\* A node that asks is alone: it is the first one, or no other is queued ever.
AskedAlone ==
    /\ pc # "idle" /\ Narrow(flow) => Len(queue) + (IF pc = "node" THEN 1 ELSE 0) <= 1
    /\ pc # "idle" /\ ~ Narrow(flow) /\ ~ InnerStop(data) =>
          /\ Asks(flow, Root) /\ Pending(Root) =>
                Len(queue) + (IF pc = "node" THEN 1 ELSE 0) <= 1 /\ NothingRan
          /\ human # NoNode => human = Root /\ Asks(flow, Root)
    /\ pc = "idle" /\ Resumable /\ ~ Narrow(flow) /\ ~ InnerStop(row.data) =>
          StoppedNode = Root /\ Asks(flow, Root) /\ NothingRan

RoutesInv == RoutesOfRun /\ RoutesOfStop /\ AskedAlone /\ RoutesFollowed

\* An iteration under way has a record of every item it is done with.
ItemsSoFar ==
    pc # "idle" /\ fails = 0 /\ ~ aborted /\ ~ InnerStop(data) =>
        \A n \in Node : flow.kind[n] = "iteration" =>
            Cardinality(ItemRecords(n)) =
                Items * Ran(n) + (IF pc = "node" /\ cur = n THEN item ELSE 0)

\* Without questions nothing but an inner stop is resumed.
QuietRun ==
    /\ pc # "idle" /\ resumed => InnerStop(data)
    /\ \A i \in DOMAIN data : data[i].status = "STOPPED" => data[i].inner
    /\ \A i \in DOMAIN row.data : row.data[i].status = "STOPPED" => row.data[i].inner
=============================================================================
