# A TLA+ model of THub

THub is a Flowise-derived server that builds and runs LLM flows. It is a TypeScript
monorepo: `packages/server` (Express application, TypeORM database, BullMQ queues),
`packages/components` (the nodes a flow is made of, the agent-to-agent library) and
`packages/ui`. This directory holds TLA+ models of the parts whose correctness depends on
the order in which things happen, the TLC configurations that check them on small
instances, and TLAPS proofs of what holds for every instance.

All source paths below are relative to `src/packages/`.

## 1. Inventory

| Component | State | Operations | Interacts with |
|---|---|---|---|
| **Cowork orchestrator** `server/src/services/cowork/orchestrator.ts` | session and task rows (database), shared memory (Redis), per-call copies of rows | `createCoworkSession`, `startCoworkSession`, `executeCoworkTask`, `queueUnblocked`, `checkCompletion` | database, BullMQ queue `cowork`, Redis, LLM |
| **Cowork planner** `.../cowork/taskDecomposer.ts` | none (pure) | `decomposeGoal`, `validateNoCycles`, `getReadyTasks`, `buildDependencyMap` | LLM, prediction queue |
| **Agentflow engine** `server/src/utils/buildAgentflow.ts` | execution queue, waiting nodes, loop counts, execution row | `executeAgentFlow`, `executeNode`, `processNodeOutputs`, resume after a stop | database, node implementations, SSE, abort pool |
| **Agent node** `components/nodes/agentflow/Agent/Agent.ts` | messages, tools at hand, token counts; the question saved with the execution row | `run`, `handleToolCalls`, `handleResumedToolCalls` | model, tools, agentflow engine, execution row |
| **Prediction requests** `server/src/utils/buildChatflow.ts`, `AbortControllerPool.ts`, `queue/PredictionQueue.ts`, `utils/SSEStreamer.ts`, `queue/Redis*` | abort controllers, SSE clients, queue jobs, Redis subscriptions | predict, abort, stream, disconnect | agentflow engine, BullMQ, Redis pub/sub |
| **Rate limiter** `server/src/utils/rateLimit.ts` | limiter per chatflow, one copy per server | add, remove, update by event | BullMQ queue used as event bus |
| **Agent-to-agent server** `components/src/a2a/server/` | event buses, queues, task store | `sendMessage`, `resubscribe`, `cancelTask` | agent executors |
| **Agentgraph (V1)** `server/src/utils/buildAgentGraph.ts` | LangGraph state | build and run multi-agent graphs | LangGraph |
| **Accounts** `server/src/services/auth/index.ts` | users, one-time codes, reset tokens, invites | register, login, reset, invite | database, mail |
| **Subscription** `server/src/services/subscription/index.ts` | plan and expiry per user | order, validate, activate | payment provider |
| **Document store** `server/src/services/documentstore/`, `queue/UpsertQueue.ts` | store rows with their loaders and status, chunk rows | save, process, upsert, refresh, insert, delete and edit chunks, delete a loader, the store or its vectors, update | vector stores, record managers, upsert queue |
| **Evaluations** `server/src/services/evaluations/` | evaluations, runs, costs | create, run again, compare | prediction API |
| **Record manager indexing** `components/src/indexing.ts` | the keys recorded for a store, with the time of their last upsert | `index` with cleanup modes | vector store, record manager |
| **Node library** `components/nodes/` | per node | 681 integrations | third parties |
| **User interface** `ui/` | Redux store | views | REST API |

The two executors (cowork, agentflow) meet in the prediction queue: a cowork task is itself
run as a prediction, and `executeWithAgentflow` waits for its answer. The database is the only
state that survives a process; Redis carries jobs, events and the shared memory of a cowork
session; everything else (abort pools, SSE clients, one-time codes, limiters, event buses) is a
map in one process.

Which behaviours are hard, and what correct means there:

* *Cowork.* Workers of several processes run the same code on the same rows. Every
  function reads an entity, awaits something slow (a queue, Redis, an LLM) and saves the
  whole entity back. Jobs are published before the rows they belong to are saved. Workers
  die, and BullMQ hands the job out again. Correct means: tasks run after the tasks they
  depend on, with their outputs; nothing unblocked is forgotten; the session's status never
  claims what did not happen; the token budget stops the session; a session that meets no
  failure ends completed.
* *Agentflow.* One run is a work list over a graph with conditions, joins, loops, nested
  iterations, stops for human input and aborts. Correct means: a join runs once and only when
  its inputs arrived; loops are bounded; every run leaves the execution row in a final or a
  resumable state; a stopped run is resumed at most once.
* *Agent node.* The model asks for tools, some of which a human must approve: the run stops,
  and a later request, in another process perhaps, goes on in the middle of a response. Correct
  means: nothing runs without the approval it needs, an approval runs what was approved, once,
  and the model is sent messages it accepts.
* *Prediction requests.* A request, its job on a worker, its abort and its stream live in
  different processes and are tied by string keys. Correct means: an abort reaches the run it
  names, an entry of a pool is removed when its run ends, and only then, a response gets the
  events of its own run, in order, and is ended once, and no job is lost or held by two workers.
* *Document store.* Every operation reads the row of the store, works for seconds or minutes and
  saves the whole row; chunks, row and vector store are changed one after the other without a
  transaction. Correct means: what a loader says agrees with its chunks, the chunks of an upsert
  that succeeded can be found, and what overlapping operations or failures spoil is put right by
  processing the loader again.
* *Rate limiter.* Every server must end up with the same limiter after a sequence of updates.
* *Agent-to-agent server.* A bus per task is shared by the request that created it, by
  resubscribers and by cancellations.
* *The others.* Read, check and save sequences over one row (accounts, subscription,
  evaluations): correct means that a second caller between the read and the save is not
  lost and that a row does not stay in an intermediate state after a failure.

## 2. Modules

| Module | Models | Extends / uses |
|---|---|---|
| `DagRun` | what an executor of a plan of tasks promises: the abstract specification | |
| `Cowork` | one cowork session: calls of `startCoworkSession`, BullMQ workers running `executeCoworkTask` | implements `DagRun` |
| `PlanCheck` | `validateNoCycles`, the depth-first search that accepts or rejects a plan | |
| `CoworkAdmission` | `createCoworkSession` and its monthly limit, for the requests of one user | |
| `Agentflow` | `executeAgentFlow`: the work list, joins, decisions, loops, iterations, stops, resumption, abort | implements `DagRun` on flows without decisions |
| `AgentTools` | the tool calls of one agent node, the approvals they wait for and the execution row, for the requests of one execution | |
| `Prediction` | the prediction requests of one chat: controllers, abort pools, event-stream clients; queue, workers and Redis channel in queue mode | |
| `DocumentStore` | the operations on one document store | |
| `...Proofs` | theorems | the module they are named after |
| `AgentflowRecordsProofs` | theorems about the records, the row and the routes of any flow | `AgentflowProofs` |
| `MC...` | plans, flows, tools and bounds for TLC | likewise |

`map` in `PROJECT.json` names the source lines of every definition.

### Cowork

The three stores are `session` and `task` (rows), `jobs` (a bag of BullMQ jobs) and `memory`
(the Redis keys with task outputs). An entity that the code read is a private copy: `ses`, `ent`
and `nxtEnt` of a worker, `cses` of a caller. **Every `await` ends a step**, `pc` and `cpc` name
the await at which a job or a call stands, and `save` replaces the whole row by the copy. What a
test with a mocked repository cannot see is exactly this: how old the copy is when it is saved.

Faults: any await may reject (`CallThrows`, `Throws`: inside the try block control goes to the
catch block, elsewhere the job ends); a worker may die at any await (`Crash`), and BullMQ hands
a stalled job out once more (`maxStalledCount` is 1). A throw happens before the awaited effect;
a crash after any step covers the effect without its continuation.

Abstractions: planner ids of one session are distinct; the reads of `buildTaskInputContext` are
one step; cost totals, treated like the token totals and never checked, are left out; token
costs are numbers of a small set; whole rows are saved, which is what TypeORM does with the
columns in which copy and row differ.

### PlanCheck

The recursion of `dfs` is a stack, `path`; one step is one call or one return. Dependencies of a
task may be visited in any order. Duplicate ids, self references and ids that name no task are in
every plan set: the schema the planner's answer is parsed with checks only that they are strings.

### CoworkAdmission

One step per await of `createCoworkSession`. The month of the count is fixed when the user is
read and the row is dated when it is inserted, so `TurnOfMonth` may fall between the two.
`ActivatePro` and `ActivateFree` are the only effects of the subscription service modelled.

### Agentflow

`queue`, `waiting`, `loops` and `data` are the code's `nodeExecutionQueue`, `waitingNodes`,
`loopCounts` and `agentFlowExecutedData`; `row` is the execution row. `TakeNode` is the head of
the main loop, and what `executeNode` may return is `Finish` (with the output that a decision
fulfilled), `Stop`, `Fail` or `FailAborted`; `Finish` includes all of `processNodeOutputs`.
`Resume` is a later request with human input. `findConditionParent` follows the first edge into
each node, as the code does.

Abstractions: one request for the row at a time (requests that overlap are in `AgentTools`); a
sub-flow of an iteration is one step per item that leaves one record; the flow is not edited
between a stop and its resumption; a client that resumes names the node that asked it, or none
(`buildAgentflow.ts:1606` takes any node of the execution); a decision has at most two outputs
(`Out`); `IsFlow` is what the editor of `ui` lets a user draw (no cycle,
one starting node, one output unless the node decides) minus flows in which one of two edges
between the same two nodes is not the first of its output. The effective maximum of a loop node is
`maxLoop`. Values, variables, chat messages and streaming are left out.

### AgentTools

A response of the model is a number, `calls` says which tools it calls and `author` which requests
received it. `messages`, `toolsInstance`, `totalTokens` are the variables of `run`; `rowState` and
`question` are the execution row. `ReadExecution` and `MarkInProgress` are two steps, as in
`executeAgentFlow`, so that two answers to one question may overlap. `NextCall`, `AskApproval`,
`RunTool`, `RejectCall` are the passes of the loops of `handleToolCalls` and
`handleResumedToolCalls`; `ModelAnswers`, `ModelCalls` and `ModelFails` what the model may do.
A tool fails, the model fails, and a process dies (`Crash`) anywhere.

Abstractions: a call has no arguments; a message says only whether it is the user's, a response or
an output; memory, knowledge bases, built-in tools and streaming are left out; every response
reports one token.

### Prediction

`mode` chooses MAIN, where the server runs the flow, or QUEUE, where a worker does. `pool` and
`wpool` are the abort pools of the server and of each worker, `client` the entry of `SSEStreamer`,
`subscribed` the channel at Redis. Everything is keyed by the chat, as in the code, so a second
request replaces what the first one left there. `Open`, `Answer` and `Forget` are the controller;
`TakeJob` and `EndJob` a worker; `abortChatMessage`, `HandleAbort` and `abortTextToSpeech` the ways
to stop a run. The flow is reduced to the events it emits.

A worker publishes without waiting (`queue/RedisEventPublisher.ts:85`) over a connection of its own.
So `channel` has a queue of events for each worker, in order within it and in no order with the
others; an event arrives any time later (`handleEvent`), after the end of its run too, and goes to
whoever subscribes then. The latest events of a worker that dies may be gone.

A job stalls when its worker dies (`Crash`) and also when a live one does not renew its lock
(`LoseLock`). BullMQ hands it out once more (`Stall`). In the second case the first execution goes on
beside the second, publishes (`EmitLost`), and its result is refused (`EndLost`); such executions are
in `lost`, not in `running`.

### DocumentStore

`row` is the store's row with its loaders, `chunks` the chunk rows. A request has an operation `op`,
the loader it is about, `doc`, and the entity it read, `copy`. Read and save are separate steps, and a
save writes the whole copy (`Save`); it inserts a row that was deleted meanwhile, as TypeORM does. The
parallel saves of step 8 end one by one (`toSave`) and go on when one of them fails. `Crash` is the
death of the process of one request; jobs are handed out again.

The vector store holds `vectors`, the record manager `keys`: the hashes of the chunks, which name
the source and the content, so that a chunk that is processed again has the same key. The namespace of
the record manager is the store, not the loader. An upsert without one is the step `Insert`; with one
it is `index()`, a step per await: `GetTime`, `FindExisting` (keys that are recorded are skipped),
`Skip`, `AddDocuments`, `RecordAll`, and the cleanup, `ListKeys`, `DeleteVectors`, `ForgetKeys`, of the
older keys of the same sources (incremental) or of the whole store (full). `old` is what a run regards
as older. `deleteVectorStoreFromStore` ends in the same steps, for all keys. Any of them may reject
(`IndexFails`), which leaves what was done before.

`promised`, `spoiled` and `misled` are history: the loaders whose upsert succeeded and was not undone
since; the loaders on which two operations overlapped, whose record a stale copy overwrote, which a
failure left halfway or whose chunk a request for another loader took; and the upserts that
met a deletion of the same keys, or keys recorded without vectors. A loader leaves `spoiled` when it
is processed by a request that is alone.

Abstractions: which components a store is configured with; the upsert history; a refresh has one
item; the sources of the loaders do not change (`Texts`; the theorems do not need that); one batch of
documents per upsert; a run begins in a later second than what is recorded already; `addDocuments`
adds all or nothing; the loop of a full cleanup is one turn; a chunk upserted once with and once
without a record manager counts as one vector.

## 3. Runs

| Run | Instance | Checks |
|---|---|---|
| `cowork_plans` | all 25 acyclic plans on three numbered tasks and one with a dangling id; 2 jobs in progress, 1 call | `DependenciesFirst`, `NoStrandedTask`, `ImplementsDagRun`, `OutputsAreMissedOnlyIfOverwritten` |
| `cowork_faults` | a chain of two tasks, budget 2, one rejected await and one crash anywhere | `TypeOK`, `TokensNeverOvercounted`, `VerdictJustified`, `NeverRequeueable`, `Drains` |
| `cowork_live` | three plans (fan out, join, two roots), no faults, fair | `CompletesUnlessOvertaken` |
| `cowork_latesave` | chain of two | `UnblockedIsQueued` is violated |
| `plan_check` | all plans of two or three tasks over three ids | `AcceptedIsOrdered`, `RejectedIsCyclic`, `Terminates` |
| `admission` | four requests, limit 2, three months | `OverrunIsBounded` |
| `agentflow_dags` | all flows of four nodes with one root and no decision, node 2 possibly an iteration of two items; a failure, an abort, a crash; nothing stops, so nothing is resumed | `TypeOK`, `RunsOnce`, `ItemsRun`, `ImplementsDagRun` |
| `agentflow_routes` | all flows of four nodes some of which decide; chains of stops, decisions and iterations; five loops; two failures and two resumptions | `RowMatchesRecords`, `RoutesFollowed`, `FailedResumeCanBeRetried`, `LoopBound`, `EveryRunEnds` |
| `agent_tools` | three requests for one execution, three tools (one asks, one does not, one of an MCP server asks) and a name no tool has, two responses of at most two calls | `TypeOK`, `CallsRunAsApproved`, `ApprovedResponseRuns`, `ModelGetsWellFormedMessages`, `TokensWithinTwice`, `RejectedToolsDoNotRun` |
| `agent_tools_behind` | the same | `ApprovedCallsRun` is violated |
| `prediction` | two requests of one chat, both modes, two workers; two events and a death or lost lock, or two and an abort; one event and both, or two deaths or lost locks | `TypeOK`, `NoControllerOutlivesItsRun`, `AbortFindsRun`, `NoWriteAfterEnd`, `ResponseFollowsRequest`, `StreamFollowsRun`, `JobInOnePlace` |
| `document_store` | two requests with any of the eleven operations, two loaders; each of two chunks, or of one and a death | `TypeOK`, `LoadersMatchChunks`, `SuccessfulUpsertIsSearchable`, `OthersChangeOnlyThroughStaleCopies` |

Why the bounds are enough. Three tasks are the least with which one completion unblocks several
tasks, two completions unblock one, and ids and dependencies disagree; two jobs in progress are
the least with which a scan meets a save. Faults are combined with two tasks only, because a
fault in a third task adds no new pair of steps; the theorems hold for any number. Two jobs also
suffice for two copies of one task to run at once. Requests beyond the second only repeat the
overlap, and with four the bound is attained (one session, then three requests at once). Four nodes hold a join
with two decided and one undecided input, nested decisions and a loop with a node outside.
`MaxIterations` is 10, where the code has 1000: small enough to be reached by two loops with one
body, and larger than any count of passes of the flows without loops. Bounds are in the guards:
`MaxThrows`, `MaxCrashes`, `MaxFails`, `MaxResumes`, `LastMonth`, `MaxCalls`, `MaxResponses`,
`MaxEvents` and `Bounds`, `Size`.

An agent needs two responses to mix the calls of one with the approval of the other, two calls to
have one behind the other, and three requests for a question and two answers that overlap. Two
requests of a chat are the least that overlap; two events show their order and the loss of one,
two deaths a job that stalls for good, an abort one that comes late, and `Bounds` avoids having all
at once. Two operations on a document store make all pairs of operations, on one
loader and on two; two chunks make a partly saved loader; one death makes a job that is
repeated; here, too, `Bounds` takes one or the other. For any number of requests, loaders, chunks and
deaths together there are the theorems.

Deadlock is checked except where requests end and no other need follow: Agentflow, AgentTools,
Prediction, DocumentStore.

### Fairness

* `Cowork!Fairness`: a call and a job in progress go on (the event loop resumes a settled
  promise; an await that never settles is not modelled), and some waiting job is taken while a
  worker is free (BullMQ polls as long as a worker process runs). Nothing is assumed of a
  particular job or of faults.
* `PlanCheck`: the search is a synchronous function and runs to its end.
* `AgentTools`, `Prediction` and `DocumentStore` state safety only: a model may call tools for
  ever (the recursion over responses has no limit), and the upserts and flows may take for ever.
* `Agentflow`: `WF_vars(Run)`, the engine goes on once it was started. Requests, aborts and
  crashes are not fair.

## 4. What is proved

TLAPS checks the theorems for all values of the constants under the assumptions named in the
modules (`CoworkAssumption`, `PlanAssumption`, `TurnAssumption`, `AdmissionAssumption`,
`FlowAssumption`, `BoundsAssumption`, `ToolAssumption`, `PredictionAssumption`,
`StoreAssumption`); none of them bounds the instance, they say what kind of values the constants
are.

* **Cowork** (`CoworkProofs`). `TypeCorrect`, then `Invariance`: `Spec => []IInv`.
  `DependenciesFirst` and `VerdictJustified` are not inductive, because a step acts on copies
  that may be old. `IInv` adds that rows tell what happened (`RowsTellTheTruth`), that a copy
  about to be saved has the status its step gives it (`CopiesToSave`), that what a worker or a
  call picked was unblocked (`PickedAreUnblocked`), that every job was announced
  (`JobsAreQueued`), and that every copy of a session is justified by what had happened when it
  was read (`SessionCopiesJustified`); justification is monotonic in `completed`, `failed` and
  `spent`, so it survives any delay. From it: `DependenciesComeFirst`, `VerdictIsJustified`,
  `TokensAreNotOvercounted`, the action property `NeverRequeued`, and `Refinement`: every step of
  the orchestrator is a step of `DagRun` or a stutter.
  `NothingStranded` needs to know who will still look: `ScansToCome` says that as long as nothing
  went wrong and some pending task is unblocked, a job waits or a worker has its scan, or the
  queueing after it, still ahead (`ScanAhead`). A scan that picks one of several unblocked tasks
  hands the others to the scan of the task it queues, and rows become unblocked only when a task is
  saved as completed, whose worker has yet to scan. `OutputsReachTasks` rests on `OutputsKept`: a
  row that says completed has its output, because every copy that could erase it says running or
  failed.
* **PlanCheck** (`PlanCheckProofs`). `AcceptedPlansAreOrdered` and `RejectedPlansAreCyclic`: the
  search is sound both ways for plans of any length over any ids. The invariant says that every
  order of the plan descends along the stack (so that meeting an id of the stack refutes all
  orders) and that visited ids are closed under dependencies and ranked. `SearchIsBounded`: every
  step of the search lessens `StepsLeft`, which counts the tasks, calls and returns to come, and
  twice the ids not visited; it is a natural number because the ids on the stack are distinct and
  not visited yet. This is what `Terminates` needs besides fairness.
* **CoworkAdmission** (`CoworkAdmissionProofs`). `OverrunBound`: a user who stayed on the free
  plan exceeds the limit by less than the number of requests ever under way at once;
  `SequentialLimit`: the limit itself holds for requests that do not overlap. The invariant counts
  the requests that can no longer be refused for the current month.
* **Agentflow** (`AgentflowProofs`). `LoopsAreBounded`, for every flow: `JumpsKnown` says that what a
  resumption forgets is at most one round of a loop less than its maximum. `EachNodeRunsOnce` and
  `PlainFlowsAreDagRuns` are about flows without decisions, loops and questions (`PlainFlows`, what
  the run `agentflow_dags` enumerates for four nodes), of any size, with any number of failures,
  aborts and crashes. `PlainInv` says that nothing is ever stopped, so that no request resumes
  (`PlainTyped`); that a node is queued once, after all its inputs (`QueuedOnce`); and that a node
  not queued yet lacks an input, while `waitingNodes` has exactly those that came
  (`WaitsForInput`), which is why the last input to come, and only that one, queues it. That an
  execution shown as finished has run every node takes one more argument (`AllHaveRun`): of the
  nodes left when the queue is empty, the one of least rank would wait for one of lesser rank.
  The other results are in `AgentflowRecordsProofs`. `IInv`, for every flow, joins `TypeOK`,
  `RowMatchesRecords` and `FailedResumeCanBeRetried` with two facts they rest on. `RunKnown`: a run
  that brings a human's answer begins with the node that asked, alone in the queue, and until
  that node has run its question is the last record. So a failure of that node leaves the question
  in the last place but one, where a retry looks for it, and a node that ends can drop its
  earlier records without dropping one that the row still counts on. `RowKnown`: a row that may be
  resumed has nothing before its question but finished records and the inner stops of iterations,
  so that there always is a record to resume from. The filter on the records is written as
  `RecordsAt`, a function of positions, about which the provers can reason (`RecordsListed`).
  `ItemsAreRecorded` is about flows without human input and agents (`QuietFlows`, loops and decisions
  included): nothing but an inner stop is ever resumed there (`QuietRun`), and an iteration under way
  has a record for every item it is done with (`ItemsSoFar`).
  `RoutesAreFollowed` is about the flows whose questions lose nothing, `SafeFlows`: the edges that leave a
  decision have outputs and targets of their own (`Tidy`), and either only the first node asks and
  no loop leads back to it (`AsksFirst`), or no node has two inputs and no output two edges
  (`Narrow`). The assumption `FlowsAreSafe` of `MCAgentflow` says that all flows the runs check are
  of this kind; for others the property is false (section 5). The invariant `RoutesInv` is a balance:
  how often a node behind one output ran and how often it is still due make up how often that
  output was fulfilled (`Balanced`), and a node that was never queued knows the inputs that came
  and lacks some (`Remembered`). A stop keeps both, because in such flows the node that asks is the
  only one that is due (`AskedAlone`), and the resumption starts it again (`RoutesOfStop`).
  `RunsAreBounded`: every step of the engine lessens `StepsLeft`, the passes still to come times what
  a pass may take, and nothing but a new request adds to it; this is what `EveryRunEnds` needs
  besides fairness.
* **AgentTools** (`AgentToolsProofs`). `CallsApproved`: no call runs twice in a request or without
  the approval its tool needs; `ApprovalComplete`; `RejectionKept`; `TokensBounded`. Each speaks of
  what happened several steps ago, so `IInv` says how far a request has got: what ran lies behind
  the index of the loop (`RunsAhead`), a message list that may be saved as a question ends with a
  known response or with the output of one of its calls (`QuestionsKnown`), the calls at hand are
  those of the request's own response or of the question it answers (`CallsKnown`), and the calls
  before the index were removed, or run (`RejectedRemoved`, `ApprovedSoFar`, `TokensSoFar`).
  `WellFormedMessages` says that what the model is asked with is in order. It rests on
  `MessagesSoFar`: a list holds a response once, with its outputs behind it in the order of the
  calls; the calls without an output are those of the response at hand from the loop's index on; and
  a question that is saved is open in its last response. A rejection takes that response away, and
  its calls with it. Like the property, it leaves out calls of names
  no tool has (`missing`) and what follows a rejection of several calls (`overPopped`), where the
  code does send lists that are not in order (section 5).
* **Prediction** (`PredictionProofs`). `ControllerOfRunUnderWay`, `AbortReachesRun`, `ClientIsOpen`,
  `StreamEndsWithRequest`, `JobsKept`, `StreamFollows`, for any number of requests, workers, events,
  aborts and deaths. Most of them are about a request alone in its chat, and `IInv` adds why it is
  alone: who ran at the same time is known to have overlapped (`OverlapsKnown`), the client of the
  chat belongs to a request in progress and to the one that is alone (`ClientInProgress`), and in
  each mode the other mode's pool and queue are empty (`ModesApart`). An execution that lost its lock
  counts as another request: whoever is in progress beside it overlaps. `StreamFollows` says which
  events a response gets. It rests on `StreamInv`: in main mode the stream is exactly what the flow
  has emitted, and the start event has been seen once there is any (`WrittenDirectly`); in queue
  mode the events on a worker's connection are that worker's (`Labelled`), what stands there behind an
  event of the request, or behind one of the same worker already written, is its own and later, and
  a job that has not stalled has one worker (`ChannelFollowsRun`). This begins with a job not yet
  executed having no events anywhere (`NoEventYet`) and survives deaths because a job that stalled is
  not asked to keep its order.
* **DocumentStore** (`DocumentStoreProofs`). `LoadersMatch`, `UpsertIsSearchable` and the action
  property `OnlyStaleCopiesOverwrite`. A loader that nobody works on is `Sound`; while one request
  works on it, `Mid` says how far it is from that at each step (the chunks saved and those
  under way make up what was split; one chunk less than the total between deleting it and
  counting it); `Alone` says that on a loader that is not spoiled no second request works, and
  `Kept` puts these together. `StepsKnown` and `RowsKnown` say which operation stands at which step
  and that nobody saves a row it did not find. The number of chunks is a cardinality, so the
  proof also carries that the chunks of a loader are finitely many and told apart by their ids.
  `UpsertIsSearchable` says that what an upsert put into the vector store stays. An upsert under way
  is followed by `Indexed`: unless it is misled, the keys that it skips have their vectors, those it
  adds have them afterwards, and once it has recorded its keys none of them is older than its run, so
  that its own cleanup, and that of any run that began before, takes none of them.

Every safety property and every action property of the passing runs is stated by a theorem, and
so are both refinements of `DagRun`. Only model-checked: the liveness properties `Drains`,
`CompletesUnlessOvertaken`, `Terminates` and `EveryRunEnds`, since the prover handles neither fairness
nor ENABLED. Of the last two the theorems show that only finitely many steps can be taken; that
some step can be taken until the end is left to TLC.

## 5. What the models show about the code

Violations that a run exhibits:

* `cowork_latesave`: a job is published before its row is saved as running. If the worker is
  faster, the late save turns a completed task back into a running one, its dependents are never
  queued and the session runs for ever, without any failure. The session row has the same trap
  with no task row overtaken: `startCoworkSession` reads the session first and saves it as running
  last (`orchestrator.ts:407`), and when the workers have finished everything by then, the
  completed session is running again for good. `CompletesUnlessOvertaken` excuses exactly
  the saves that turn a completed row back to running (`LateSave`: by a scan, by a call, of a
  task, of the session) and shows that there is no other trap: a call that saves while jobs
  run but before they complete, double queueing and workers that overwrite each other's session rows are
  harmless for completion. Each of the three kinds of save does keep a session from completing: the
  property fails when `LateSave` leaves one of them out.
* `agent_tools_behind`: when the call that needs approval is not the first of its response, the
  message list that is saved ends with the output of an earlier call. The resumption takes that
  message for the response ("Use the last message as the response"), finds no calls in it and
  returns at once: the approved tool never runs, and the output of the earlier one is the answer.
  `ApprovedResponseRuns`, proved, is what is left: it holds when the stop came at the first call.

Seen while modelling, without a run:

* Tasks that finish together lose each other's token totals (`RunTask` adds to the copy read
  before the LLM call), so the budget may be passed without stopping the session. Moreover the
  default `executeWithAgentflow` reports no tokens, and `maxCostBudget` is never compared.
* The same late save as in `cowork_latesave` erases `outputArtifact` before the output is in Redis,
  and a dependent task runs without it; `OutputsAreMissedOnlyIfOverwritten` shows that nothing
  else does with two jobs in progress.
* With three jobs in progress a prompt can miss an output without a late save too: a second copy
  of a dependency starts with the row it read before the first copy finished, and saves it.
* `createCoworkOrchestrator()` of a worker takes its services from the Express application, which
  a worker process does not start; no route calls `createCoworkSession`.
* Duplicate planner ids are accepted and make a dependency ambiguous.
* `determineNodesToIgnore` finds one edge per output that was not fulfilled: with two edges at
  that output, the node behind the second one runs. It ignores targets, not edges: a node that two
  outputs of one decision lead to is ignored for the one that was not fulfilled, and does not run
  although the other was. The flows of `agentflow_routes` have one edge at each output of a decision
  and one target behind it for this reason, which is `Tidy` in `RoutesAreFollowed`.
* `loopCounts` is new in every call: a loop with a human input in it never reaches its maximum
  (`LoopBound` multiplies by the resumptions).
* A join inside a loop with an input from outside waits for that input again in the second pass,
  and the loop ends silently; a join behind two edges of one decision output runs once per input.
* An agent inside an iteration that asks for approval leaves a row that stays STOPPED however
  often it is resumed, because nodes inside iterations are dropped from the starting nodes.
* An abort during the last node goes unnoticed: the row says FINISHED. The error of too many
  passes and the death of the server leave the row INPROGRESS for good.
* A stop leaves the main loop and with it the queue; resuming restarts the stopped node alone, so
  that parallel routes are lost and the execution still finishes. `RoutesFollowed` is
  false of such flows; those of `agentflow_routes` stop at the first node or on chains only, and
  `RoutesAreFollowed` says which flows are safe.
* In a resumed execution, the sub-flow of every item of an iteration receives the human input, looks
  for an execution of its own to resume, throws, and the error becomes its result.
* When the tasks of a new session cannot be saved, the session row stays and counts. Overlapping
  requests of one free user pass the monthly check together; `OverrunBound` says how far.
* Tool calls. One approval covers all calls of the response. Each rejected call takes a message
  away, so two rejections remove an earlier message; a rejection of a tool that is not from the
  list removes every tool whose `agentSelectedTool` is undefined; the rejected tool is at hand again
  after the next stop. A retry after a failed resumption repeats the calls that ran. Calls of
  unknown names are not answered, tokens are counted up to twice, and nothing limits the
  recursion over responses.
* Two requests that answer one question both read STOPPED before either writes INPROGRESS
  (`buildAgentflow.ts:1569`): both resume, and each runs the calls that were approved once.
* Overlapping requests of a chat. The second replaces the first one's client and controller:
  the first response is never ended, the first to finish removes the other's controller, and an abort
  stops the wrong run or none.
* Queue mode. An abort handled late stops the chat's next run, one sent before the job is taken
  is lost, and a job executed again after its worker died has forgotten it and repeats its
  events. When the worker did not die but failed to renew its lock in time, the flow runs twice at
  the same time, and whatever its tools do is done twice. The subscription is not awaited and never given back: the last events of a run may
  arrive on the next response, where a late start event suppresses the one of that
  run; when another worker runs the next one, the late ones may land in the middle of its events. The controller that `abortTextToSpeech` looks for ("Also abort the main chat flow
  AbortController", `controllers/text-to-speech/index.ts:188`) is in no pool of the server then.
* Document store. Rows saved from old copies lose loaders, totals and status that other
  requests saved; a deleted store is inserted again; a loader that is removed while it is
  processed leaves chunks without a loader; totals can become negative. A repeated upsert job
  without a loader id makes a second loader. `UPSERTING` is replaced by SYNC before the vectors are
  computed, although the buttons of the view depend on it (`ui/.../DocumentStoreDetail.jsx:471`), and
  upserting one loader marks the whole store UPSERTED. A chunk is looked up by its id alone
  (`documentstore/index.ts:344`, `:458`): a request that names another loader edits it, or deletes it
  and counts it off the loader it named.
* Document store with a record manager. The cleanup mode full of one loader's upsert deletes the
  vectors of all other loaders (`components/src/indexing.ts:329`), because the namespace is the store
  (`SQLiteRecordManager.ts:105`). A deletion that fails after the vectors and before the keys, or that
  overlaps with an upsert, leaves keys without vectors: later upserts skip them, add nothing and
  report success. `SuccessfulUpsertIsSearchable` excuses those two (`misled`) and nothing else.
  Pinecone without a namespace deletes in the namespace `<store>_undefined` (`Pinecone.ts:213`), that
  is, nothing.

## 6. Not modelled, and the plan

Not modelled: the components whose status in `PROJECT.json` is `not_modelled`, with the reason
there, and of the others what the abstractions of section 2 name. LLM calls, parsing of answers,
vector stores and third-party nodes are input and output; most of the repository is such nodes,
views and REST plumbing, with no order of steps to get wrong. What would come next, in this
order:

1. The agent-to-agent server: an event bus per task, its queues, resubscription, cancellation. Every
   queue that was attached ends, unless cleaning up removed its listener first.
2. The rate limiter: two servers, a sequence of updates; every server ends with the limiter of the
   last update. The event carries no status, which a model would show.
3. The chat messages that belong to a stopped execution and the action buttons in them
   (`buildAgentflow.ts:2046`), which must agree with the execution row.
4. Evaluations, accounts and subscriptions as read-check-save sequences.
