------------------------------- MODULE Cowork -------------------------------
(***************************************************************************)
(* The execution of one cowork session: CoworkOrchestratorService          *)
(* (services/cowork/orchestrator.ts) run by the BullMQ workers of          *)
(* queue/CoworkQueue.ts.                                                   *)
(*                                                                         *)
(* A session is a plan of tasks with dependencies.  startCoworkSession     *)
(* queues the tasks without dependencies; each worker that finishes a task *)
(* looks for one more task whose dependencies are all completed and queues *)
(* it (queueUnblocked), then decides whether the session is over           *)
(* (checkCompletion).  All of them share three stores: the database (rows  *)
(* of the session and of its tasks), the job queue and the Redis memory.   *)
(*                                                                         *)
(* Every await of the code ends a step.  An entity read from the database  *)
(* is a private copy, and TypeORM's save writes every column of the copy   *)
(* that differs from the row: a step that saves therefore replaces the     *)
(* whole row by the copy, however old the copy is.                         *)
(***************************************************************************)
EXTENDS Integers, FiniteSets

CONSTANTS
    Task,        \* the session's tasks, numbered in sortTasksByCreated order
    Plans,       \* the dependency functions the planner may have returned
    Worker,      \* the jobs that may be in progress at one time
    Caller,      \* the calls of startCoworkSession
    Budget,      \* maxTokenBudget (0: none)
    TokenCost,   \* the tokens one execution may report
    UseRedis,    \* FALSE when there is no Redis client
    MaxThrows,   \* bound: awaits that reject
    MaxCrashes   \* bound: worker processes that die

ASSUME CoworkAssumption ==
    /\ Task \subseteq Nat
    /\ Plans \subseteq [Task -> SUBSET Nat]
    /\ Budget \in Nat
    /\ TokenCost \subseteq Nat
    /\ UseRedis \in BOOLEAN
    /\ MaxThrows \in Nat
    /\ MaxCrashes \in Nat

VARIABLES
    dependencies, \* column `dependencies' of the task rows: never written again
    session,      \* the CoworkSession row
    task,         \* the CoworkTask rows
    memory,       \* planner ids whose task_output key is set in Redis
    jobs,         \* how many copies of a job wait in the queue
    pc,           \* per worker: the await at which its job stands
    job,          \* per worker: the job
    ses,          \* per worker: its copy of the session row
    ent,          \* per worker: its copy of its own task's row
    nxt,          \* per worker: the task queueUnblocked picked
    nxtEnt,       \* per worker: its copy of that task's row
    ctx,          \* per worker: dependencies whose output the prompt contains
    cpc,          \* per caller: the await at which startCoworkSession stands
    cses,         \* per caller: its copy of the session row
    todo,         \* per caller: ready tasks not yet queued
    started,      \* per caller: ready tasks queued, not yet saved
    throws,       \* number of awaits that rejected so far
    crashes,      \* number of worker deaths so far
    queued,       \* history: tasks for which a job was ever added
    completed,    \* history: tasks ever saved as completed
    failed,       \* history: tasks ever saved as failed
    spent         \* history: tokens consumed by all executions

stores  == <<dependencies, session, task, memory, jobs>>
locals  == <<job, ses, ent, nxt, nxtEnt, ctx>>
calls   == <<cpc, cses, todo, started>>
faults  == <<throws, crashes>>
history == <<queued, completed, failed, spent>>
vars    == <<stores, pc, locals, calls, faults, history>>

CoworkTaskStatus    == {"pending", "ready", "running", "completed", "failed"}
CoworkSessionStatus == {"pending", "running", "completed", "partial"}

\* A task row: its status and whether outputArtifact is set.
CoworkTask    == [status: CoworkTaskStatus, output: BOOLEAN]
CoworkSession == [status: CoworkSessionStatus, tokens: Nat]

\* BullMQ lets a job stall once; a second stall fails it.
Job == [task: Task, stalls: {0, 1}]

NoTask    == 0
NoJob     == [task |-> NoTask, stalls |-> 0]
NoSession == [status |-> "pending", tokens |-> 0]
NoEntity  == [status |-> "pending", output |-> FALSE]

IsFirst(t, S) == t \in S /\ \A u \in S : t <= u

\* Mutant: a missing budget counts as a budget of zero.
MutIsTokenBudgetExceeded(s) == s.tokens >= Budget

isTokenBudgetExceeded(s) == Budget > 0 /\ s.tokens >= Budget

\* Mutant: a dependency that is running counts as completed.
MutUnblockedEarly ==
    {t \in Task : /\ task[t].status = "pending"
                  /\ \A d \in dependencies[t] :
                        d \in Task /\ task[d].status \in {"running", "completed"}}

\* Mutant: the slice is taken before the filter.
MutUnblockedSliceFirst ==
    {t \in Task : /\ IsFirst(t, {u \in Task : task[u].status = "pending"})
                  /\ \A d \in dependencies[t] :
                        d \in Task /\ task[d].status = "completed"}

\* The pending tasks all of whose dependencies are completed: an id that names
\* no task of the session never is.
unblockedPending ==
    {t \in Task : /\ task[t].status = "pending"
                  /\ \A d \in dependencies[t] :
                        d \in Task /\ task[d].status = "completed"}

\* Mutant: no fallback to the row.
MutInputContext(t) == dependencies[t] \cap memory

\* buildTaskInputContext: what Redis or, failing that, the task row supplies.
inputContext(t) ==
    {d \in dependencies[t] : d \in memory \/ (d \in Task /\ task[d].output)}

enqueueTask(t) ==
    /\ jobs' = [jobs EXCEPT ![[task |-> t, stalls |-> 0]] = @ + 1]
    /\ queued' = queued \cup {t}

\* The row that createCoworkSession inserts for each node of the plan.
buildTaskEntityFromDagNode(deps) ==
    [status |-> IF deps = {} THEN "ready" ELSE "pending", output |-> FALSE]

Init ==
    /\ dependencies \in Plans
    /\ session = [status |-> "pending", tokens |-> 0]
    /\ task = [t \in Task |-> buildTaskEntityFromDagNode(dependencies[t])]
    /\ memory = {}
    /\ jobs = [j \in Job |-> 0]
    /\ pc = [w \in Worker |-> "idle"]
    /\ job = [w \in Worker |-> NoJob]
    /\ ses = [w \in Worker |-> NoSession]
    /\ ent = [w \in Worker |-> NoEntity]
    /\ nxt = [w \in Worker |-> NoTask]
    /\ nxtEnt = [w \in Worker |-> NoEntity]
    /\ ctx = [w \in Worker |-> {}]
    /\ cpc = [c \in Caller |-> "load"]
    /\ cses = [c \in Caller |-> NoSession]
    /\ todo = [c \in Caller |-> {}]
    /\ started = [c \in Caller |-> {}]
    /\ throws = 0
    /\ crashes = 0
    /\ queued = {}
    /\ completed = {}
    /\ failed = {}
    /\ spent = 0

-----------------------------------------------------------------------------
(* startCoworkSession, one call per element of Caller.                      *)

CallerGoes(c, from, to) == cpc[c] = from /\ cpc' = [cpc EXCEPT ![c] = to]

CallLoad(c) ==
    /\ CallerGoes(c, "load", "scan")
    /\ cses' = [cses EXCEPT ![c] = session]
    /\ UNCHANGED <<stores, pc, locals, todo, started, faults, history>>

CallScan(c) ==
    LET readyTasks == {t \in Task : task[t].status = "ready"} IN
    /\ CallerGoes(c, "scan", IF readyTasks = {} THEN "saveSession" ELSE "enqueue")
    /\ todo' = [todo EXCEPT ![c] = readyTasks]
    /\ UNCHANGED <<stores, pc, locals, cses, started, faults, history>>

CallEnqueue(c) ==
    /\ \E t \in Task :
          /\ IsFirst(t, todo[c])
          /\ CallerGoes(c, "enqueue", IF todo[c] = {t} THEN "saveTasks" ELSE "enqueue")
          /\ enqueueTask(t)
          /\ todo' = [todo EXCEPT ![c] = @ \ {t}]
          /\ started' = [started EXCEPT ![c] = @ \cup {t}]
    /\ UNCHANGED <<dependencies, session, task, memory, pc, locals, cses, faults,
                   completed, failed, spent>>

\* The copies were read as ready rows, which have no output.
CallSaveTasks(c) ==
    /\ CallerGoes(c, "saveTasks", "saveSession")
    /\ task' = [t \in Task |-> IF t \in started[c]
                               THEN [status |-> "running", output |-> FALSE]
                               ELSE task[t]]
    /\ UNCHANGED <<dependencies, session, memory, jobs, pc, locals, cses, todo,
                   started, faults, history>>

CallSaveSession(c) ==
    /\ CallerGoes(c, "saveSession", "done")
    /\ session' = [cses[c] EXCEPT !.status = "running"]
    /\ UNCHANGED <<dependencies, task, memory, jobs, pc, locals, cses, todo,
                   started, faults, history>>

\* A rejected await leaves the call: what was queued stays queued, unsaved.
CallThrows(c) ==
    /\ cpc[c] # "done"
    /\ throws < MaxThrows
    /\ cpc' = [cpc EXCEPT ![c] = "done"]
    /\ throws' = throws + 1
    /\ UNCHANGED <<stores, pc, locals, cses, todo, started, crashes, history>>

CallerStep(c) ==
    \/ CallLoad(c) \/ CallScan(c) \/ CallEnqueue(c)
    \/ CallSaveTasks(c) \/ CallSaveSession(c)

-----------------------------------------------------------------------------
(* executeCoworkTask, run by a worker for one job.                          *)

Goes(w, from, to) == pc[w] = from /\ pc' = [pc EXCEPT ![w] = to]

Mine(w) == job[w].task

\* The job ends and its copies are gone.
Release(w) ==
    /\ pc' = [pc EXCEPT ![w] = "idle"]
    /\ job' = [job EXCEPT ![w] = NoJob]
    /\ ses' = [ses EXCEPT ![w] = NoSession]
    /\ ent' = [ent EXCEPT ![w] = NoEntity]
    /\ nxt' = [nxt EXCEPT ![w] = NoTask]
    /\ nxtEnt' = [nxtEnt EXCEPT ![w] = NoEntity]
    /\ ctx' = [ctx EXCEPT ![w] = {}]

TakeJob(w, j) ==
    /\ jobs[j] > 0
    /\ Goes(w, "idle", "loadSession")
    /\ jobs' = [jobs EXCEPT ![j] = @ - 1]
    /\ job' = [job EXCEPT ![w] = j]
    /\ UNCHANGED <<dependencies, session, task, memory, ses, ent, nxt, nxtEnt, ctx,
                   calls, faults, history>>

LoadSession(w) ==
    /\ Goes(w, "loadSession", "loadTask")
    /\ ses' = [ses EXCEPT ![w] = session]
    /\ UNCHANGED <<stores, job, ent, nxt, nxtEnt, ctx, calls, faults, history>>

\* Neither check below looks at the status of the task that was read.
LoadTask(w) ==
    /\ Goes(w, "loadTask",
            IF isTokenBudgetExceeded(ses[w]) THEN "overBudget" ELSE "markRunning")
    /\ ent' = [ent EXCEPT ![w] = [task[Mine(w)] EXCEPT !.status =
                  IF isTokenBudgetExceeded(ses[w]) THEN @ ELSE "running"]]
    /\ UNCHANGED <<stores, job, ses, nxt, nxtEnt, ctx, calls, faults, history>>

\* Mutant: a status the session does not have.
MutHandleBudgetExceeded(w) ==
    session' = IF ses[w].status = "partial"
               THEN session ELSE [ses[w] EXCEPT !.status = "failed"]

\* handleBudgetExceeded: the copy is saved unless it already says partial.
handleBudgetExceeded(w) ==
    session' = IF ses[w].status = "partial"
               THEN session ELSE [ses[w] EXCEPT !.status = "partial"]

StopOverBudget(w) ==
    /\ pc[w] = "overBudget"
    /\ handleBudgetExceeded(w)
    /\ Release(w)
    /\ UNCHANGED <<dependencies, task, memory, jobs, calls, faults, history>>

MarkRunning(w) ==
    /\ Goes(w, "markRunning", "context")
    /\ task' = [task EXCEPT ![Mine(w)] = ent[w]]
    /\ UNCHANGED <<dependencies, session, memory, jobs, locals, calls, faults, history>>

BuildContext(w) ==
    /\ Goes(w, "context", "run")
    /\ ctx' = [ctx EXCEPT ![w] = inputContext(Mine(w))]
    /\ UNCHANGED <<stores, job, ses, ent, nxt, nxtEnt, calls, faults, history>>

\* executeWithAgentflow resolves; the totals are added to the copy of the
\* session that was read before the task ran.
RunTask(w) ==
    /\ Goes(w, "run", "saveTask")
    /\ ent' = [ent EXCEPT ![w] = [status |-> "completed", output |-> TRUE]]
    /\ \E cost \in TokenCost :
          /\ ses' = [ses EXCEPT ![w].tokens = @ + cost]
          /\ spent' = spent + cost
    /\ UNCHANGED <<stores, job, nxt, nxtEnt, ctx, calls, faults,
                   queued, completed, failed>>

SaveTask(w) ==
    /\ Goes(w, "saveTask", "saveSession")
    /\ task' = [task EXCEPT ![Mine(w)] = ent[w]]
    /\ completed' = completed \cup {Mine(w)}
    /\ UNCHANGED <<dependencies, session, memory, jobs, locals, calls, faults,
                   queued, failed, spent>>

\* Mutant: the copy's total is added to the row's.
MutSaveSession(w) ==
    /\ Goes(w, "saveSession", "share")
    /\ session' = [ses[w] EXCEPT !.tokens = @ + session.tokens]
    /\ UNCHANGED <<dependencies, task, memory, jobs, locals, calls, faults, history>>

SaveSession(w) ==
    /\ Goes(w, "saveSession", "share")
    /\ session' = ses[w]
    /\ UNCHANGED <<dependencies, task, memory, jobs, locals, calls, faults, history>>

setSharedMemory(w) ==
    /\ Goes(w, "share", "unblock")
    /\ memory' = IF UseRedis THEN memory \cup {Mine(w)} ELSE memory
    /\ UNCHANGED <<dependencies, session, task, jobs, locals, calls, faults, history>>

-----------------------------------------------------------------------------
(* queueUnblocked                                                           *)

UnblockLoad(w) ==
    /\ Goes(w, "unblock",
            IF isTokenBudgetExceeded(session) THEN "unblockOverBudget" ELSE "unblockScan")
    /\ ses' = [ses EXCEPT ![w] = session]
    /\ UNCHANGED <<stores, job, ent, nxt, nxtEnt, ctx, calls, faults, history>>

UnblockOverBudget(w) ==
    /\ Goes(w, "unblockOverBudget", "check")
    /\ handleBudgetExceeded(w)
    /\ UNCHANGED <<dependencies, task, memory, jobs, locals, calls, faults, history>>

\* slice(0, MAX_UNBLOCKED_TASKS_PER_TICK): at most the first one.
UnblockNone(w) ==
    /\ unblockedPending = {}
    /\ Goes(w, "unblockScan", "check")
    /\ UNCHANGED <<stores, locals, calls, faults, history>>

UnblockPick(w) ==
    /\ Goes(w, "unblockScan", "unblockEnqueue")
    /\ \E t \in Task :
          /\ IsFirst(t, unblockedPending)
          /\ nxt' = [nxt EXCEPT ![w] = t]
          /\ nxtEnt' = [nxtEnt EXCEPT ![w] = task[t]]
    /\ UNCHANGED <<stores, job, ses, ent, ctx, calls, faults, history>>

\* The job is visible to other workers before the row says running.
UnblockEnqueue(w) ==
    /\ Goes(w, "unblockEnqueue", "unblockSave")
    /\ enqueueTask(nxt[w])
    /\ nxtEnt' = [nxtEnt EXCEPT ![w].status = "running"]
    /\ UNCHANGED <<dependencies, session, task, memory, job, ses, ent, nxt, ctx,
                   calls, faults, completed, failed, spent>>

UnblockSave(w) ==
    /\ Goes(w, "unblockSave", "check")
    /\ task' = [task EXCEPT ![nxt[w]] = nxtEnt[w]]
    /\ UNCHANGED <<dependencies, session, memory, jobs, locals, calls, faults, history>>

-----------------------------------------------------------------------------
(* checkCompletion, on the normal path and in the catch block               *)

CheckLoad(w) ==
    /\ Goes(w, "check", "checkTasks")
    /\ ses' = [ses EXCEPT ![w] = session]
    /\ UNCHANGED <<stores, job, ent, nxt, nxtEnt, ctx, calls, faults, history>>

\* Mutant: a task that is running no longer holds the session up.
MutAllCompleted ==
    Task # {} /\ \A t \in Task : task[t].status \in {"running", "completed"}

allCompleted == Task # {} /\ \A t \in Task : task[t].status = "completed"
hasFailures  == \E t \in Task : task[t].status = "failed"

CheckVerdict(w) ==
    /\ allCompleted \/ hasFailures \/ ses[w].status = "partial"
    /\ Goes(w, "checkTasks", "saveVerdict")
    /\ ses' = [ses EXCEPT ![w].status = IF allCompleted THEN "completed" ELSE "partial"]
    /\ UNCHANGED <<stores, job, ent, nxt, nxtEnt, ctx, calls, faults, history>>

\* Mutant: the worker polls until there is a verdict.
MutCheckNothing(w) ==
    /\ Goes(w, "checkTasks", "check")
    /\ ~ (allCompleted \/ hasFailures \/ ses[w].status = "partial")
    /\ UNCHANGED <<stores, locals, calls, faults, history>>

CheckNothing(w) ==
    /\ pc[w] = "checkTasks"
    /\ ~ (allCompleted \/ hasFailures \/ ses[w].status = "partial")
    /\ Release(w)
    /\ UNCHANGED <<stores, calls, faults, history>>

SaveVerdict(w) ==
    /\ pc[w] = "saveVerdict"
    /\ session' = ses[w]
    /\ Release(w)
    /\ UNCHANGED <<dependencies, task, memory, jobs, calls, faults, history>>

-----------------------------------------------------------------------------
(* Failures                                                                 *)

\* Mutant: a failed task is put back to pending for another try.
MutRecordFailure(w) ==
    /\ Goes(w, "catch", "check")
    /\ ent' = [ent EXCEPT ![w].status = "failed"]
    /\ task' = [task EXCEPT ![Mine(w)] = [ent[w] EXCEPT !.status = "pending"]]
    /\ failed' = failed \cup {Mine(w)}
    /\ UNCHANGED <<dependencies, session, memory, jobs, job, ses, nxt, nxtEnt, ctx,
                   calls, faults, queued, completed, spent>>

\* The catch block saves the task as failed whatever the try block had already
\* saved, then calls checkCompletion.
RecordFailure(w) ==
    /\ Goes(w, "catch", "check")
    /\ ent' = [ent EXCEPT ![w].status = "failed"]
    /\ task' = [task EXCEPT ![Mine(w)] = ent'[w]]
    /\ failed' = failed \cup {Mine(w)}
    /\ UNCHANGED <<dependencies, session, memory, jobs, job, ses, nxt, nxtEnt, ctx,
                   calls, faults, queued, completed, spent>>

\* An await of the try block, as long as the catch block has not been entered.
InTry(w) ==
    /\ pc[w] \notin {"idle", "loadSession", "loadTask", "overBudget", "catch"}
    /\ ent[w].status # "failed"

\* The await rejects without having had its effect.
Throws(w) ==
    /\ throws < MaxThrows
    /\ throws' = throws + 1
    /\ \/ /\ InTry(w)
          /\ pc' = [pc EXCEPT ![w] = "catch"]
          /\ UNCHANGED locals
       \/ /\ ~ InTry(w)
          /\ pc[w] # "idle"
          /\ Release(w)
    /\ UNCHANGED <<stores, calls, crashes, history>>

\* The worker process dies; BullMQ finds the job stalled and hands it out once more.
Crash(w) ==
    /\ crashes < MaxCrashes
    /\ crashes' = crashes + 1
    /\ pc[w] # "idle"
    /\ jobs' = IF job[w].stalls = 0
               THEN [jobs EXCEPT ![[job[w] EXCEPT !.stalls = 1]] = @ + 1]
               ELSE jobs
    /\ Release(w)
    /\ UNCHANGED <<dependencies, session, task, memory, calls, throws, history>>

executeCoworkTask(w) ==
    \/ LoadSession(w) \/ LoadTask(w) \/ StopOverBudget(w) \/ MarkRunning(w)
    \/ BuildContext(w) \/ RunTask(w) \/ SaveTask(w) \/ SaveSession(w)
    \/ setSharedMemory(w) \/ RecordFailure(w)

queueUnblocked(w) ==
    \/ UnblockLoad(w) \/ UnblockOverBudget(w) \/ UnblockNone(w)
    \/ UnblockPick(w) \/ UnblockEnqueue(w) \/ UnblockSave(w)

checkCompletion(w) ==
    CheckLoad(w) \/ CheckVerdict(w) \/ CheckNothing(w) \/ SaveVerdict(w)

WorkerStep(w) == executeCoworkTask(w) \/ queueUnblocked(w) \/ checkCompletion(w)

\* Nothing is left to do: every call returned, every job ended.
Quiet ==
    /\ \A c \in Caller : cpc[c] = "done"
    /\ \A w \in Worker : pc[w] = "idle"
    /\ \A j \in Job : jobs[j] = 0

Done == Quiet /\ UNCHANGED vars

Next ==
    \/ \E c \in Caller : CallerStep(c) \/ CallThrows(c)
    \/ \E w \in Worker : \/ \E j \in Job : TakeJob(w, j)
                         \/ WorkerStep(w)
                         \/ Throws(w)
                         \/ Crash(w)
    \/ Done

\* A call that began goes on, a job in progress goes on, and a waiting job is
\* taken when a worker is free: BullMQ polls for as long as a worker runs.
Fairness ==
    /\ \A c \in Caller : WF_vars(CallerStep(c))
    /\ \A w \in Worker : WF_vars(WorkerStep(w))
    /\ WF_vars(\E w \in Worker, j \in Job : TakeJob(w, j))

Spec == Init /\ [][Next]_vars
FairSpec == Spec /\ Fairness

-----------------------------------------------------------------------------
(* Properties                                                               *)

\* Every row, copy and counter has its type; a job in progress has a task of
\* the session.
TypeOK ==
    /\ dependencies \in [Task -> SUBSET Nat]
    /\ session \in CoworkSession
    /\ task \in [Task -> CoworkTask]
    /\ memory \subseteq Task
    /\ jobs \in [Job -> Nat]
    /\ pc \in [Worker -> {"idle", "loadSession", "loadTask", "overBudget", "markRunning",
                          "context", "run", "saveTask", "saveSession", "share", "unblock",
                          "unblockOverBudget", "unblockScan", "unblockEnqueue",
                          "unblockSave", "check", "checkTasks", "saveVerdict", "catch"}]
    /\ job \in [Worker -> Job \cup {NoJob}]
    /\ ses \in [Worker -> CoworkSession]
    /\ ent \in [Worker -> CoworkTask]
    /\ nxt \in [Worker -> Task \cup {NoTask}]
    /\ nxtEnt \in [Worker -> CoworkTask]
    /\ ctx \in [Worker -> SUBSET Nat]
    /\ cpc \in [Caller -> {"load", "scan", "enqueue", "saveTasks", "saveSession", "done"}]
    /\ cses \in [Caller -> CoworkSession]
    /\ todo \in [Caller -> SUBSET Task]
    /\ started \in [Caller -> SUBSET Task]
    /\ throws \in Nat
    /\ crashes \in Nat
    /\ queued \subseteq Task
    /\ completed \subseteq Task
    /\ failed \subseteq Task
    /\ spent \in Nat
    /\ \A w \in Worker : pc[w] # "idle" => job[w] \in Job
    /\ \A w \in Worker : pc[w] \in {"unblockEnqueue", "unblockSave"} => nxt[w] \in Task

\* "task IDs that must complete before this one" (CoworkTypes.ts): no task is
\* handed to the queue before each of its dependencies has been saved as
\* completed, whatever stale copies the workers act on.
DependenciesFirst == \A t \in queued : dependencies[t] \subseteq completed

\* checkCompletion and handleBudgetExceeded never announce what did not happen:
\* a session is completed only if all its tasks were, and partial only if a task
\* failed or the executions used up the budget.
VerdictJustified ==
    /\ session.status = "completed" => Task \subseteq completed
    /\ session.status = "partial" => failed # {} \/ (Budget > 0 /\ spent >= Budget)

\* What the row of a session, or any copy of it, may claim.
Justified(s) ==
    /\ s.status = "completed" => Task \subseteq completed
    /\ s.status = "partial" => failed # {} \/ (Budget > 0 /\ spent >= Budget)
    /\ s.tokens <= spent

\* totalTokensUsed may lose the tokens of concurrent executions but never counts
\* any twice: a session is not stopped for tokens nobody used.
TokensNeverOvercounted == session.tokens <= spent

\* A task that left pending or ready never returns there, so that it is picked
\* by no later scan, although whole rows are overwritten with old copies.
NeverRequeueable ==
    [][\A t \in Task : task[t].status \notin {"pending", "ready"} =>
                       task'[t].status \notin {"pending", "ready"}]_vars

\* Queueing a single task per completion (MAX_UNBLOCKED_TASKS_PER_TICK) strands
\* nothing: when all is quiet and nothing failed, no pending task is unblocked.
NoStrandedTask ==
    Quiet /\ throws = 0 /\ crashes = 0 /\ (Budget = 0 \/ spent < Budget)
        => \A t \in Task : task[t].status = "pending" =>
               ~ (dependencies[t] \subseteq {u \in Task : task[u].status = "completed"})

\* A save is about to turn a row that says completed back to running: a scan or a
\* call saves a task it queued after the job of that task did, or a call the session
\* it read after the workers finished it.
LateSave ==
    \/ \E t \in Task : /\ task[t].status = "completed"
                       /\ \/ \E w \in Worker : pc[w] = "unblockSave" /\ nxt[w] = t
                          \/ \E c \in Caller : cpc[c] = "saveTasks" /\ t \in started[c]
    \/ /\ session.status = "completed"
       /\ \E c \in Caller : cpc[c] = "saveSession"

\* These late saves are the only traps: a session in which no save of enqueueTask's
\* callers or of startCoworkSession undoes a completion, and which meets no failure,
\* ends completed, although jobs run while calls and scans still save their copies,
\* workers queue tasks twice and overwrite each other's session rows.
CompletesUnlessOvertaken ==
    [](~ LateSave /\ throws = 0 /\ crashes = 0) => <>[](session.status = "completed")

\* Every call returns and every job ends, so that the session comes to rest
\* after failures and crashes too.
Drains == <>[]Quiet

\* The rows, copies and workers above implement DagRun: every step of theirs is a
\* start, a completion, a failure or an announcement it allows, or changes nothing
\* that can be seen.
Dag == INSTANCE DagRun WITH deps <- dependencies, started <- queued,
                            status <- session.status
ImplementsDagRun == Dag!DagSpec

\* TC-1.10: "queues t2 after t1 completes" (orchestrator.test.ts).  Without
\* failures, a task whose dependencies all completed has been queued by the time
\* everything is quiet.
UnblockedIsQueued ==
    Quiet /\ throws = 0 /\ crashes = 0
        => \A t \in Task : dependencies[t] \subseteq completed => t \in queued

\* TC-1.12: "Context includes dependency outputs" (orchestrator.test.ts).  A task
\* runs without the output of a dependency only if a stale copy has meanwhile
\* overwritten that dependency's completed row: between SaveTask and
\* setSharedMemory, when Redis has no output yet, the row supplies it.
OutputsAreMissedOnlyIfOverwritten ==
    [][\A w \in Worker : pc[w] = "context" /\ pc'[w] = "run" =>
           \A d \in dependencies[Mine(w)] \ ctx'[w] : task[d].status # "completed"]_vars

-----------------------------------------------------------------------------
(* The inductive invariant behind the safety properties: what the rows say   *)
(* did happen, and every copy says something that was true when it was read. *)

RowsTellTheTruth ==
    \A t \in Task : /\ task[t].status = "ready" => dependencies[t] = {}
                    /\ task[t].status = "completed" => t \in completed
                    /\ task[t].status = "failed" => t \in failed

CopiesToSave ==
    \A w \in Worker :
        /\ pc[w] = "markRunning" => ent[w].status = "running"
        /\ pc[w] = "saveTask" => ent[w].status = "completed"
        /\ pc[w] = "unblockSave" => nxtEnt[w].status = "running"
        /\ pc[w] \in {"overBudget", "unblockOverBudget"} => isTokenBudgetExceeded(ses[w])

PickedAreUnblocked ==
    /\ \A c \in Caller : \A t \in todo[c] : dependencies[t] = {}
    /\ \A w \in Worker : pc[w] = "unblockEnqueue" => dependencies[nxt[w]] \subseteq completed

JobsAreQueued ==
    /\ \A j \in Job : jobs[j] > 0 => j.task \in queued
    /\ \A w \in Worker : pc[w] # "idle" => Mine(w) \in queued

SessionCopiesJustified ==
    /\ Justified(session)
    /\ \A w \in Worker : Justified(ses[w])
    /\ \A c \in Caller : Justified(cses[c])

IInv ==
    /\ TypeOK
    /\ DependenciesFirst
    /\ RowsTellTheTruth
    /\ CopiesToSave
    /\ PickedAreUnblocked
    /\ JobsAreQueued
    /\ SessionCopiesJustified
-----------------------------------------------------------------------------
(* Why nothing is stranded and no output is missed.                          *)

Undisturbed == throws = 0 /\ crashes = 0 /\ (Budget = 0 \/ spent < Budget)

\* Somebody will scan, or is about to queue a job whose worker will.
ScanAhead ==
    \/ \E j \in Job : jobs[j] > 0
    \/ \E w \in Worker : pc[w] \in {"loadSession", "loadTask", "markRunning", "context", "run",
                                    "saveTask", "saveSession", "share", "unblock",
                                    "unblockScan", "unblockEnqueue"}

\* What one scan leaves behind is left to the scan of the task it queued.
ScansToCome ==
    Undisturbed => /\ \A w \in Worker : pc[w] # "catch"
                   /\ unblockedPending # {} => ScanAhead

\* No copy erases the output of a row without changing its status.
OutputsKept ==
    /\ \A t \in Task : task[t].status = "completed" => task[t].output
    /\ \A w \in Worker : pc[w] = "saveTask" => ent[w].output
=============================================================================
