---------------------------- MODULE CoworkProofs ----------------------------
(***************************************************************************)
(* What holds of Cowork.tla for every plan, every number of workers and    *)
(* calls, every budget and any number of failures and crashes.             *)
(***************************************************************************)
EXTENDS Cowork, TLAPS

-----------------------------------------------------------------------------
(* Type correctness                                                         *)

LEMMA TypeInit == Init => TypeOK
BY CoworkAssumption
   DEF Init, TypeOK, CoworkTask, CoworkSession, CoworkTaskStatus, CoworkSessionStatus,
       buildTaskEntityFromDagNode, NoSession, NoEntity, NoTask, NoJob

LEMMA CallerType ==
    ASSUME TypeOK, NEW c \in Caller, CallerStep(c) \/ CallThrows(c)
    PROVE  TypeOK'
<1> USE DEF TypeOK, stores, locals, calls, faults, history, CallerGoes, enqueueTask, Job,
            CoworkTask, CoworkSession, CoworkTaskStatus, CoworkSessionStatus
<1>1. CASE CallLoad(c)        BY <1>1 DEF CallLoad
<1>2. CASE CallScan(c)        BY <1>2 DEF CallScan
<1>3. CASE CallEnqueue(c)
  <2>1. PICK t \in Task : /\ CallerGoes(c, "enqueue", IF todo[c] = {t} THEN "saveTasks"
                                                     ELSE "enqueue")
                         /\ enqueueTask(t)
                         /\ todo' = [todo EXCEPT ![c] = @ \ {t}]
                         /\ started' = [started EXCEPT ![c] = @ \cup {t}]
    BY <1>3 DEF CallEnqueue
  <2>2. jobs' \in [Job -> Nat]
    <3>1. [task |-> t, stalls |-> 0] \in Job
      OBVIOUS
    <3>2. jobs' = [jobs EXCEPT ![[task |-> t, stalls |-> 0]] = @ + 1]
      BY <2>1
    <3> HIDE DEF Job
    <3> QED BY <3>1, <3>2
  <2>3. /\ cpc' \in [Caller -> {"load", "scan", "enqueue", "saveTasks", "saveSession", "done"}]
        /\ todo' \in [Caller -> SUBSET Task]
        /\ started' \in [Caller -> SUBSET Task]
        /\ queued' \subseteq Task
    BY <2>1
  <2> QED BY <1>3, <2>2, <2>3 DEF CallEnqueue
<1>4. CASE CallSaveTasks(c)   BY <1>4 DEF CallSaveTasks
<1>5. CASE CallSaveSession(c)
  <2>1. session' \in CoworkSession
    <3>1. cses[c] \in CoworkSession
      OBVIOUS
    <3>2. session' = [cses[c] EXCEPT !.status = "running"]
      BY <1>5 DEF CallSaveSession
    <3> QED BY <3>1, <3>2
  <2> QED BY <1>5, <2>1 DEF CallSaveSession
<1>6. CASE CallThrows(c)      BY <1>6 DEF CallThrows
<1> QED BY <1>1, <1>2, <1>3, <1>4, <1>5, <1>6 DEF CallerStep

LEMMA ReleaseType ==
    ASSUME TypeOK, NEW w \in Worker, Release(w)
    PROVE  /\ pc' = [pc EXCEPT ![w] = "idle"]
           /\ job' \in [Worker -> Job \cup {NoJob}]
           /\ ses' \in [Worker -> CoworkSession]
           /\ ent' \in [Worker -> CoworkTask]
           /\ nxt' \in [Worker -> Task \cup {NoTask}]
           /\ nxtEnt' \in [Worker -> CoworkTask]
           /\ ctx' \in [Worker -> SUBSET Nat]
           /\ \A v \in Worker \ {w} : pc'[v] = pc[v] /\ job'[v] = job[v] /\ nxt'[v] = nxt[v]
<1>1. /\ NoSession \in CoworkSession
      /\ NoEntity \in CoworkTask
  BY DEF NoSession, NoEntity, CoworkSession, CoworkTask, CoworkSessionStatus, CoworkTaskStatus
<1> QED BY <1>1 DEF TypeOK, Release

LEMMA ExecuteType ==
    ASSUME TypeOK, NEW w \in Worker, executeCoworkTask(w)
    PROVE  TypeOK'
<1> USE DEF TypeOK, stores, locals, calls, faults, history, Goes, Mine
<1>0. pc[w] # "idle" => Mine(w) \in Task
  BY DEF Job
<1>1. CASE LoadSession(w)     BY <1>1 DEF LoadSession
<1>2. CASE LoadTask(w)
  <2>1. [task[Mine(w)] EXCEPT !.status = IF isTokenBudgetExceeded(ses[w]) THEN @ ELSE "running"]
            \in CoworkTask
    BY <1>0, <1>2 DEF LoadTask, CoworkTask, CoworkTaskStatus
  <2> QED BY <1>2, <2>1 DEF LoadTask
<1>3. CASE StopOverBudget(w)
  <2>1. session' \in CoworkSession
    BY <1>3 DEF StopOverBudget, handleBudgetExceeded, CoworkSession, CoworkSessionStatus
  <2> QED BY <1>3, <2>1, ReleaseType DEF StopOverBudget
<1>4. CASE MarkRunning(w)     BY <1>0, <1>4 DEF MarkRunning
<1>5. CASE BuildContext(w)
  <2>1. inputContext(Mine(w)) \subseteq Nat
    BY <1>0, <1>5 DEF BuildContext, inputContext
  <2> QED BY <1>5, <2>1 DEF BuildContext
<1>6. CASE RunTask(w)
  <2>1. [status |-> "completed", output |-> TRUE] \in CoworkTask
    BY DEF CoworkTask, CoworkTaskStatus
  <2>2. PICK cost \in TokenCost : /\ ses' = [ses EXCEPT ![w].tokens = @ + cost]
                                 /\ spent' = spent + cost
    BY <1>6 DEF RunTask
  <2>3. ses' \in [Worker -> CoworkSession] /\ spent' \in Nat
    <3>1. [ses[w] EXCEPT !.tokens = @ + cost] \in CoworkSession
      BY CoworkAssumption DEF CoworkSession
    <3> QED BY <2>2, <3>1, CoworkAssumption
  <2> QED BY <1>6, <2>1, <2>3 DEF RunTask
<1>7. CASE SaveTask(w)        BY <1>0, <1>7 DEF SaveTask
<1>8. CASE SaveSession(w)     BY <1>8 DEF SaveSession
<1>9. CASE setSharedMemory(w) BY <1>0, <1>9 DEF setSharedMemory
<1>10. CASE RecordFailure(w)
  <2>1. [ent[w] EXCEPT !.status = "failed"] \in CoworkTask
    <3>1. ent[w] \in CoworkTask
      OBVIOUS
    <3> HIDE DEF TypeOK
    <3> QED BY <3>1 DEF CoworkTask, CoworkTaskStatus
  <2>2. ent' \in [Worker -> CoworkTask] /\ ent'[w] \in CoworkTask
    BY <1>10, <2>1 DEF RecordFailure
  <2> QED BY <1>0, <1>10, <2>2 DEF RecordFailure
<1> HIDE DEF TypeOK, Mine
<1> QED BY <1>1, <1>2, <1>3, <1>4, <1>5, <1>6, <1>7, <1>8, <1>9, <1>10 DEF executeCoworkTask

LEMMA UnblockType ==
    ASSUME TypeOK, NEW w \in Worker, queueUnblocked(w)
    PROVE  TypeOK'
<1> USE DEF TypeOK, stores, locals, calls, faults, history, Goes
<1>1. CASE UnblockLoad(w)     BY <1>1 DEF UnblockLoad
<1>2. CASE UnblockOverBudget(w)
  <2>1. session' \in CoworkSession
    BY <1>2 DEF UnblockOverBudget, handleBudgetExceeded, CoworkSession, CoworkSessionStatus
  <2> QED BY <1>2, <2>1 DEF UnblockOverBudget
<1>3. CASE UnblockNone(w)     BY <1>3 DEF UnblockNone
<1>4. CASE UnblockPick(w)
  <2>1. PICK t \in Task : /\ nxt' = [nxt EXCEPT ![w] = t]
                         /\ nxtEnt' = [nxtEnt EXCEPT ![w] = task[t]]
    BY <1>4 DEF UnblockPick
  <2> QED BY <1>4, <2>1 DEF UnblockPick
<1>5. CASE UnblockEnqueue(w)
  <2>1. nxt[w] \in Task
    BY <1>5 DEF UnblockEnqueue
  <2>2. jobs' \in [Job -> Nat] /\ queued' \subseteq Task
    <3>1. [task |-> nxt[w], stalls |-> 0] \in Job
      BY <2>1 DEF Job
    <3>2. /\ jobs' = [jobs EXCEPT ![[task |-> nxt[w], stalls |-> 0]] = @ + 1]
          /\ queued' = queued \cup {nxt[w]}
      BY <1>5 DEF UnblockEnqueue, enqueueTask
    <3> QED BY <2>1, <3>1, <3>2
  <2>3. nxtEnt' \in [Worker -> CoworkTask]
    <3>1. [nxtEnt[w] EXCEPT !.status = "running"] \in CoworkTask
      <4>1. nxtEnt[w] \in CoworkTask
        OBVIOUS
      <4> HIDE DEF TypeOK
      <4> QED BY <4>1 DEF CoworkTask, CoworkTaskStatus
    <3> QED BY <1>5, <3>1 DEF UnblockEnqueue
  <2> QED BY <1>5, <2>2, <2>3 DEF UnblockEnqueue
<1>6. CASE UnblockSave(w)     BY <1>6 DEF UnblockSave
<1> HIDE DEF TypeOK
<1> QED BY <1>1, <1>2, <1>3, <1>4, <1>5, <1>6 DEF queueUnblocked

LEMMA CheckType ==
    ASSUME TypeOK, NEW w \in Worker, checkCompletion(w)
    PROVE  TypeOK'
<1> USE DEF TypeOK, stores, locals, calls, faults, history, Goes
<1>1. CASE CheckLoad(w)       BY <1>1 DEF CheckLoad
<1>2. CASE CheckVerdict(w)
  <2>1. [ses[w] EXCEPT !.status = IF allCompleted THEN "completed" ELSE "partial"]
            \in CoworkSession
    BY DEF CoworkSession, CoworkSessionStatus
  <2> QED BY <1>2, <2>1 DEF CheckVerdict
<1>3. CASE CheckNothing(w)    BY <1>3, ReleaseType DEF CheckNothing
<1>4. CASE SaveVerdict(w)     BY <1>4, ReleaseType DEF SaveVerdict
<1> HIDE DEF TypeOK
<1> QED BY <1>1, <1>2, <1>3, <1>4 DEF checkCompletion

LEMMA JobType ==
    ASSUME TypeOK, NEW w \in Worker,
           (\E j \in Job : TakeJob(w, j)) \/ Throws(w) \/ Crash(w)
    PROVE  TypeOK'
<1> USE DEF TypeOK, stores, locals, calls, faults, history
<1>1. ASSUME NEW j \in Job, TakeJob(w, j) PROVE TypeOK'
  BY <1>1 DEF TakeJob, Goes
<1>2. CASE Throws(w)
  <2>1. /\ throws' \in Nat
        /\ UNCHANGED <<dependencies, session, task, memory, jobs, cpc, cses, todo, started,
                       crashes, queued, completed, failed, spent>>
    BY <1>2 DEF Throws
  <2>2. CASE InTry(w)
    <3>1. pc[w] # "idle" /\ pc' = [pc EXCEPT ![w] = "catch"] /\ UNCHANGED locals
      BY <1>2, <2>2 DEF Throws, InTry
    <3>2. job[w] \in Job
      BY <3>1
    <3> QED BY <2>1, <3>1, <3>2
  <2>3. CASE ~ InTry(w)
    <3>1. Release(w)
      BY <1>2, <2>3 DEF Throws
    <3> QED BY <2>1, <3>1, ReleaseType
  <2> QED BY <2>2, <2>3
<1>3. CASE Crash(w)
  <2>1. jobs' \in [Job -> Nat]
    <3>1. job[w] \in Job
      BY <1>3 DEF Crash
    <3>2. [job[w] EXCEPT !.stalls = 1] \in Job
      BY <3>1 DEF Job
    <3> QED BY <1>3, <3>2 DEF Crash
  <2>2. /\ crashes' \in Nat /\ Release(w)
        /\ UNCHANGED <<dependencies, session, task, memory, cpc, cses, todo, started,
                       throws, queued, completed, failed, spent>>
    BY <1>3 DEF Crash
  <2>3. /\ pc' = [pc EXCEPT ![w] = "idle"]
        /\ job' \in [Worker -> Job \cup {NoJob}]
        /\ ses' \in [Worker -> CoworkSession]
        /\ ent' \in [Worker -> CoworkTask]
        /\ nxt' \in [Worker -> Task \cup {NoTask}]
        /\ nxtEnt' \in [Worker -> CoworkTask]
        /\ ctx' \in [Worker -> SUBSET Nat]
        /\ \A v \in Worker \ {w} : pc'[v] = pc[v] /\ job'[v] = job[v] /\ nxt'[v] = nxt[v]
    BY <2>2, ReleaseType
  <2> QED BY <2>1, <2>2, <2>3
<1> HIDE DEF TypeOK
<1> QED BY <1>1, <1>2, <1>3

LEMMA TypeStutter == TypeOK /\ UNCHANGED vars => TypeOK'
BY DEF TypeOK, vars, stores, locals, calls, faults, history

LEMMA TypeNext == TypeOK /\ [Next]_vars => TypeOK'
BY CallerType, ExecuteType, UnblockType, CheckType, JobType, TypeStutter
   DEF Next, WorkerStep, Done

\* Every row, copy and counter keeps its type, and a job in progress has a task.
THEOREM TypeCorrect == Spec => []TypeOK
BY TypeInit, TypeNext, PTL DEF Spec

-----------------------------------------------------------------------------
(* The inductive invariant                                                  *)

LEMMA InvInit == Init => IInv
<1> SUFFICES ASSUME Init PROVE IInv
  OBVIOUS
<1>1. TypeOK
  BY TypeInit
<1>2. DependenciesFirst /\ RowsTellTheTruth
  BY DEF Init, DependenciesFirst, RowsTellTheTruth, buildTaskEntityFromDagNode
<1>3. CopiesToSave /\ PickedAreUnblocked /\ JobsAreQueued
  BY DEF Init, CopiesToSave, PickedAreUnblocked, JobsAreQueued
<1>4. SessionCopiesJustified
  BY DEF Init, SessionCopiesJustified, Justified, NoSession
<1> QED BY <1>1, <1>2, <1>3, <1>4 DEF IInv

\* Nothing that happened can unhappen, so a justified copy stays justified.
LEMMA JustifiedKept ==
    ASSUME TypeOK, TypeOK', completed \subseteq completed', failed \subseteq failed',
           spent <= spent'
    PROVE  \A s \in CoworkSession : Justified(s) => Justified(s)'
<1>1. spent \in Nat /\ spent' \in Nat /\ Budget \in Nat
  BY CoworkAssumption DEF TypeOK
<1>2. SUFFICES ASSUME NEW s \in CoworkSession, Justified(s) PROVE Justified(s)'
  OBVIOUS
<1>3. s.tokens \in Nat
  BY DEF CoworkSession
<1>4. s.tokens <= spent'
  BY <1>1, <1>2, <1>3 DEF Justified
<1>5. s.status = "completed" => Task \subseteq completed'
  BY <1>2 DEF Justified
<1>6. s.status = "partial" => failed' # {} \/ (Budget > 0 /\ spent' >= Budget)
  BY <1>1, <1>2 DEF Justified
<1> QED BY <1>4, <1>5, <1>6 DEF Justified

LEMMA CallerInv ==
    ASSUME IInv, TypeOK', NEW c \in Caller, CallerStep(c) \/ CallThrows(c)
    PROVE  IInv'
<1> USE DEF stores, locals, calls, faults, history, CallerGoes
<1>0. TypeOK /\ DependenciesFirst /\ RowsTellTheTruth /\ CopiesToSave
      /\ PickedAreUnblocked /\ JobsAreQueued /\ SessionCopiesJustified
  BY DEF IInv
<1>1. CASE CallLoad(c)
  <2>1. SessionCopiesJustified'
    BY <1>0, <1>1 DEF CallLoad, SessionCopiesJustified, Justified, TypeOK
  <2>2. DependenciesFirst' /\ RowsTellTheTruth' /\ CopiesToSave' /\ PickedAreUnblocked' /\ JobsAreQueued'
    BY <1>0, <1>1 DEF CallLoad, DependenciesFirst, RowsTellTheTruth, CopiesToSave,
                      PickedAreUnblocked, JobsAreQueued, isTokenBudgetExceeded, Mine
  <2> QED BY <2>1, <2>2 DEF IInv
<1>2. CASE CallScan(c)
  <2>1. PickedAreUnblocked'
    BY <1>0, <1>2 DEF CallScan, PickedAreUnblocked, RowsTellTheTruth, TypeOK
  <2>2. DependenciesFirst' /\ RowsTellTheTruth' /\ CopiesToSave' /\ JobsAreQueued' /\ SessionCopiesJustified'
    BY <1>0, <1>2 DEF CallScan, DependenciesFirst, RowsTellTheTruth, CopiesToSave,
                      JobsAreQueued, SessionCopiesJustified, Justified, isTokenBudgetExceeded, Mine
  <2> QED BY <2>1, <2>2 DEF IInv
<1>3. CASE CallEnqueue(c)
  <2>1. PICK t \in Task : /\ t \in todo[c]
                         /\ enqueueTask(t)
                         /\ todo' = [todo EXCEPT ![c] = @ \ {t}]
    BY <1>3 DEF CallEnqueue, IsFirst
  <2>2. dependencies[t] = {}
    BY <1>0, <2>1 DEF PickedAreUnblocked
  <2>3. DependenciesFirst'
    BY <1>0, <1>3, <2>1, <2>2 DEF CallEnqueue, DependenciesFirst, enqueueTask
  <2>4. JobsAreQueued'
    <3>1. ASSUME NEW j \in Job, jobs'[j] > 0 PROVE j.task \in queued'
      BY <1>0, <2>1, <3>1 DEF JobsAreQueued, enqueueTask, Job, TypeOK
    <3> QED BY <1>0, <1>3, <2>1, <3>1 DEF CallEnqueue, JobsAreQueued, enqueueTask, Mine
  <2>5. PickedAreUnblocked'
    BY <1>0, <1>3, <2>1 DEF CallEnqueue, PickedAreUnblocked, TypeOK
  <2>6. RowsTellTheTruth' /\ CopiesToSave' /\ SessionCopiesJustified'
    BY <1>0, <1>3 DEF CallEnqueue, RowsTellTheTruth, CopiesToSave, SessionCopiesJustified,
                      Justified, isTokenBudgetExceeded
  <2> QED BY <2>3, <2>4, <2>5, <2>6 DEF IInv
<1>4. CASE CallSaveTasks(c)
  <2>1. RowsTellTheTruth'
    BY <1>0, <1>4 DEF CallSaveTasks, RowsTellTheTruth
  <2>2. DependenciesFirst' /\ CopiesToSave' /\ PickedAreUnblocked' /\ JobsAreQueued' /\ SessionCopiesJustified'
    BY <1>0, <1>4 DEF CallSaveTasks, DependenciesFirst, CopiesToSave, PickedAreUnblocked,
                      JobsAreQueued, SessionCopiesJustified, Justified, isTokenBudgetExceeded, Mine
  <2> QED BY <2>1, <2>2 DEF IInv
<1>5. CASE CallSaveSession(c)
  <2>1. SessionCopiesJustified'
    BY <1>0, <1>5 DEF CallSaveSession, SessionCopiesJustified, Justified, TypeOK, CoworkSession
  <2>2. DependenciesFirst' /\ RowsTellTheTruth' /\ CopiesToSave' /\ PickedAreUnblocked' /\ JobsAreQueued'
    BY <1>0, <1>5 DEF CallSaveSession, DependenciesFirst, RowsTellTheTruth, CopiesToSave,
                      PickedAreUnblocked, JobsAreQueued, isTokenBudgetExceeded, Mine
  <2> QED BY <2>1, <2>2 DEF IInv
<1>6. CASE CallThrows(c)
  BY <1>0, <1>6 DEF CallThrows, IInv, DependenciesFirst, RowsTellTheTruth, CopiesToSave,
                    PickedAreUnblocked, JobsAreQueued, SessionCopiesJustified, Justified,
                    isTokenBudgetExceeded, Mine
<1> QED BY <1>1, <1>2, <1>3, <1>4, <1>5, <1>6 DEF CallerStep

\* A worker that lets go of its job has no copy left that could do harm.
LEMMA ReleaseInv ==
    ASSUME IInv, TypeOK', NEW w \in Worker, Release(w),
           UNCHANGED <<dependencies, calls, queued, completed, failed, spent>>
    PROVE  /\ DependenciesFirst'
           /\ CopiesToSave'
           /\ PickedAreUnblocked'
           /\ \A v \in Worker : pc'[v] # "idle" => Mine(v)' \in queued'
           /\ \A v \in Worker : Justified(ses[v])'
           /\ \A c \in Caller : Justified(cses[c])'
<1> USE DEF IInv, TypeOK, Release, calls
<1>1. DependenciesFirst'
  BY DEF DependenciesFirst
<1>2. CopiesToSave' /\ PickedAreUnblocked'
  BY DEF CopiesToSave, PickedAreUnblocked, isTokenBudgetExceeded
<1>3. \A v \in Worker : pc'[v] # "idle" => Mine(v)' \in queued'
  BY DEF JobsAreQueued, Mine
<1>4. \A v \in Worker : Justified(ses[v])'
  BY DEF SessionCopiesJustified, Justified, NoSession
<1>5. \A c \in Caller : Justified(cses[c])'
  BY DEF SessionCopiesJustified, Justified
<1> QED BY <1>1, <1>2, <1>3, <1>4, <1>5

LEMMA ExecuteInv ==
    ASSUME IInv, TypeOK', NEW w \in Worker, executeCoworkTask(w)
    PROVE  IInv'
<1> USE DEF stores, locals, calls, faults, history, Goes
<1>0. TypeOK /\ DependenciesFirst /\ RowsTellTheTruth /\ CopiesToSave
      /\ PickedAreUnblocked /\ JobsAreQueued /\ SessionCopiesJustified
  BY DEF IInv
<1>1. CASE LoadSession(w)
  <2>1. SessionCopiesJustified' /\ CopiesToSave'
    BY <1>0, <1>1 DEF LoadSession, SessionCopiesJustified, Justified, CopiesToSave,
                      isTokenBudgetExceeded, TypeOK
  <2>2. DependenciesFirst' /\ RowsTellTheTruth' /\ PickedAreUnblocked' /\ JobsAreQueued'
    BY <1>0, <1>1 DEF LoadSession, DependenciesFirst, RowsTellTheTruth, PickedAreUnblocked,
                      JobsAreQueued, Mine, TypeOK
  <2> QED BY <2>1, <2>2 DEF IInv
<1>2. CASE LoadTask(w)
  <2>1. CopiesToSave'
    BY <1>0, <1>2 DEF LoadTask, CopiesToSave, isTokenBudgetExceeded, TypeOK, CoworkTask
  <2>2. DependenciesFirst' /\ RowsTellTheTruth' /\ PickedAreUnblocked' /\ JobsAreQueued'
        /\ SessionCopiesJustified'
    BY <1>0, <1>2 DEF LoadTask, DependenciesFirst, RowsTellTheTruth, PickedAreUnblocked,
                      JobsAreQueued, Mine, TypeOK, SessionCopiesJustified, Justified
  <2> QED BY <2>1, <2>2 DEF IInv
<1>3. CASE StopOverBudget(w)
  <2>1. Justified(session)'
    BY <1>0, <1>3, CoworkAssumption
       DEF StopOverBudget, handleBudgetExceeded, SessionCopiesJustified, Justified,
           CopiesToSave, isTokenBudgetExceeded, TypeOK, CoworkSession
  <2>2. RowsTellTheTruth'
    BY <1>0, <1>3 DEF StopOverBudget, RowsTellTheTruth
  <2>3. JobsAreQueued' /\ SessionCopiesJustified'
    BY <1>0, <1>3, <2>1, ReleaseInv DEF StopOverBudget, JobsAreQueued, SessionCopiesJustified
  <2> QED BY <1>3, <2>2, <2>3, ReleaseInv DEF IInv, StopOverBudget
<1>4. CASE MarkRunning(w)
  <2>1. RowsTellTheTruth'
    BY <1>0, <1>4 DEF MarkRunning, RowsTellTheTruth, CopiesToSave, TypeOK
  <2>2. DependenciesFirst' /\ CopiesToSave' /\ PickedAreUnblocked' /\ JobsAreQueued'
        /\ SessionCopiesJustified'
    BY <1>0, <1>4 DEF MarkRunning, DependenciesFirst, CopiesToSave, PickedAreUnblocked,
                      JobsAreQueued, Mine, TypeOK, SessionCopiesJustified, Justified,
                      isTokenBudgetExceeded
  <2> QED BY <2>1, <2>2 DEF IInv
<1>5. CASE BuildContext(w)
  BY <1>0, <1>5 DEF BuildContext, DependenciesFirst, RowsTellTheTruth, CopiesToSave,
                    PickedAreUnblocked, JobsAreQueued, Mine, TypeOK, SessionCopiesJustified,
                    Justified, isTokenBudgetExceeded, IInv
<1>6. CASE RunTask(w)
  <2>1. PICK cost \in TokenCost : /\ ses' = [ses EXCEPT ![w].tokens = @ + cost]
                                 /\ spent' = spent + cost
    BY <1>6 DEF RunTask
  <2>2. cost \in Nat /\ spent \in Nat /\ spent <= spent' /\ ses \in [Worker -> CoworkSession]
    BY <1>0, <2>1, CoworkAssumption DEF TypeOK
  <2>3. \A s \in CoworkSession : Justified(s) => Justified(s)'
    BY <1>0, <1>6, <2>2, JustifiedKept DEF RunTask
  <2>4. Justified(ses[w])'
    <3>1. ses[w] \in CoworkSession /\ Justified(ses[w])
      BY <1>0, <2>2 DEF SessionCopiesJustified
    <3>2. /\ ses'[w].status = ses[w].status
          /\ ses'[w].tokens = ses[w].tokens + cost
      BY <2>1, <2>2, <3>1 DEF CoworkSession
    <3>3. ses'[w].tokens <= spent'
      BY <2>1, <2>2, <3>1, <3>2 DEF Justified, CoworkSession
    <3> QED BY <1>6, <2>1, <2>2, <3>1, <3>2, <3>3, CoworkAssumption DEF RunTask, Justified
  <2>5. SessionCopiesJustified'
    <3>1. session' = session /\ session \in CoworkSession /\ cses' = cses
          /\ cses \in [Caller -> CoworkSession]
      BY <1>0, <1>6 DEF RunTask, TypeOK
    <3>2. Justified(session)' /\ \A c \in Caller : Justified(cses[c])'
      BY <1>0, <2>3, <3>1 DEF SessionCopiesJustified
    <3>3. \A v \in Worker : Justified(ses[v])'
      BY <1>0, <2>1, <2>2, <2>3, <2>4 DEF SessionCopiesJustified
    <3> QED BY <3>2, <3>3 DEF SessionCopiesJustified
  <2>6. CopiesToSave'
    BY <1>0, <1>6 DEF RunTask, CopiesToSave, isTokenBudgetExceeded, TypeOK
  <2>7. DependenciesFirst' /\ RowsTellTheTruth' /\ PickedAreUnblocked' /\ JobsAreQueued'
    BY <1>0, <1>6 DEF RunTask, DependenciesFirst, RowsTellTheTruth, PickedAreUnblocked,
                      JobsAreQueued, Mine, TypeOK
  <2> QED BY <2>5, <2>6, <2>7 DEF IInv
<1>7. CASE SaveTask(w)
  <2>1. RowsTellTheTruth'
    BY <1>0, <1>7 DEF SaveTask, RowsTellTheTruth, CopiesToSave, TypeOK
  <2>2. DependenciesFirst' /\ PickedAreUnblocked'
    BY <1>0, <1>7 DEF SaveTask, DependenciesFirst, PickedAreUnblocked, TypeOK
  <2>3. SessionCopiesJustified'
    BY <1>0, <1>7, JustifiedKept DEF SaveTask, SessionCopiesJustified, TypeOK
  <2>4. CopiesToSave' /\ JobsAreQueued'
    BY <1>0, <1>7 DEF SaveTask, CopiesToSave, JobsAreQueued, Mine, TypeOK, isTokenBudgetExceeded
  <2> QED BY <2>1, <2>2, <2>3, <2>4 DEF IInv
<1>8. CASE SaveSession(w)
  BY <1>0, <1>8 DEF SaveSession, DependenciesFirst, RowsTellTheTruth, CopiesToSave,
                    PickedAreUnblocked, JobsAreQueued, Mine, TypeOK, SessionCopiesJustified,
                    Justified, isTokenBudgetExceeded, IInv
<1>9. CASE setSharedMemory(w)
  BY <1>0, <1>9 DEF setSharedMemory, DependenciesFirst, RowsTellTheTruth, CopiesToSave,
                    PickedAreUnblocked, JobsAreQueued, Mine, TypeOK, SessionCopiesJustified,
                    Justified, isTokenBudgetExceeded, IInv
<1>10. CASE RecordFailure(w)
  <2>1. RowsTellTheTruth'
    BY <1>0, <1>10 DEF RecordFailure, RowsTellTheTruth, TypeOK, CoworkTask
  <2>2. SessionCopiesJustified'
    BY <1>0, <1>10, JustifiedKept DEF RecordFailure, SessionCopiesJustified, TypeOK
  <2>3. DependenciesFirst' /\ CopiesToSave' /\ PickedAreUnblocked' /\ JobsAreQueued'
    BY <1>0, <1>10 DEF RecordFailure, DependenciesFirst, CopiesToSave, PickedAreUnblocked,
                       JobsAreQueued, Mine, TypeOK, isTokenBudgetExceeded
  <2> QED BY <2>1, <2>2, <2>3 DEF IInv
<1> QED BY <1>1, <1>2, <1>3, <1>4, <1>5, <1>6, <1>7, <1>8, <1>9, <1>10 DEF executeCoworkTask

LEMMA UnblockInv ==
    ASSUME IInv, TypeOK', NEW w \in Worker, queueUnblocked(w)
    PROVE  IInv'
<1> USE DEF stores, locals, calls, faults, history, Goes
<1>0. TypeOK /\ DependenciesFirst /\ RowsTellTheTruth /\ CopiesToSave
      /\ PickedAreUnblocked /\ JobsAreQueued /\ SessionCopiesJustified
  BY DEF IInv
<1>1. CASE UnblockLoad(w)
  <2>1. SessionCopiesJustified' /\ CopiesToSave'
    BY <1>0, <1>1 DEF UnblockLoad, SessionCopiesJustified, Justified, CopiesToSave,
                      isTokenBudgetExceeded, TypeOK
  <2>2. DependenciesFirst' /\ RowsTellTheTruth' /\ PickedAreUnblocked' /\ JobsAreQueued'
    BY <1>0, <1>1 DEF UnblockLoad, DependenciesFirst, RowsTellTheTruth, PickedAreUnblocked,
                      JobsAreQueued, Mine, TypeOK
  <2> QED BY <2>1, <2>2 DEF IInv
<1>2. CASE UnblockOverBudget(w)
  <2>1. SessionCopiesJustified'
    BY <1>0, <1>2, CoworkAssumption
       DEF UnblockOverBudget, handleBudgetExceeded, SessionCopiesJustified, Justified,
           CopiesToSave, isTokenBudgetExceeded, TypeOK, CoworkSession
  <2>2. DependenciesFirst' /\ RowsTellTheTruth' /\ CopiesToSave' /\ PickedAreUnblocked'
        /\ JobsAreQueued'
    BY <1>0, <1>2 DEF UnblockOverBudget, DependenciesFirst, RowsTellTheTruth, CopiesToSave,
                      PickedAreUnblocked, JobsAreQueued, Mine, TypeOK, isTokenBudgetExceeded
  <2> QED BY <2>1, <2>2 DEF IInv
<1>3. CASE UnblockNone(w)
  BY <1>0, <1>3 DEF UnblockNone, DependenciesFirst, RowsTellTheTruth, CopiesToSave,
                    PickedAreUnblocked, JobsAreQueued, Mine, TypeOK, SessionCopiesJustified,
                    Justified, isTokenBudgetExceeded, IInv
<1>4. CASE UnblockPick(w)
  <2>1. PICK t \in Task : t \in unblockedPending /\ nxt' = [nxt EXCEPT ![w] = t]
    BY <1>4 DEF UnblockPick, IsFirst
  <2>2. dependencies[t] \subseteq completed
    BY <1>0, <2>1 DEF unblockedPending, RowsTellTheTruth
  <2>3. PickedAreUnblocked'
    BY <1>0, <1>4, <2>1, <2>2 DEF UnblockPick, PickedAreUnblocked, TypeOK
  <2>4. DependenciesFirst' /\ RowsTellTheTruth' /\ CopiesToSave' /\ JobsAreQueued'
        /\ SessionCopiesJustified'
    BY <1>0, <1>4 DEF UnblockPick, DependenciesFirst, RowsTellTheTruth, CopiesToSave,
                      JobsAreQueued, Mine, TypeOK, SessionCopiesJustified, Justified,
                      isTokenBudgetExceeded
  <2> QED BY <2>3, <2>4 DEF IInv
<1>5. CASE UnblockEnqueue(w)
  <2>1. dependencies[nxt[w]] \subseteq completed /\ nxt[w] \in Task
    BY <1>0, <1>5 DEF UnblockEnqueue, PickedAreUnblocked, TypeOK
  <2>2. DependenciesFirst'
    BY <1>0, <1>5, <2>1 DEF UnblockEnqueue, DependenciesFirst, enqueueTask
  <2>3. JobsAreQueued'
    <3>1. ASSUME NEW j \in Job, jobs'[j] > 0 PROVE j.task \in queued'
      BY <1>0, <1>5, <2>1, <3>1 DEF UnblockEnqueue, JobsAreQueued, enqueueTask, Job, TypeOK
    <3> QED BY <1>0, <1>5, <3>1 DEF UnblockEnqueue, JobsAreQueued, enqueueTask, Mine, TypeOK
  <2>4. CopiesToSave' /\ PickedAreUnblocked'
    BY <1>0, <1>5 DEF UnblockEnqueue, CopiesToSave, PickedAreUnblocked, TypeOK, CoworkTask,
                      isTokenBudgetExceeded
  <2>5. RowsTellTheTruth' /\ SessionCopiesJustified'
    BY <1>0, <1>5 DEF UnblockEnqueue, RowsTellTheTruth, SessionCopiesJustified, Justified
  <2> QED BY <2>2, <2>3, <2>4, <2>5 DEF IInv
<1>6. CASE UnblockSave(w)
  <2>1. RowsTellTheTruth'
    BY <1>0, <1>6 DEF UnblockSave, RowsTellTheTruth, CopiesToSave, TypeOK
  <2>2. DependenciesFirst' /\ CopiesToSave' /\ PickedAreUnblocked' /\ JobsAreQueued'
        /\ SessionCopiesJustified'
    BY <1>0, <1>6 DEF UnblockSave, DependenciesFirst, CopiesToSave, PickedAreUnblocked,
                      JobsAreQueued, Mine, TypeOK, SessionCopiesJustified, Justified,
                      isTokenBudgetExceeded
  <2> QED BY <2>1, <2>2 DEF IInv
<1> QED BY <1>1, <1>2, <1>3, <1>4, <1>5, <1>6 DEF queueUnblocked

LEMMA CheckInv ==
    ASSUME IInv, TypeOK', NEW w \in Worker, checkCompletion(w)
    PROVE  IInv'
<1> USE DEF stores, locals, calls, faults, history, Goes
<1>0. TypeOK /\ DependenciesFirst /\ RowsTellTheTruth /\ CopiesToSave
      /\ PickedAreUnblocked /\ JobsAreQueued /\ SessionCopiesJustified
  BY DEF IInv
<1>1. CASE CheckLoad(w)
  BY <1>0, <1>1 DEF CheckLoad, DependenciesFirst, RowsTellTheTruth, CopiesToSave,
                    PickedAreUnblocked, JobsAreQueued, Mine, TypeOK, SessionCopiesJustified,
                    Justified, isTokenBudgetExceeded, IInv
<1>2. CASE CheckVerdict(w)
  <2>1. Justified(ses[w])'
    BY <1>0, <1>2 DEF CheckVerdict, SessionCopiesJustified, Justified, allCompleted,
                      hasFailures, RowsTellTheTruth, TypeOK, CoworkSession
  <2>2. SessionCopiesJustified'
    BY <1>0, <1>2, <2>1 DEF CheckVerdict, SessionCopiesJustified, Justified, TypeOK
  <2>3. DependenciesFirst' /\ RowsTellTheTruth' /\ CopiesToSave' /\ PickedAreUnblocked'
        /\ JobsAreQueued'
    BY <1>0, <1>2 DEF CheckVerdict, DependenciesFirst, RowsTellTheTruth, CopiesToSave,
                      PickedAreUnblocked, JobsAreQueued, Mine, TypeOK, isTokenBudgetExceeded
  <2> QED BY <2>2, <2>3 DEF IInv
<1>3. CASE CheckNothing(w)
  <2>1. RowsTellTheTruth' /\ JobsAreQueued' /\ SessionCopiesJustified'
    BY <1>0, <1>3, ReleaseInv DEF CheckNothing, RowsTellTheTruth, JobsAreQueued,
                                  SessionCopiesJustified, Justified
  <2> QED BY <1>3, <2>1, ReleaseInv DEF CheckNothing, IInv
<1>4. CASE SaveVerdict(w)
  <2>1. Justified(session)'
    BY <1>0, <1>4 DEF SaveVerdict, SessionCopiesJustified, Justified
  <2>2. RowsTellTheTruth' /\ JobsAreQueued' /\ SessionCopiesJustified'
    BY <1>0, <1>4, <2>1, ReleaseInv DEF SaveVerdict, RowsTellTheTruth, JobsAreQueued,
                                        SessionCopiesJustified
  <2> QED BY <1>4, <2>2, ReleaseInv DEF SaveVerdict, IInv
<1> QED BY <1>1, <1>2, <1>3, <1>4 DEF checkCompletion

LEMMA JobInv ==
    ASSUME IInv, TypeOK', NEW w \in Worker,
           (\E j \in Job : TakeJob(w, j)) \/ Throws(w) \/ Crash(w)
    PROVE  IInv'
<1> USE DEF stores, locals, calls, faults, history
<1>0. TypeOK /\ DependenciesFirst /\ RowsTellTheTruth /\ CopiesToSave
      /\ PickedAreUnblocked /\ JobsAreQueued /\ SessionCopiesJustified
  BY DEF IInv
<1>1. ASSUME NEW j \in Job, TakeJob(w, j) PROVE IInv'
  <2>1. JobsAreQueued'
    <3>1. j.task \in queued
      BY <1>0, <1>1 DEF TakeJob, JobsAreQueued
    <3>2. ASSUME NEW i \in Job, jobs'[i] > 0 PROVE i.task \in queued'
      BY <1>0, <1>1, <3>1, <3>2 DEF TakeJob, JobsAreQueued, TypeOK
    <3>3. ASSUME NEW v \in Worker, pc'[v] # "idle" PROVE Mine(v)' \in queued'
      BY <1>0, <1>1, <3>1, <3>3 DEF TakeJob, Goes, JobsAreQueued, TypeOK, Mine
    <3> QED BY <3>2, <3>3 DEF JobsAreQueued
  <2>2. DependenciesFirst' /\ RowsTellTheTruth' /\ CopiesToSave' /\ PickedAreUnblocked'
        /\ SessionCopiesJustified'
    BY <1>0, <1>1 DEF TakeJob, Goes, DependenciesFirst, RowsTellTheTruth, CopiesToSave,
                      PickedAreUnblocked, TypeOK, SessionCopiesJustified, Justified,
                      isTokenBudgetExceeded
  <2> QED BY <2>1, <2>2 DEF IInv
<1>2. CASE Throws(w)
  <2>1. RowsTellTheTruth' /\ Justified(session)'
    BY <1>0, <1>2 DEF Throws, RowsTellTheTruth, SessionCopiesJustified, Justified
  <2>2. CASE InTry(w)
    <3>1. /\ pc[w] # "idle" /\ \A v \in Worker : pc'[v] = IF v = w THEN "catch" ELSE pc[v]
          /\ UNCHANGED <<dependencies, session, jobs, job, ses, ent, nxt, nxtEnt, cses, todo,
                         queued, completed, failed, spent>>
      BY <1>0, <1>2, <2>2 DEF Throws, InTry, TypeOK
    <3>2. DependenciesFirst' /\ PickedAreUnblocked' /\ CopiesToSave'
      BY <1>0, <3>1 DEF DependenciesFirst, PickedAreUnblocked, CopiesToSave,
                        isTokenBudgetExceeded
    <3>3. JobsAreQueued' /\ SessionCopiesJustified'
      BY <1>0, <3>1 DEF JobsAreQueued, Mine, SessionCopiesJustified, Justified
    <3> QED BY <2>1, <3>2, <3>3 DEF IInv
  <2>3. CASE ~ InTry(w)
    <3>1. JobsAreQueued' /\ SessionCopiesJustified'
      BY <1>0, <1>2, <2>1, <2>3, ReleaseInv DEF Throws, JobsAreQueued, SessionCopiesJustified
    <3> QED BY <1>2, <2>1, <2>3, <3>1, ReleaseInv DEF Throws, IInv
  <2> QED BY <2>2, <2>3
<1>3. CASE Crash(w)
  <2>1. RowsTellTheTruth' /\ Justified(session)'
    BY <1>0, <1>3 DEF Crash, RowsTellTheTruth, SessionCopiesJustified, Justified
  <2>2. ASSUME NEW j \in Job, jobs'[j] > 0 PROVE j.task \in queued'
    <3>1. job[w] \in Job /\ job[w].task \in queued
      BY <1>0, <1>3 DEF Crash, TypeOK, JobsAreQueued, Mine
    <3>2. [job[w] EXCEPT !.stalls = 1] \in Job /\ [job[w] EXCEPT !.stalls = 1].task = job[w].task
      BY <3>1 DEF Job
    <3>3. jobs \in [Job -> Nat]
      BY <1>0 DEF TypeOK
    <3>4. CASE j = [job[w] EXCEPT !.stalls = 1]
      BY <1>3, <3>1, <3>2, <3>4 DEF Crash
    <3>5. CASE j # [job[w] EXCEPT !.stalls = 1]
      BY <1>0, <1>3, <2>2, <3>2, <3>3, <3>5 DEF Crash, JobsAreQueued
    <3> QED BY <3>4, <3>5
  <2>3. JobsAreQueued' /\ SessionCopiesJustified'
    BY <1>3, <2>1, <2>2, ReleaseInv DEF Crash, JobsAreQueued, SessionCopiesJustified
  <2> QED BY <1>3, <2>1, <2>3, ReleaseInv DEF Crash, IInv
<1> QED BY <1>1, <1>2, <1>3

LEMMA InvStutter == IInv /\ UNCHANGED vars => IInv'
BY DEF IInv, TypeOK, DependenciesFirst, RowsTellTheTruth, CopiesToSave, PickedAreUnblocked,
       JobsAreQueued, Mine, SessionCopiesJustified, Justified, isTokenBudgetExceeded,
       vars, stores, locals, calls, faults, history

LEMMA InvNext == IInv /\ [Next]_vars => IInv'
<1> SUFFICES ASSUME IInv, [Next]_vars PROVE IInv'
  OBVIOUS
<1>1. TypeOK'
  BY TypeNext DEF IInv
<1> QED
  BY <1>1, CallerInv, ExecuteInv, UnblockInv, CheckInv, JobInv, InvStutter
     DEF Next, WorkerStep, Done

\* The strengthening holds in every reachable state.
THEOREM Invariance == Spec => []IInv
BY InvInit, InvNext, PTL DEF Spec

\* No task is queued before the tasks it depends on completed.
THEOREM DependenciesComeFirst == Spec => []DependenciesFirst
<1>1. IInv => DependenciesFirst
  BY DEF IInv
<1> QED BY <1>1, Invariance, PTL

\* The session never announces what did not happen.
THEOREM VerdictIsJustified == Spec => []VerdictJustified
<1>1. IInv => VerdictJustified
  BY DEF IInv, SessionCopiesJustified, Justified, VerdictJustified
<1> QED BY <1>1, Invariance, PTL

\* The session's token total never exceeds what the executions consumed.
THEOREM TokensAreNotOvercounted == Spec => []TokensNeverOvercounted
<1>1. IInv => TokensNeverOvercounted
  BY DEF IInv, SessionCopiesJustified, Justified, TokensNeverOvercounted
<1> QED BY <1>1, Invariance, PTL

-----------------------------------------------------------------------------
(* Rows are overwritten with old copies, but never with a waiting status    *)

Waiting == {"pending", "ready"}

LEMMA NoWayBack ==
    ASSUME IInv, Next, NEW t \in Task, task[t].status \notin Waiting
    PROVE  task'[t].status \notin Waiting
<1> USE DEF stores, Goes, Waiting
<1>0. TypeOK /\ CopiesToSave
  BY DEF IInv
<1>1. ASSUME NEW c \in Caller, CallerStep(c) \/ CallThrows(c)
      PROVE  task'[t].status \notin Waiting
  <2>1. CASE CallSaveTasks(c) BY <2>1 DEF CallSaveTasks
  <2> QED BY <1>1, <2>1 DEF CallerStep, CallLoad, CallScan, CallEnqueue, CallSaveSession,
                            CallThrows
<1>2. ASSUME NEW w \in Worker, WorkerStep(w) \/ Throws(w) \/ Crash(w) \/ \E j \in Job : TakeJob(w, j)
      PROVE  task'[t].status \notin Waiting
  <2>1. CASE MarkRunning(w)   BY <1>0, <2>1 DEF MarkRunning, CopiesToSave, TypeOK
  <2>2. CASE SaveTask(w)      BY <1>0, <2>2 DEF SaveTask, CopiesToSave, TypeOK
  <2>3. CASE UnblockSave(w)   BY <1>0, <2>3 DEF UnblockSave, CopiesToSave, TypeOK
  <2>4. CASE RecordFailure(w) BY <1>0, <2>4 DEF RecordFailure, TypeOK, CoworkTask
  <2>5. CASE task' = task     BY <2>5
  <2> QED BY <1>2, <2>1, <2>2, <2>3, <2>4, <2>5
          DEF WorkerStep, executeCoworkTask, queueUnblocked, checkCompletion, LoadSession,
              LoadTask, StopOverBudget, BuildContext, RunTask, SaveSession, setSharedMemory,
              UnblockLoad, UnblockOverBudget, UnblockNone, UnblockPick, UnblockEnqueue,
              CheckLoad, CheckVerdict, CheckNothing, SaveVerdict, Throws, Crash, TakeJob
<1> QED BY <1>1, <1>2 DEF Next, Done, vars

\* A task that left pending or ready never returns there.
THEOREM NeverRequeued == Spec => NeverRequeueable
<1>1. IInv /\ [Next]_vars
        => [\A t \in Task : task[t].status \notin {"pending", "ready"} =>
                            task'[t].status \notin {"pending", "ready"}]_vars
  BY NoWayBack DEF Waiting, vars, stores
<1> QED BY <1>1, Invariance, PTL DEF Spec, NeverRequeueable

-----------------------------------------------------------------------------
(* The orchestrator implements DagRun                                       *)

LEMMA DagInitial == Init => Dag!DagInit
BY DEF Init, Dag!DagInit

LEMMA AnnouncesJustified ==
    ASSUME IInv', UNCHANGED <<dependencies, queued, completed, failed, spent>>
    PROVE  Dag!DagNext
<1>1. Justified(session)' /\ session' \in CoworkSession
  BY DEF IInv, SessionCopiesJustified, TypeOK
<1>2. Dag!Announce(session.status')
  BY <1>1 DEF Justified, Dag!Announce
<1>3. session.status' \in {"pending", "running", "completed", "partial"}
  BY <1>1 DEF CoworkSession, CoworkSessionStatus
<1> QED BY <1>2, <1>3 DEF Dag!DagNext

LEMMA QueuesUnblocked ==
    ASSUME IInv, IInv', NEW t \in Task, enqueueTask(t),
           UNCHANGED <<dependencies, session, completed, failed, spent>>
    PROVE  Dag!DagNext
<1>1. dependencies[t] \subseteq completed
  BY DEF IInv, DependenciesFirst, enqueueTask
<1>2. Dag!Start(t)
  BY <1>1 DEF enqueueTask, Dag!Start
<1> QED BY <1>2 DEF Dag!DagNext

LEMMA DagStep ==
    ASSUME IInv, IInv', Next
    PROVE  [Dag!DagNext]_(Dag!dagVars)
<1> DEFINE Unseen == UNCHANGED <<dependencies, queued, completed, failed, spent>>
<1> USE DEF stores, history
<1>1. CASE Unseen
  BY <1>1, AnnouncesJustified
<1>2. ASSUME NEW c \in Caller, CallerStep(c) \/ CallThrows(c)
      PROVE  Dag!DagNext
  <2>1. CASE CallEnqueue(c)
    BY <2>1, QueuesUnblocked DEF CallEnqueue
  <2> QED BY <1>1, <1>2, <2>1, AnnouncesJustified
          DEF CallerStep, CallLoad, CallScan, CallSaveTasks, CallSaveSession, CallThrows
<1>3. ASSUME NEW w \in Worker, WorkerStep(w) \/ Throws(w) \/ Crash(w) \/ \E j \in Job : TakeJob(w, j)
      PROVE  [Dag!DagNext]_(Dag!dagVars)
  <2>1. CASE UnblockEnqueue(w)
    <3>1. nxt[w] \in Task
      BY <2>1 DEF UnblockEnqueue, Goes, IInv, TypeOK
    <3> QED BY <2>1, <3>1, QueuesUnblocked DEF UnblockEnqueue
  <2>2. CASE RunTask(w)
    <3>1. Mine(w) \in queued
      BY <2>2 DEF RunTask, Goes, IInv, JobsAreQueued
    <3>2. spent' \in Nat /\ spent' >= spent
      BY <2>2, CoworkAssumption DEF RunTask, IInv, TypeOK
    <3>3. UNCHANGED <<dependencies, session, queued, completed, failed>>
      BY <2>2 DEF RunTask
    <3>4. Dag!Spend
      BY <3>1, <3>2, <3>3 DEF Dag!Spend
    <3> QED BY <3>4 DEF Dag!DagNext
  <2>3. CASE SaveTask(w)
    <3>1. Mine(w) \in queued /\ Mine(w) \in Task
      BY <2>3 DEF SaveTask, Goes, IInv, JobsAreQueued, TypeOK
    <3>2. Dag!Complete(Mine(w))
      BY <2>3, <3>1 DEF SaveTask, Dag!Complete
    <3> QED BY <3>1, <3>2 DEF Dag!DagNext
  <2>4. CASE RecordFailure(w)
    <3>1. Mine(w) \in queued /\ Mine(w) \in Task
      BY <2>4 DEF RecordFailure, Goes, IInv, JobsAreQueued, TypeOK
    <3>2. Dag!Fail(Mine(w))
      BY <2>4, <3>1 DEF RecordFailure, Dag!Fail
    <3> QED BY <3>1, <3>2 DEF Dag!DagNext
  <2> QED BY <1>1, <1>3, <2>1, <2>2, <2>3, <2>4
          DEF WorkerStep, executeCoworkTask, queueUnblocked, checkCompletion, LoadSession,
              LoadTask, StopOverBudget, MarkRunning, BuildContext, SaveSession,
              setSharedMemory, UnblockLoad, UnblockOverBudget, UnblockNone, UnblockPick,
              UnblockSave, CheckLoad, CheckVerdict, CheckNothing, SaveVerdict, Throws,
              Crash, TakeJob
<1> QED BY <1>1, <1>2, <1>3 DEF Next, Done, vars

\* With all its races the orchestrator still behaves like a session that starts
\* tasks in dependency order and announces only what happened.
THEOREM Refinement == Spec => ImplementsDagRun
<1>1. IInv /\ IInv' /\ [Next]_vars => [Dag!DagNext]_(Dag!dagVars)
  <2>1. ASSUME UNCHANGED vars PROVE UNCHANGED Dag!dagVars
    BY <2>1 DEF vars, stores, history, Dag!dagVars
  <2> QED BY <2>1, DagStep
<1> QED BY <1>1, DagInitial, Invariance, PTL DEF Spec, ImplementsDagRun, Dag!DagSpec

-----------------------------------------------------------------------------
(* Nothing is stranded                                                      *)

\* What a step of a worker that meets no failure does to the rows.
LEMMA RowsGoOn ==
    ASSUME IInv, Next, NEW t \in Task
    PROVE  \/ task'[t] = task[t]
           \/ task'[t].status = "running"
           \/ \E w \in Worker : SaveTask(w) \/ RecordFailure(w)
<1> USE DEF stores, Goes
<1>0. TypeOK /\ CopiesToSave
  BY DEF IInv
<1>1. ASSUME NEW c \in Caller, CallerStep(c) \/ CallThrows(c)
      PROVE  task'[t] = task[t] \/ task'[t].status = "running"
  <2>1. CASE CallSaveTasks(c) BY <2>1 DEF CallSaveTasks
  <2> QED BY <1>1, <2>1 DEF CallerStep, CallLoad, CallScan, CallEnqueue, CallSaveSession,
                            CallThrows
<1>2. ASSUME NEW w \in Worker, WorkerStep(w) \/ Throws(w) \/ Crash(w) \/ \E j \in Job : TakeJob(w, j),
             ~ SaveTask(w), ~ RecordFailure(w)
      PROVE  task'[t] = task[t] \/ task'[t].status = "running"
  <2>1. CASE MarkRunning(w)   BY <1>0, <2>1 DEF MarkRunning, CopiesToSave, TypeOK
  <2>2. CASE UnblockSave(w)   BY <1>0, <2>2 DEF UnblockSave, CopiesToSave, TypeOK
  <2>3. CASE task' = task     BY <2>3
  <2> QED BY <1>2, <2>1, <2>2, <2>3
          DEF WorkerStep, executeCoworkTask, queueUnblocked, checkCompletion, LoadSession,
              LoadTask, StopOverBudget, BuildContext, RunTask, SaveSession, setSharedMemory,
              UnblockLoad, UnblockOverBudget, UnblockNone, UnblockPick, UnblockEnqueue,
              CheckLoad, CheckVerdict, CheckNothing, SaveVerdict, Throws, Crash, TakeJob
<1> QED BY <1>1, <1>2 DEF Next, Done, vars

\* A task becomes unblocked only when a task is saved as completed.
LEMMA UnblockedBySaves ==
    ASSUME IInv, Next, ~ \E w \in Worker : SaveTask(w) \/ RecordFailure(w),
           unblockedPending' # {}
    PROVE  unblockedPending # {}
<1>1. \A t \in Task : task'[t] = task[t] \/ task'[t].status = "running"
  BY RowsGoOn
<1>2. dependencies' = dependencies
  <2> USE DEF stores
  <2>1. ASSUME NEW c \in Caller, CallerStep(c) \/ CallThrows(c) PROVE dependencies' = dependencies
    BY <2>1 DEF CallerStep, CallLoad, CallScan, CallEnqueue, CallSaveTasks, CallSaveSession,
                CallThrows
  <2>2. ASSUME NEW w \in Worker, WorkerStep(w) \/ Throws(w) \/ Crash(w) \/ \E j \in Job : TakeJob(w, j)
        PROVE  dependencies' = dependencies
    BY <2>2 DEF WorkerStep, executeCoworkTask, queueUnblocked, checkCompletion, LoadSession,
                LoadTask, StopOverBudget, MarkRunning, BuildContext, RunTask, SaveTask,
                SaveSession, setSharedMemory, RecordFailure, UnblockLoad, UnblockOverBudget,
                UnblockNone, UnblockPick, UnblockEnqueue, UnblockSave, CheckLoad,
                CheckVerdict, CheckNothing, SaveVerdict, Throws, Crash, TakeJob
  <2> QED BY <2>1, <2>2 DEF Next, Done, vars
<1>3. PICK t \in Task : /\ task'[t].status = "pending"
                       /\ \A d \in dependencies[t] : d \in Task /\ task'[d].status = "completed"
  BY <1>2 DEF unblockedPending
<1>4. t \in unblockedPending
  BY <1>1, <1>3 DEF unblockedPending
<1> QED BY <1>4

\* As long as nothing went wrong no copy of the session exceeds the budget.
LEMMA WithinBudget ==
    ASSUME IInv, Undisturbed
    PROVE  \A s \in CoworkSession : Justified(s) => ~ isTokenBudgetExceeded(s)
<1>1. spent \in Nat /\ Budget \in Nat
  BY CoworkAssumption DEF IInv, TypeOK
<1>2. ASSUME NEW s \in CoworkSession, Justified(s) PROVE ~ isTokenBudgetExceeded(s)
  <2>1. s.tokens \in Nat /\ s.tokens <= spent
    BY <1>2 DEF CoworkSession, Justified
  <2> QED BY <1>1, <2>1 DEF isTokenBudgetExceeded, Undisturbed
<1> QED BY <1>2

\* Faults and tokens only become more.
LEMMA DisturbedForGood ==
    ASSUME IInv, Next, Undisturbed'
    PROVE  Undisturbed /\ (\A w \in Worker : ~ Throws(w) /\ ~ Crash(w)) /\ (\A c \in Caller : ~ CallThrows(c))
<1> USE DEF faults, history
<1>0. /\ TypeOK /\ throws \in Nat /\ crashes \in Nat /\ spent \in Nat /\ Budget \in Nat
  BY CoworkAssumption DEF IInv, TypeOK
<1>1. ASSUME NEW w \in Worker PROVE ~ Throws(w) /\ ~ Crash(w)
  BY <1>0 DEF Throws, Crash, Undisturbed
<1>2. ASSUME NEW c \in Caller PROVE ~ CallThrows(c)
  BY <1>0 DEF CallThrows, Undisturbed
<1>3. ASSUME NEW w \in Worker, RunTask(w) PROVE Undisturbed
  <2>1. PICK cost \in TokenCost : spent' = spent + cost
    BY <1>3 DEF RunTask
  <2>2. cost \in Nat /\ throws' = throws /\ crashes' = crashes
    BY <1>3, CoworkAssumption DEF RunTask
  <2> QED BY <1>0, <2>1, <2>2 DEF Undisturbed
<1>4. ASSUME UNCHANGED <<throws, crashes, spent>> PROVE Undisturbed
  BY <1>4 DEF Undisturbed
<1>5. ASSUME NEW c \in Caller, CallerStep(c) PROVE Undisturbed
  <2>1. UNCHANGED <<throws, crashes, spent>>
    BY <1>5 DEF CallerStep, CallLoad, CallScan, CallEnqueue, CallSaveTasks, CallSaveSession
  <2> QED BY <1>4, <2>1
<1>6. ASSUME NEW w \in Worker, WorkerStep(w) \/ \E j \in Job : TakeJob(w, j)
      PROVE  Undisturbed
  <2>1. CASE executeCoworkTask(w)
    BY <1>3, <1>4, <2>1
       DEF executeCoworkTask, LoadSession, LoadTask, StopOverBudget, MarkRunning,
           BuildContext, SaveTask, SaveSession, setSharedMemory, RecordFailure
  <2>2. CASE queueUnblocked(w)
    BY <1>4, <2>2 DEF queueUnblocked, UnblockLoad, UnblockOverBudget, UnblockNone,
                      UnblockPick, UnblockEnqueue, UnblockSave
  <2>3. CASE checkCompletion(w) \/ \E j \in Job : TakeJob(w, j)
    BY <1>4, <2>3 DEF checkCompletion, CheckLoad, CheckVerdict, CheckNothing, SaveVerdict,
                      TakeJob
  <2> QED BY <1>6, <2>1, <2>2, <2>3 DEF WorkerStep
<1> QED BY <1>1, <1>2, <1>4, <1>5, <1>6 DEF Next, Done, vars

\* Whoever was to scan still is, unless it is this worker that went on.
LEMMA OthersScan ==
    ASSUME ScanAhead, NEW w \in Worker,
           \A v \in Worker \ {w} : pc'[v] = pc[v], \A j \in Job : jobs'[j] = jobs[j],
           pc[w] \in {"unblockSave", "check", "checkTasks", "saveVerdict"}
    PROVE  ScanAhead'
BY DEF ScanAhead

LEMMA ScansKept ==
    ASSUME IInv, ScansToCome, Next
    PROVE  ScansToCome'
<1> SUFFICES ASSUME Undisturbed'
             PROVE  /\ \A w \in Worker : pc'[w] # "catch"
                    /\ unblockedPending' # {} => ScanAhead'
  BY DEF ScansToCome
<1> USE DEF Goes
<1>0. TypeOK /\ CopiesToSave /\ SessionCopiesJustified /\ pc = [w \in Worker |-> pc[w]]
  BY DEF IInv, TypeOK
<1>1. /\ Undisturbed
      /\ \A w \in Worker : ~ Throws(w) /\ ~ Crash(w)
      /\ \A c \in Caller : ~ CallThrows(c)
  BY DisturbedForGood
<1>2. /\ \A w \in Worker : pc[w] # "catch"
      /\ unblockedPending # {} => ScanAhead
  BY <1>1 DEF ScansToCome
<1>3. /\ \A w \in Worker : ~ isTokenBudgetExceeded(ses[w])
      /\ ~ isTokenBudgetExceeded(session)
  BY <1>0, <1>1, WithinBudget DEF TypeOK, SessionCopiesJustified
<1>4. \A w \in Worker : ~ StopOverBudget(w) /\ ~ UnblockOverBudget(w) /\ ~ RecordFailure(w)
  BY <1>0, <1>2, <1>3 DEF StopOverBudget, UnblockOverBudget, RecordFailure, CopiesToSave
<1>5. ASSUME ~ \E w \in Worker : SaveTask(w), ScanAhead => ScanAhead'
      PROVE  unblockedPending' # {} => ScanAhead'
  BY <1>2, <1>4, <1>5, UnblockedBySaves
<1>6. ASSUME NEW c \in Caller, CallerStep(c)
      PROVE  pc' = pc /\ (ScanAhead => ScanAhead')
  <2> USE DEF stores, locals, CallerGoes
  <2>1. CASE CallEnqueue(c)
    <3>1. PICK t \in Task : jobs' = [jobs EXCEPT ![[task |-> t, stalls |-> 0]] = @ + 1]
      BY <2>1 DEF CallEnqueue, enqueueTask
    <3>2. [task |-> t, stalls |-> 0] \in Job
      BY DEF Job
    <3>3. jobs'[[task |-> t, stalls |-> 0]] > 0
      BY <1>0, <3>1, <3>2 DEF TypeOK
    <3> QED BY <2>1, <3>2, <3>3 DEF CallEnqueue, ScanAhead
  <2>2. CASE pc' = pc /\ jobs' = jobs
    BY <2>2 DEF ScanAhead
  <2> QED BY <1>6, <2>1, <2>2 DEF CallerStep, CallLoad, CallScan, CallSaveTasks, CallSaveSession
<1>7. ASSUME NEW w \in Worker, NEW j \in Job, TakeJob(w, j)
      PROVE  ScanAhead' /\ \A v \in Worker : pc'[v] # "catch"
  BY <1>0, <1>2, <1>7 DEF TakeJob, ScanAhead
<1>8. ASSUME NEW w \in Worker, executeCoworkTask(w)
      PROVE  ScanAhead' /\ \A v \in Worker : pc'[v] # "catch"
  BY <1>0, <1>2, <1>3, <1>4, <1>8
     DEF executeCoworkTask, LoadSession, LoadTask, MarkRunning, BuildContext, RunTask,
         SaveTask, SaveSession, setSharedMemory, ScanAhead
<1>9. ASSUME NEW w \in Worker, queueUnblocked(w)
      PROVE  /\ \A v \in Worker : pc'[v] # "catch"
             /\ unblockedPending' # {} => ScanAhead'
  <2> USE DEF stores, locals
  <2>1. CASE UnblockLoad(w) \/ UnblockPick(w)
    BY <1>0, <1>2, <1>3, <2>1 DEF UnblockLoad, UnblockPick, ScanAhead
  <2>2. CASE UnblockNone(w)
    <3>1. unblockedPending' = unblockedPending
      BY <2>2 DEF UnblockNone, unblockedPending
    <3> QED BY <1>0, <1>2, <2>2, <3>1 DEF UnblockNone
  <2>3. CASE UnblockEnqueue(w)
    <3>1. nxt[w] \in Task /\ jobs' = [jobs EXCEPT ![[task |-> nxt[w], stalls |-> 0]] = @ + 1]
      BY <1>0, <2>3 DEF UnblockEnqueue, enqueueTask, TypeOK
    <3>2. [task |-> nxt[w], stalls |-> 0] \in Job
      BY <3>1 DEF Job
    <3>3. jobs'[[task |-> nxt[w], stalls |-> 0]] > 0
      BY <1>0, <3>1, <3>2 DEF TypeOK
    <3> QED BY <1>0, <1>2, <2>3, <3>2, <3>3 DEF UnblockEnqueue, ScanAhead
  <2>4. CASE UnblockSave(w)
    <3>1. ScanAhead => ScanAhead'
      BY <1>0, <2>4, OthersScan DEF UnblockSave
    <3>2. ~ \E v \in Worker : SaveTask(v)
      BY <1>0, <2>4 DEF UnblockSave, SaveTask
    <3> QED BY <1>0, <1>2, <1>5, <2>4, <3>1, <3>2 DEF UnblockSave
  <2> QED BY <1>4, <1>9, <2>1, <2>2, <2>3, <2>4 DEF queueUnblocked
<1>10. ASSUME NEW w \in Worker, checkCompletion(w)
       PROVE  /\ \A v \in Worker : pc'[v] # "catch"
              /\ unblockedPending' # {} => ScanAhead'
  <2> USE DEF stores, locals, Release
  <2>1. ScanAhead => ScanAhead'
    BY <1>0, <1>10, OthersScan DEF checkCompletion, CheckLoad, CheckVerdict, CheckNothing, SaveVerdict
  <2>2. unblockedPending' = unblockedPending
    BY <1>10 DEF checkCompletion, CheckLoad, CheckVerdict, CheckNothing, SaveVerdict,
                 unblockedPending
  <2>3. \A v \in Worker : pc'[v] # "catch"
    BY <1>0, <1>2, <1>10 DEF checkCompletion, CheckLoad, CheckVerdict, CheckNothing, SaveVerdict
  <2> QED BY <1>2, <2>1, <2>2, <2>3
<1>11. CASE UNCHANGED vars
  BY <1>2, <1>11 DEF vars, stores, unblockedPending, ScanAhead
<1>12. ASSUME NEW c \in Caller, CallerStep(c)
       PROVE  unblockedPending' # {} => ScanAhead'
  <2>1. ~ \E w \in Worker : SaveTask(w)
    BY <1>0, <1>6, <1>12 DEF SaveTask
  <2> QED BY <1>5, <1>6, <1>12, <2>1
<1>13. ASSUME NEW c \in Caller, CallerStep(c)
       PROVE  /\ \A w \in Worker : pc'[w] # "catch"
              /\ unblockedPending' # {} => ScanAhead'
  BY <1>2, <1>6, <1>12, <1>13
<1>14. CASE \E w \in Worker : WorkerStep(w) \/ \E j \in Job : TakeJob(w, j)
  BY <1>7, <1>8, <1>9, <1>10, <1>14 DEF WorkerStep
<1> QED BY <1>1, <1>11, <1>13, <1>14 DEF Next, Done

\* queueUnblocked: one task queued per completion is enough, for any plan and any
\* number of workers that scan at once: without failures nothing is stranded.
THEOREM NothingStranded == Spec => []NoStrandedTask
<1>1. Init => ScansToCome
  <2> SUFFICES ASSUME Init PROVE ScansToCome
    OBVIOUS
  <2>1. \A t \in Task : /\ task[t].status # "completed"
                        /\ task[t].status = "pending" => dependencies[t] # {}
    BY DEF Init, buildTaskEntityFromDagNode
  <2>2. unblockedPending = {}
    BY <2>1 DEF unblockedPending
  <2> QED BY <2>2 DEF Init, ScansToCome
<1>2. IInv /\ ScansToCome /\ [Next]_vars => ScansToCome'
  <2>1. ASSUME ScansToCome, UNCHANGED vars PROVE ScansToCome'
    BY <2>1 DEF ScansToCome, vars, stores, faults, history, Undisturbed, unblockedPending, ScanAhead
  <2> QED BY <2>1, ScansKept
<1>3. ScansToCome => NoStrandedTask
  <2> SUFFICES ASSUME ScansToCome, Quiet, Undisturbed,
                      NEW t \in Task, task[t].status = "pending",
                      dependencies[t] \subseteq {u \in Task : task[u].status = "completed"}
               PROVE  FALSE
    BY DEF NoStrandedTask, Undisturbed
  <2>1. t \in unblockedPending
    BY DEF unblockedPending
  <2>2. ~ ScanAhead
    BY DEF Quiet, ScanAhead
  <2> QED BY <2>1, <2>2 DEF ScansToCome
<1> QED BY <1>1, <1>2, <1>3, Invariance, PTL DEF Spec

-----------------------------------------------------------------------------
(* No output is missed                                                      *)

LEMMA OutputsStay ==
    ASSUME IInv, IInv', OutputsKept, Next
    PROVE  OutputsKept'
<1> USE DEF stores, locals, Goes, Release
<1>0. TypeOK /\ CopiesToSave /\ TypeOK'
  BY DEF IInv
<1>1. ASSUME NEW c \in Caller, CallerStep(c) \/ CallThrows(c)
      PROVE  OutputsKept'
  <2>1. CASE CallSaveTasks(c)
    BY <2>1 DEF CallSaveTasks, OutputsKept
  <2>2. CASE UNCHANGED <<task, pc, ent>>
    BY <2>2 DEF OutputsKept
  <2> QED BY <1>1, <2>1, <2>2 DEF CallerStep, CallLoad, CallScan, CallEnqueue, CallSaveSession,
                                  CallThrows
<1>2. ASSUME NEW w \in Worker, executeCoworkTask(w) PROVE OutputsKept'
  <2>1. CASE MarkRunning(w)
    BY <1>0, <2>1 DEF MarkRunning, OutputsKept, CopiesToSave, TypeOK
  <2>2. CASE RunTask(w)
    BY <1>0, <2>2 DEF RunTask, OutputsKept, TypeOK
  <2>3. CASE SaveTask(w)
    BY <1>0, <2>3 DEF SaveTask, OutputsKept, TypeOK
  <2>4. CASE RecordFailure(w)
    <3>1. ent'[w].status = "failed"
      BY <1>0, <2>4 DEF RecordFailure, TypeOK, CoworkTask
    <3> QED BY <1>0, <2>4, <3>1 DEF RecordFailure, OutputsKept, TypeOK
  <2>5. CASE LoadSession(w) \/ LoadTask(w) \/ StopOverBudget(w) \/ BuildContext(w)
    BY <1>0, <2>5 DEF LoadSession, LoadTask, StopOverBudget, BuildContext, OutputsKept, TypeOK
  <2>6. CASE SaveSession(w) \/ setSharedMemory(w)
    BY <1>0, <2>6 DEF SaveSession, setSharedMemory, OutputsKept, TypeOK
  <2> QED BY <1>2, <2>1, <2>2, <2>3, <2>4, <2>5, <2>6 DEF executeCoworkTask
<1>3. ASSUME NEW w \in Worker, queueUnblocked(w) PROVE OutputsKept'
  <2>1. CASE UnblockSave(w)
    BY <1>0, <2>1 DEF UnblockSave, OutputsKept, CopiesToSave, TypeOK
  <2>2. UnblockSave(w) \/ (task' = task /\ ent' = ent)
    BY <1>3 DEF queueUnblocked, UnblockLoad, UnblockOverBudget, UnblockNone, UnblockPick,
                UnblockEnqueue
  <2>3. \A v \in Worker : pc'[v] = "saveTask" => pc[v] = "saveTask"
    BY <1>0, <1>3 DEF queueUnblocked, UnblockLoad, UnblockOverBudget, UnblockNone, UnblockPick,
                      UnblockEnqueue, UnblockSave, TypeOK
  <2> QED BY <2>1, <2>2, <2>3 DEF OutputsKept
<1>4. ASSUME NEW w \in Worker,
             checkCompletion(w) \/ Throws(w) \/ Crash(w) \/ \E j \in Job : TakeJob(w, j)
      PROVE  OutputsKept'
  <2>1. task' = task /\ \A v \in Worker : pc'[v] = "saveTask" => pc[v] = "saveTask" /\ ent'[v] = ent[v]
    BY <1>0, <1>4 DEF checkCompletion, CheckLoad, CheckVerdict, CheckNothing, SaveVerdict,
                      Throws, Crash, TakeJob, TypeOK
  <2> QED BY <2>1 DEF OutputsKept
<1>5. CASE UNCHANGED vars
  BY <1>5 DEF vars, OutputsKept
<1> QED BY <1>1, <1>2, <1>3, <1>4, <1>5 DEF Next, WorkerStep, Done

\* buildTaskInputContext: a task runs without the output of a dependency only if a
\* copy has overwritten that dependency's completed row.
THEOREM OutputsReachTasks == Spec => OutputsAreMissedOnlyIfOverwritten
<1>1. Init => OutputsKept
  BY DEF Init, OutputsKept, buildTaskEntityFromDagNode
<1>2. IInv /\ IInv' /\ OutputsKept /\ [Next]_vars => OutputsKept'
  <2>1. ASSUME OutputsKept, UNCHANGED vars PROVE OutputsKept'
    BY <2>1 DEF OutputsKept, vars, stores, locals
  <2> QED BY <2>1, OutputsStay
<1>3. IInv /\ OutputsKept /\ [Next]_vars
        => [\A w \in Worker : pc[w] = "context" /\ pc'[w] = "run" =>
               \A d \in dependencies[Mine(w)] \ ctx'[w] : task[d].status # "completed"]_vars
  <2> SUFFICES ASSUME IInv, OutputsKept, Next, NEW w \in Worker,
                      pc[w] = "context", pc'[w] = "run",
                      NEW d \in dependencies[Mine(w)] \ ctx'[w]
               PROVE  task[d].status # "completed"
    BY DEF vars
  <2>0. TypeOK
    BY DEF IInv
  <2>1. BuildContext(w)
    <3> USE DEF Goes, Release
    <3>1. pc' # pc
      OBVIOUS
    <3>2. ASSUME NEW v \in Worker, executeCoworkTask(v) PROVE BuildContext(w)
      BY <2>0, <3>2 DEF executeCoworkTask, LoadSession, LoadTask, StopOverBudget, MarkRunning,
                        BuildContext, RunTask, SaveTask, SaveSession, setSharedMemory,
                        RecordFailure, TypeOK
    <3>3. ASSUME NEW v \in Worker, queueUnblocked(v) \/ checkCompletion(v) PROVE FALSE
      BY <2>0, <3>3 DEF queueUnblocked, UnblockLoad, UnblockOverBudget, UnblockNone,
                        UnblockPick, UnblockEnqueue, UnblockSave, checkCompletion, CheckLoad,
                        CheckVerdict, CheckNothing, SaveVerdict, TypeOK
    <3>4. ASSUME NEW v \in Worker, Throws(v) \/ Crash(v) \/ \E j \in Job : TakeJob(v, j)
          PROVE  FALSE
      BY <2>0, <3>4 DEF Throws, Crash, TakeJob, TypeOK
    <3>5. ASSUME NEW c \in Caller, CallerStep(c) \/ CallThrows(c) PROVE FALSE
      BY <3>1, <3>5 DEF CallerStep, CallLoad, CallScan, CallEnqueue, CallSaveTasks,
                        CallSaveSession, CallThrows
    <3> QED BY <3>1, <3>2, <3>3, <3>4, <3>5 DEF Next, WorkerStep, Done, vars
  <2>2. d \in Task
    <3>1. Mine(w) \in queued
      BY DEF IInv, JobsAreQueued
    <3> QED BY <2>0, <3>1 DEF IInv, DependenciesFirst, TypeOK
  <2>3. d \notin inputContext(Mine(w))
    BY <2>0, <2>1 DEF BuildContext, TypeOK
  <2> QED BY <2>2, <2>3 DEF inputContext, OutputsKept
<1> QED BY <1>1, <1>2, <1>3, Invariance, PTL DEF Spec, OutputsAreMissedOnlyIfOverwritten
=============================================================================
