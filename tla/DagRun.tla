------------------------------- MODULE DagRun -------------------------------
(***************************************************************************)
(* What a cowork session promises, without rows, copies or workers: tasks  *)
(* start only after the tasks they depend on, they complete or fail after  *)
(* they started, and the status shown to the user (services/cowork/        *)
(* status.ts) never claims what did not happen.  A task may be started,    *)
(* completed or failed more than once, and the status may go back to       *)
(* running: the orchestrator promises no more (see Cowork.tla).            *)
(***************************************************************************)
EXTENDS Integers

CONSTANTS Task, Plans, Budget

VARIABLES
    deps,      \* the plan
    started,   \* tasks ever handed to the queue
    completed, \* tasks ever completed
    failed,    \* tasks ever failed
    spent,     \* tokens consumed
    status     \* the session's status

dagVars == <<deps, started, completed, failed, spent, status>>

DagInit ==
    /\ deps \in Plans
    /\ started = {} /\ completed = {} /\ failed = {}
    /\ spent = 0
    /\ status = "pending"

Start(t) ==
    /\ deps[t] \subseteq completed
    /\ started' = started \cup {t}
    /\ UNCHANGED <<deps, completed, failed, spent, status>>

Complete(t) ==
    /\ t \in started
    /\ completed' = completed \cup {t}
    /\ UNCHANGED <<deps, started, failed, spent, status>>

Fail(t) ==
    /\ t \in started
    /\ failed' = failed \cup {t}
    /\ UNCHANGED <<deps, started, completed, spent, status>>

Spend ==
    /\ started # {}
    /\ spent' \in Nat /\ spent' >= spent
    /\ UNCHANGED <<deps, started, completed, failed, status>>

Announce(s) ==
    /\ s = "completed" => Task \subseteq completed
    /\ s = "partial" => failed # {} \/ (Budget > 0 /\ spent >= Budget)
    /\ status' = s
    /\ UNCHANGED <<deps, started, completed, failed, spent>>

DagNext ==
    \/ \E t \in Task : Start(t) \/ Complete(t) \/ Fail(t)
    \/ Spend
    \/ \E s \in {"pending", "running", "completed", "partial"} : Announce(s)

DagSpec == DagInit /\ [][DagNext]_dagVars
=============================================================================
