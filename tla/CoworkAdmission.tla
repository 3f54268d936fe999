--------------------------- MODULE CoworkAdmission --------------------------
(***************************************************************************)
(* createCoworkSession and enforceFreePlanLimit                            *)
(* (services/cowork/orchestrator.ts) for the requests of one user: the     *)
(* sessions of the month are counted first, the session row is inserted    *)
(* after the planner has answered, and nothing ties the two together.      *)
(* The window the count uses is fixed before the rows are read, so the     *)
(* month may turn in between.  The user's plan is changed by the           *)
(* subscription service (services/subscription/index.ts).                  *)
(***************************************************************************)
EXTENDS Integers, FiniteSets

CONSTANTS
    Request,    \* calls of createCoworkSession
    Limit,      \* FREE_PLAN_MONTHLY_LIMIT
    LastMonth   \* bound: the month does not turn after this one

ASSUME AdmissionAssumption ==
    /\ IsFiniteSet(Request)
    /\ Limit \in Nat \ {0}
    /\ LastMonth \in Nat

Month == 0..LastMonth

VARIABLES
    month,    \* the month that now() lies in
    plan,     \* user.subscription_type
    created,  \* created[m]: session rows of the user with a createdDate in m
    pc,       \* where each request is
    window,   \* the month whose sessions a request counts
    wasPro,   \* history: the user has had a paid plan
    peak      \* history: most requests that were ever on their way to the insert

vars == <<month, plan, created, pc, window, wasPro, peak>>

\* A request that may still insert a session.
InFlight == {r \in Request : pc[r] \in {"count", "decompose", "insert"}}

Goes(r, from, to) == pc[r] = from /\ pc' = [pc EXCEPT ![r] = to]

Init ==
    /\ month = 0
    /\ plan = "free"
    /\ created = [m \in Month |-> 0]
    /\ pc = [r \in Request |-> "idle"]
    /\ window = [r \in Request |-> 0]
    /\ wasPro = FALSE
    /\ peak = 0

\* The user row is read; a paid plan is not limited.
ReadUser(r) ==
    /\ Goes(r, "idle", IF plan = "free" THEN "count" ELSE "decompose")
    /\ window' = [window EXCEPT ![r] = month]
    /\ LET n == Cardinality(InFlight) + 1 IN peak' = IF n > peak THEN n ELSE peak
    /\ UNCHANGED <<month, plan, created, wasPro>>

\* Mutant: one session more is let through.
MutCountSessions(r) ==
    /\ Goes(r, "count", IF created[window[r]] > Limit THEN "refused" ELSE "decompose")
    /\ UNCHANGED <<month, plan, created, window, wasPro, peak>>

\* The user's sessions are read and those of the window are counted.
CountSessions(r) ==
    /\ Goes(r, "count", IF created[window[r]] >= Limit THEN "refused" ELSE "decompose")
    /\ UNCHANGED <<month, plan, created, window, wasPro, peak>>

\* The planner answers.
Decompose(r) ==
    /\ Goes(r, "decompose", "insert")
    /\ UNCHANGED <<month, plan, created, window, wasPro, peak>>

\* sessionRepo.save: the database dates the row.
InsertSession(r) ==
    /\ Goes(r, "insert", "tasks")
    /\ created' = [created EXCEPT ![month] = @ + 1]
    /\ UNCHANGED <<month, plan, window, wasPro, peak>>

\* taskRepo.save, and the answer.
InsertTasks(r) ==
    /\ Goes(r, "tasks", "answered")
    /\ UNCHANGED <<month, plan, created, window, wasPro, peak>>

\* An await is rejected.  A session row that is already there stays, without tasks.
Throws(r) ==
    /\ pc[r] \in {"idle", "count", "decompose", "insert", "tasks"}
    /\ pc' = [pc EXCEPT ![r] = "failed"]
    /\ UNCHANGED <<month, plan, created, window, wasPro, peak>>

createCoworkSession(r) ==
    \/ ReadUser(r) \/ CountSessions(r) \/ Decompose(r)
    \/ InsertSession(r) \/ InsertTasks(r) \/ Throws(r)

TurnOfMonth ==
    /\ month < LastMonth
    /\ month' = month + 1
    /\ UNCHANGED <<plan, created, pc, window, wasPro, peak>>

\* validateSubscription stores the paid plan.
ActivatePro ==
    /\ plan' = "pro"
    /\ wasPro' = TRUE
    /\ UNCHANGED <<month, created, pc, window, peak>>

\* activateFreeSubscription stores the free one.
ActivateFree ==
    /\ plan' = "free"
    /\ UNCHANGED <<month, created, pc, window, wasPro, peak>>

Next ==
    \/ \E r \in Request : createCoworkSession(r)
    \/ TurnOfMonth \/ ActivatePro \/ ActivateFree

Spec == Init /\ [][Next]_vars

-----------------------------------------------------------------------------
(* Properties                                                               *)

\* Rows, requests and the history are what they should be.
TypeOK ==
    /\ month \in Month
    /\ plan \in {"free", "pro"}
    /\ created \in [Month -> Nat]
    /\ pc \in [Request -> {"idle", "count", "decompose", "insert", "tasks",
                           "answered", "refused", "failed"}]
    /\ window \in [Request -> Month]
    /\ wasPro \in BOOLEAN
    /\ peak \in Nat

\* Test TC-1.8: a free user gets no session beyond the limit in one month.
MonthlyLimit == ~ wasPro => \A m \in Month : created[m] <= Limit

\* What the code guarantees instead: in any month, however requests of the user
\* and the turn of the month interleave, a free user gets fewer sessions than the
\* limit and the requests that were ever under way at once.  In particular the
\* limit holds for a user who never sends a request before the last one answered.
OverrunIsBounded == ~ wasPro => \A m \in Month : created[m] < Limit + peak

-----------------------------------------------------------------------------
(* The inductive invariant: the requests that can no longer be refused for   *)
(* this month already fit under the bound.                                   *)

Admitted(m) == {r \in InFlight : pc[r] # "count" \/ window[r] # m}

AdmittedFit ==
    ~ wasPro =>
        /\ plan = "free"
        /\ created[month] + Cardinality(Admitted(month)) < Limit + peak
        /\ \A m \in Month : m > month => created[m] = 0
        /\ OverrunIsBounded

IInv ==
    /\ TypeOK
    /\ Cardinality(InFlight) <= peak
    /\ AdmittedFit
=============================================================================
