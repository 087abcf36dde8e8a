----------------------------- MODULE TaskTable -----------------------------
(***************************************************************************)
(* The tasks table of PostgreSQL as the API and the workers use it: one    *)
(* operator per SQL statement.  A statement is atomic; what a handler does *)
(* between two statements is not, and is modelled by the modules that      *)
(* extend this one.                                                        *)
(***************************************************************************)
EXTENDS Integers, FiniteSets

CONSTANT Task       \* tasks, named by their rank in created_at order

ASSUME TaskAssumption == Task \subseteq Nat /\ IsFiniteSet(Task)

VARIABLES
    state,          \* tasks.state, "none" before the row is inserted
    why,            \* tasks.error_message: who finished the task, and why
    age             \* what tasks.started_at says now: "null", "young" (timeout_seconds
                    \* have not passed since) or "overdue" (they have)

table == <<state, why, age>>

TaskState == {"pending", "running", "succeeded", "failed", "canceled", "timeout"}
Terminal == {"succeeded", "failed", "canceled", "timeout"}
Why == {"none", "adapterNotFound", "invalidArguments", "adapterError",
        "cancelledByUser", "timedOut"}

TableTypeOK ==
    /\ state \in [Task -> TaskState \cup {"none"}]
    /\ why \in [Task -> Why]
    /\ age \in [Task -> {"null", "young", "overdue"}]

TableInit ==
    /\ state = [t \in Task |-> "none"]
    /\ why = [t \in Task |-> "none"]
    /\ age = [t \in Task |-> "null"]

\* Mutant: the SELECT forgets that another worker may have taken the row.
Pending_OrRunning == {t \in Task : state[t] \in {"pending", "running"}}

Pending == {t \in Task : state[t] = "pending"}

\* Task::create.  created_at is the time of the INSERT, so that rows appear
\* in rank order.
InsertTask(t) ==
    /\ state[t] = "none"
    /\ \A u \in Task : u < t => state[u] # "none"
    /\ state' = [state EXCEPT ![t] = "pending"]
    /\ UNCHANGED <<why, age>>

\* The rows TaskQueue::claim_tasks selects: the oldest pending ones, at most
\* limit.  FOR UPDATE SKIP LOCKED makes two concurrent claims take disjoint
\* rows, as if one came after the other.
IsOldestPending(S, limit) ==
    /\ S \subseteq Pending
    /\ Cardinality(S) <= limit
    /\ \A t \in S, u \in Pending : u < t => u \in S
    /\ Cardinality(S) = limit \/ S = Pending

ClaimRows(S, limit) ==
    /\ IsOldestPending(S, limit)
    /\ state' = [t \in Task |-> IF t \in S THEN "running" ELSE state[t]]
    /\ age' = [t \in Task |-> IF t \in S THEN "young" ELSE age[t]]
    /\ UNCHANGED why

\* Mutant: no "AND state = 'running'" in the UPDATE.
Markable_AnyRow(t) == state[t] # "none"

\* The rows TaskQueue::mark_succeeded, mark_failed and mark_timeout update:
\* those in state running.  No row is the error TaskNotFound, which the
\* callers only log.
Markable(t) == state[t] = "running"

MarkRow(t, final, message) ==
    IF Markable(t)
    THEN /\ state' = [state EXCEPT ![t] = final]
         /\ why' = [why EXCEPT ![t] = message]
         /\ UNCHANGED age
    ELSE UNCHANGED table

\* Mutant: no "AND state IN ('pending', 'running')" in the UPDATE.
CancelRow_AnyState(t) ==
    state' = [state EXCEPT ![t] = "canceled"] /\ UNCHANGED <<why, age>>

\* Task::transition_to_canceled: no error_message is written.
CancelRow(t) ==
    IF state[t] \in {"pending", "running"}
    THEN state' = [state EXCEPT ![t] = "canceled"] /\ UNCHANGED <<why, age>>
    ELSE UNCHANGED table

\* Time passes: now() - started_at reaches timeout_seconds.
Elapse(t) ==
    /\ age[t] = "young"
    /\ age' = [age EXCEPT ![t] = "overdue"]
    /\ UNCHANGED <<state, why>>
=============================================================================
