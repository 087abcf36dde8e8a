--------------------------- MODULE TaskLifecycle ---------------------------
(***************************************************************************)
(* What the platform promises of the state of a task, as TaskState states  *)
(* it in axontask-shared/src/models/task.rs: six states, four of them      *)
(* final, and the transitions can_transition_to allows.  Nothing in the    *)
(* program calls can_transition_to: the SQL statements of the queue and of *)
(* the API enforce it (or do not) one by one, which is what the refinement *)
(* of module Worker checks.                                                *)
(***************************************************************************)
CONSTANT Task       \* the tasks that may ever be created

VARIABLE state      \* state[t]: the state of t's row, "none" before the row exists

TaskState == {"pending", "running", "succeeded", "failed", "canceled", "timeout"}

\* TaskState::is_terminal
Terminal == {"succeeded", "failed", "canceled", "timeout"}

\* TaskState::can_transition_to
CanTransition(from, to) ==
    \/ from = "pending" /\ to \in {"running", "canceled"}
    \/ from = "running" /\ to \in Terminal

Init == state = [t \in Task |-> "none"]

\* Task::create inserts a row in state pending.
Create(t) ==
    /\ state[t] = "none"
    /\ state' = [state EXCEPT ![t] = "pending"]

\* A worker takes a batch of pending tasks in one statement.
Claim(S) ==
    /\ \A t \in S : CanTransition(state[t], "running")
    /\ state' = [t \in Task |-> IF t \in S THEN "running" ELSE state[t]]

\* One task is finished, by a worker or by a cancel request.
Finish(t, final) ==
    /\ final \in Terminal
    /\ CanTransition(state[t], final)
    /\ state' = [state EXCEPT ![t] = final]

Next ==
    \/ \E t \in Task : Create(t)
    \/ \E S \in SUBSET Task : Claim(S)
    \/ \E t \in Task, final \in Terminal : Finish(t, final)

Spec == Init /\ [][Next]_state
=============================================================================
