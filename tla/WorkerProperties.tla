-------------------------- MODULE WorkerProperties --------------------------
(***************************************************************************)
(* What the execution of tasks promises: the refinement of TaskLifecycle,  *)
(* the safety and liveness properties that hold, and the claims of the     *)
(* repository that the code does not keep.                                 *)
(***************************************************************************)
EXTENDS Worker

-----------------------------------------------------------------------------
(* Safety. *)

\* The statements of the queue and of the API, interleaved in any order and
\* with any failure, only make the transitions of TaskState::can_transition_to
\* (axontask-shared/src/models/task.rs).
L == INSTANCE TaskLifecycle WITH Task <- Task, state <- state

Lifecycle == L!Spec

\* A task is in the memory of one worker at most, and a claimed task that
\* waits for the dispatch loop has never been executed before: claim_tasks
\* hands a task out once (queue.rs, FOR UPDATE SKIP LOCKED).
Exclusive ==
    \A w \in Worker, t \in Task :
        /\ t \in batch[w] => epc[t] = "none"
        /\ t \in batch[w] \cup active[w] =>
               \A v \in Worker \ {w} : t \notin batch[v] \cup active[v]

\* What a worker executes with a live token; active_tasks is meant to hold all of it.
Uncancelled(w) == {t \in Task : owner[t] = w /\ epc[t] \in Executing /\ ~Cancelled(t)}

\* Claimed tasks, tasks in active_tasks and tasks whose executor has a live token
\* are never more than max_concurrent_tasks together: the map that run() counts
\* before claim_tasks loses no executor that nobody has stopped, and the slots are
\* still free when the rows arrive. Only executors already cancelled exceed it.
Capacity ==
    \A w \in Worker :
        Cardinality(batch[w] \cup active[w] \cup Uncancelled(w)) <= MaxConcurrent

\* A task recorded as succeeded ran its adapter to the end: neither an adapter
\* that returned Ok because it was cancelled, nor one that panicked or whose
\* process died, is taken for a success by execute_task.
SucceededMeansCompleted ==
    \A t \in Task : state[t] = "succeeded" => res[t] = "completed" /\ step[t] = Checkpoints

\* A cancellation is charged to its cause: a task that the timeout enforcer
\* stopped is never recorded as cancelled by a user, and one recorded as
\* timed out had its token cancelled and its timeout passed.
CancelCause ==
    \A t \in Task :
        /\ why[t] = "cancelledByUser" => token[t] \in {"user", "shutdown"}
        /\ state[t] = "timeout" => Cancelled(t) /\ age[t] = "overdue" /\ res[t] # "failed"

\* A row stays in state running only while a live worker has the task in its
\* batch or executes it, unless a failure (crash, panic, lost statement) or the
\* end of its process came in between.
HasKeeper(t) ==
    \/ \E w \in Worker : t \in batch[w]
    \/ epc[t] \in Executing

OrphanNeedsFailure ==
    \A t \in Task : state[t] = "running" => HasKeeper(t) \/ faults > 0 \/ epc[t] = "dead"

\* What cancel_task told its client stays true: a task reported canceled is
\* never finished otherwise by the worker that still executes it, and a
\* refused request named a task that is final.
CancelSticks ==
    \A t \in Task :
        /\ reply[t] = "canceled" => state[t] = "canceled"
        /\ reply[t] = "refused" => state[t] \in Terminal

\* The timeout enforcer and the control listener of a task do not outlive its
\* executor (the abort() calls of execute_task), except after a panic.
HelpersStopped ==
    \A t \in Task :
        epc[t] \notin {"adapter"} /\ res[t] # "panic" =>
            timer[t] = "off" /\ lst[t] = "off" /\ ~inbox[t]

\* Once run() is draining, every executor it started has a cancelled token,
\* those that the map active_tasks has already dropped included.
DrainCancelsAll ==
    \A w \in Worker, t \in Task :
        wpc[w] \in {"drain", "stopped"} /\ owner[t] = w /\ epc[t] \in Executing => Cancelled(t)

-----------------------------------------------------------------------------
(* Liveness, under FairSpec without failures. *)

\* Every claimed task is finished, or its worker's process ends: the chain claim,
\* dispatch, adapter, verdict never stops half way when adapters return on
\* cancellation.  A shutdown request alone loses nothing.
RunningFinishes ==
    \A t \in Task :
        state[t] = "running" /\ Adapter[t] # "hanging"
            ~> state[t] \in Terminal \/ epc[t] = "dead"

\* A requested shutdown makes run() return, whatever the adapters do.
ShutdownReturns == \A w \in Worker : shutdown[w] ~> wpc[w] = "stopped"

-----------------------------------------------------------------------------
(* Claims of the repository that the code does not keep. *)

\* orchestrator.rs: run() "continuously polls for tasks and executes them until
\* shutdown", so that a pending task is claimed sooner or later.
PendingIsClaimed == \A t \in Task : state[t] = "pending" ~> state[t] # "pending"

\* cancel_task.rs: the field canceled of the reply is "whether cancellation
\* was successful".
CanceledMeansCanceled ==
    \A t \in Task : reply[t] \in {"canceled", "canceledPending"} => state[t] = "canceled"

=============================================================================
