------------------------------- MODULE Worker -------------------------------
(***************************************************************************)
(* The execution of tasks: worker processes (WorkerOrchestrator::run), the *)
(* executor, adapter, timeout enforcer and control listener of every task  *)
(* they dispatch, and the cancel endpoint of the API, all acting on the    *)
(* tasks table.                                                            *)
(*                                                                         *)
(* Bounds: MaxFaults failures of the environment (crashes, panics, lost    *)
(* statements and connections) and MaxCalls cancel requests per behaviour. *)
(***************************************************************************)
EXTENDS TaskTable

CONSTANTS
    Worker,         \* worker processes
    NoWorker,       \* the owner of a task that no worker has taken
    MaxConcurrent,  \* OrchestratorConfig::max_concurrent_tasks
    Adapter,        \* Adapter[t]: what the adapter named by task t does
    Checkpoints,    \* loop iterations of an adapter between two cancellation checks
    DrainSeconds,   \* seconds the shutdown loop is ready to wait
    Stoppable,      \* workers whose shutdown token may be cancelled
    MaxFaults,      \* bound: failures of the environment
    MaxCalls        \* bound: cancel requests

(* "good" and "failing" check the token at every checkpoint, as the Adapter *)
(* trait asks; "hanging" never returns, "invalid" has arguments that        *)
(* validate_args refuses, "unknown" is not in the registry.                 *)
AdapterKind == {"good", "failing", "hanging", "invalid", "unknown"}

ASSUME WorkerAssumption ==
    /\ IsFiniteSet(Worker) /\ NoWorker \notin Worker
    /\ MaxConcurrent \in Nat \ {0}
    /\ Adapter \in [Task -> AdapterKind]
    /\ Checkpoints \in Nat \ {0}
    /\ DrainSeconds \in Nat
    /\ Stoppable \subseteq Worker
    /\ MaxFaults \in Nat
    /\ MaxCalls \in Nat

VARIABLES
    wpc,        \* where run() of a worker is: "poll", "claim", "dispatch", "drain",
                \* "stopped" (run returned), "down" (no process)
    batch,      \* claimed tasks that the dispatch loop has not reached
    active,     \* keys of the map active_tasks
    shutdown,   \* shutdown_token is cancelled
    remaining,  \* seconds left in the shutdown loop
    owner,      \* the worker that holds (or held) a task in its memory
    epc,        \* where execute_task is: "none", "validate", "adapter", "settle",
                \* "mark", "done", "dead" (its process went away)
    step,       \* checkpoints the adapter has passed
    res,        \* what the adapter task ended with
    token,      \* cancel_token: "none", "live", or who cancelled it first
    timer,      \* TimeoutEnforcer: "off", "armed", "grace", "expired"
    lst,        \* ControlListener: "off", "starting", "listening", "stopped"
    inbox,      \* a cancel message is waiting in the listener's subscription
    verdict,    \* what execute_task is about to write
    request,    \* the cancel request in progress: "idle" or "found"
    reply,      \* the last reply of cancel_task
    faults, calls

workerVars == <<wpc, batch, active, shutdown, remaining>>
execVars == <<epc, step, res, verdict>>
signalVars == <<token, timer, lst, inbox>>
apiVars == <<request, reply, calls>>
vars == <<table, workerVars, owner, execVars, signalVars, apiVars, faults>>

Verdict == {"none", "succeeded", "adapterError", "cancelledByUser", "timedOut"}
Canceller == {"user", "timer", "shutdown"}

WorkerTypeOK ==
    /\ wpc \in [Worker -> {"poll", "claim", "dispatch", "drain", "stopped", "down"}]
    /\ batch \in [Worker -> SUBSET Task]
    /\ active \in [Worker -> SUBSET Task]
    /\ shutdown \in [Worker -> BOOLEAN]
    /\ remaining \in [Worker -> 0 .. DrainSeconds]
    /\ owner \in [Task -> Worker \cup {NoWorker}]

ExecTypeOK ==
    /\ epc \in [Task -> {"none", "validate", "adapter", "settle", "mark", "done", "dead"}]
    /\ step \in [Task -> 0 .. Checkpoints]
    /\ res \in [Task -> {"none", "completed", "cancelled", "failed", "panic"}]
    /\ verdict \in [Task -> Verdict]

SignalTypeOK ==
    /\ token \in [Task -> {"none", "live"} \cup Canceller]
    /\ timer \in [Task -> {"off", "armed", "grace", "expired"}]
    /\ lst \in [Task -> {"off", "starting", "listening", "stopped"}]
    /\ inbox \in [Task -> BOOLEAN]

ApiTypeOK ==
    /\ request \in [Task -> {"idle", "found"}]
    /\ reply \in [Task -> {"none", "refused", "canceled", "canceledPending"}]
    /\ calls \in 0 .. MaxCalls

TypeOK ==
    /\ TableTypeOK /\ WorkerTypeOK /\ ExecTypeOK /\ SignalTypeOK /\ ApiTypeOK
    /\ faults \in 0 .. MaxFaults

Init ==
    /\ TableInit
    /\ wpc = [w \in Worker |-> "poll"]
    /\ batch = [w \in Worker |-> {}]
    /\ active = [w \in Worker |-> {}]
    /\ shutdown = [w \in Worker |-> FALSE]
    /\ remaining = [w \in Worker |-> DrainSeconds]
    /\ owner = [t \in Task |-> NoWorker]
    /\ epc = [t \in Task |-> "none"]
    /\ step = [t \in Task |-> 0]
    /\ res = [t \in Task |-> "none"]
    /\ verdict = [t \in Task |-> "none"]
    /\ token = [t \in Task |-> "none"]
    /\ timer = [t \in Task |-> "off"]
    /\ lst = [t \in Task |-> "off"]
    /\ inbox = [t \in Task |-> FALSE]
    /\ request = [t \in Task |-> "idle"]
    /\ reply = [t \in Task |-> "none"]
    /\ faults = 0
    /\ calls = 0

-----------------------------------------------------------------------------
(* Failures of the environment. *)

Fault == faults < MaxFaults /\ faults' = faults + 1

\* A mark_* statement as its callers use it: any error is only logged.
Mark(t, final, message) ==
    \/ MarkRow(t, final, message) /\ UNCHANGED faults
    \/ Fault /\ UNCHANGED table

\* CancellationToken::is_cancelled and cancel (the first canceller wins).
Cancelled(t) == token[t] \in Canceller
CancelledBy(t, who) == IF token[t] = "live" THEN who ELSE token[t]

-----------------------------------------------------------------------------
(* WorkerOrchestrator::run, one action per stretch between two awaits. *)

\* Mutant: the tasks that run already are not subtracted.
FreeSlots_Configured(w) == MaxConcurrent

FreeSlots(w) ==
    IF Cardinality(active[w]) < MaxConcurrent
    THEN MaxConcurrent - Cardinality(active[w])
    ELSE 0

\* At capacity the loop sleeps and starts again, without the clean-up below.
AtCapacity(w) ==
    /\ wpc[w] = "poll" /\ ~shutdown[w]
    /\ FreeSlots(w) = 0
    /\ UNCHANGED vars

Poll(w) ==
    /\ wpc[w] = "poll" /\ ~shutdown[w]
    /\ FreeSlots(w) > 0
    /\ wpc' = [wpc EXCEPT ![w] = "claim"]
    /\ UNCHANGED <<table, batch, active, shutdown, remaining, owner, execVars,
                   signalVars, apiVars, faults>>

ClaimNothing(w) ==
    /\ wpc[w] = "claim"
    /\ Pending = {}
    /\ wpc' = [wpc EXCEPT ![w] = "poll"]
    /\ UNCHANGED <<table, batch, active, shutdown, remaining, owner, execVars,
                   signalVars, apiVars, faults>>

ClaimTasks(w) ==
    /\ wpc[w] = "claim"
    /\ Pending # {}
    /\ \E S \in SUBSET Pending :
        /\ ClaimRows(S, FreeSlots(w))
        /\ batch' = [batch EXCEPT ![w] = S]
        /\ owner' = [t \in Task |-> IF t \in S THEN w ELSE owner[t]]
    /\ wpc' = [wpc EXCEPT ![w] = "dispatch"]
    /\ UNCHANGED <<active, shutdown, remaining, execVars, signalVars, apiVars, faults>>

\* claim_tasks returns an error: the statement was not run, or it was and
\* its rows are lost with the connection.
ClaimFails(w) ==
    /\ wpc[w] = "claim"
    /\ Fault
    /\ \/ UNCHANGED table
       \/ \E S \in SUBSET Pending : ClaimRows(S, FreeSlots(w))
    /\ wpc' = [wpc EXCEPT ![w] = "poll"]
    /\ UNCHANGED <<batch, active, shutdown, remaining, owner, execVars, signalVars, apiVars>>

\* One iteration of the dispatch loop and dispatch_task.
Dispatch(w, t) ==
    /\ wpc[w] = "dispatch" /\ t \in batch[w]
    /\ batch' = [batch EXCEPT ![w] = @ \ {t}]
    /\ active' = [active EXCEPT ![w] = @ \cup {t}]
    /\ token' = [token EXCEPT ![t] = "live"]
    /\ IF Adapter[t] = "unknown"
       THEN /\ Mark(t, "failed", "adapterNotFound")
            /\ epc' = [epc EXCEPT ![t] = "done"]
       ELSE /\ epc' = [epc EXCEPT ![t] = "validate"]
            /\ UNCHANGED <<table, faults>>
    /\ UNCHANGED <<wpc, shutdown, remaining, owner, step, res, verdict, timer, lst,
                   inbox, apiVars>>

\* Mutant: the map is emptied after every batch.
Retained_Nothing(w) == {}

\* active_tasks.retain(|_, token| !token.is_cancelled())
Retained(w) == {t \in active[w] : ~Cancelled(t)}

CleanUp(w) ==
    /\ wpc[w] = "dispatch" /\ batch[w] = {}
    /\ active' = [active EXCEPT ![w] = Retained(w)]
    /\ wpc' = [wpc EXCEPT ![w] = "poll"]
    /\ UNCHANGED <<table, batch, shutdown, remaining, owner, execVars, signalVars,
                   apiVars, faults>>

\* Mutant: the capacity check comes before the shutdown check.
Drain_AfterCapacity(w) ==
    /\ wpc[w] = "poll" /\ shutdown[w]
    /\ FreeSlots(w) > 0
    /\ token' = [t \in Task |-> IF t \in active[w] THEN CancelledBy(t, "shutdown") ELSE token[t]]
    /\ remaining' = [remaining EXCEPT ![w] = DrainSeconds]
    /\ wpc' = [wpc EXCEPT ![w] = "drain"]
    /\ UNCHANGED <<table, batch, active, shutdown, owner, execVars, timer, lst, inbox,
                   apiVars, faults>>

\* The shutdown branch: every active token is cancelled ...
Drain(w) ==
    /\ wpc[w] = "poll" /\ shutdown[w]
    /\ token' = [t \in Task |-> IF t \in active[w] THEN CancelledBy(t, "shutdown") ELSE token[t]]
    /\ remaining' = [remaining EXCEPT ![w] = DrainSeconds]
    /\ wpc' = [wpc EXCEPT ![w] = "drain"]
    /\ UNCHANGED <<table, batch, active, shutdown, owner, execVars, timer, lst, inbox,
                   apiVars, faults>>

\* Mutant: the loop condition forgets the countdown.
DrainTick_NoTimeout(w) ==
    /\ wpc[w] = "drain"
    /\ remaining' = [remaining EXCEPT ![w] = @ - 1]
    /\ active' = [active EXCEPT ![w] = Retained(w)]
    /\ UNCHANGED <<table, wpc, batch, shutdown, owner, execVars, signalVars, apiVars, faults>>

\* ... then the loop sleeps a second at a time while tasks are left in the map ...
DrainTick(w) ==
    /\ wpc[w] = "drain"
    /\ active[w] # {} /\ remaining[w] > 0
    /\ remaining' = [remaining EXCEPT ![w] = @ - 1]
    /\ active' = [active EXCEPT ![w] = Retained(w)]
    /\ UNCHANGED <<table, wpc, batch, shutdown, owner, execVars, signalVars, apiVars, faults>>

\* ... and run() returns.
DrainDone(w) ==
    /\ wpc[w] = "drain"
    /\ active[w] = {} \/ remaining[w] = 0
    /\ wpc' = [wpc EXCEPT ![w] = "stopped"]
    /\ UNCHANGED <<table, batch, active, shutdown, remaining, owner, execVars, signalVars,
                   apiVars, faults>>

\* Somebody cancels the token that shutdown_token() hands out.
RequestShutdown(w) ==
    /\ w \in Stoppable
    /\ wpc[w] \in {"poll", "claim", "dispatch"} /\ ~shutdown[w]
    /\ shutdown' = [shutdown EXCEPT ![w] = TRUE]
    /\ UNCHANGED <<table, wpc, batch, active, remaining, owner, execVars, signalVars,
                   apiVars, faults>>

\* The process goes away with everything that only its memory holds.
Executing == {"validate", "adapter", "settle", "mark"}

Held(w) == {t \in Task : owner[t] = w}

Kill(w) ==
    /\ wpc' = [wpc EXCEPT ![w] = "down"]
    /\ batch' = [batch EXCEPT ![w] = {}]
    /\ active' = [active EXCEPT ![w] = {}]
    /\ shutdown' = [shutdown EXCEPT ![w] = FALSE]
    /\ remaining' = [remaining EXCEPT ![w] = DrainSeconds]
    /\ epc' = [t \in Task |-> IF t \in batch[w] \/ (t \in Held(w) /\ epc[t] \in Executing)
                              THEN "dead" ELSE epc[t]]
    /\ timer' = [t \in Task |-> IF t \in Held(w) THEN "off" ELSE timer[t]]
    /\ lst' = [t \in Task |-> IF t \in Held(w) THEN "off" ELSE lst[t]]
    /\ inbox' = [t \in Task |-> IF t \in Held(w) THEN FALSE ELSE inbox[t]]
    /\ UNCHANGED <<table, owner, step, res, verdict, token, apiVars>>

Crash(w) == wpc[w] \notin {"stopped", "down"} /\ Fault /\ Kill(w)

\* The process that called run() ends after it returned.
Exit(w) == wpc[w] = "stopped" /\ Kill(w) /\ UNCHANGED faults

Restart(w) ==
    /\ wpc[w] = "down"
    /\ wpc' = [wpc EXCEPT ![w] = "poll"]
    /\ UNCHANGED <<table, batch, active, shutdown, remaining, owner, execVars, signalVars,
                   apiVars, faults>>

-----------------------------------------------------------------------------
(* execute_task, in a Tokio task of its own. *)

\* Mutant: the validation error is logged, the row is left as it is.
BadArguments_LogOnly(t) ==
    /\ epc[t] = "validate" /\ Adapter[t] = "invalid"
    /\ epc' = [epc EXCEPT ![t] = "done"]
    /\ UNCHANGED <<table, workerVars, owner, step, res, verdict, signalVars, apiVars, faults>>

BadArguments(t) ==
    /\ epc[t] = "validate" /\ Adapter[t] = "invalid"
    /\ Mark(t, "failed", "invalidArguments")
    /\ epc' = [epc EXCEPT ![t] = "done"]
    /\ UNCHANGED <<workerVars, owner, step, res, verdict, signalVars, apiVars>>

\* The timeout enforcer, the control listener and the adapter are spawned.
Start(t) ==
    /\ epc[t] = "validate" /\ Adapter[t] # "invalid"
    /\ epc' = [epc EXCEPT ![t] = "adapter"]
    /\ timer' = [timer EXCEPT ![t] = "armed"]
    /\ lst' = [lst EXCEPT ![t] = "starting"]
    /\ UNCHANGED <<table, workerVars, owner, step, res, verdict, token, inbox, apiVars, faults>>

\* One iteration of the adapter's loop: the cancellation check, then either
\* failure or progress; completion follows the last iteration without a wait.
AdapterRunning(t) == epc[t] = "adapter" /\ res[t] = "none"

AdapterStep(t) ==
    /\ AdapterRunning(t) /\ Adapter[t] # "hanging"
    /\ \/ /\ Cancelled(t)
          /\ res' = [res EXCEPT ![t] = "cancelled"]
          /\ UNCHANGED step
       \/ /\ ~Cancelled(t) /\ Adapter[t] = "failing"
          /\ res' = [res EXCEPT ![t] = "failed"]
          /\ UNCHANGED step
       \/ /\ ~Cancelled(t)
          /\ Adapter[t] = "failing" => step[t] + 1 < Checkpoints
          /\ step' = [step EXCEPT ![t] = @ + 1]
          /\ res' = [res EXCEPT ![t] = IF step[t] + 1 = Checkpoints THEN "completed" ELSE "none"]
    /\ UNCHANGED <<table, workerVars, owner, epc, verdict, signalVars, apiVars, faults>>

AdapterPanics(t) ==
    /\ AdapterRunning(t)
    /\ Fault
    /\ res' = [res EXCEPT ![t] = "panic"]
    /\ UNCHANGED <<table, workerVars, owner, epc, step, verdict, signalVars, apiVars>>

\* Mutant: the enforcer and the listener are not aborted.
Join_NoAbort(t) ==
    /\ epc[t] = "adapter" /\ res[t] \in {"completed", "cancelled", "failed"}
    /\ epc' = [epc EXCEPT ![t] = "settle"]
    /\ UNCHANGED <<table, workerVars, owner, step, res, verdict, signalVars, apiVars, faults>>

\* adapter_handle.await, and the two abort() calls.
Join(t) ==
    /\ epc[t] = "adapter" /\ res[t] \in {"completed", "cancelled", "failed"}
    /\ epc' = [epc EXCEPT ![t] = "settle"]
    /\ timer' = [timer EXCEPT ![t] = "off"]
    /\ lst' = [lst EXCEPT ![t] = "off"]
    /\ inbox' = [inbox EXCEPT ![t] = FALSE]
    /\ UNCHANGED <<table, workerVars, owner, step, res, verdict, token, apiVars, faults>>

\* A panic leaves through the "?" of adapter_handle.await: nothing is written
\* and neither the enforcer nor the listener is stopped.
JoinPanicked(t) ==
    /\ epc[t] = "adapter" /\ res[t] = "panic"
    /\ epc' = [epc EXCEPT ![t] = "done"]
    /\ UNCHANGED <<table, workerVars, owner, step, res, verdict, signalVars, apiVars, faults>>

\* Mutant: Ok(()) is taken for success without a look at the token.
VerdictOf_NoTokenCheck(t) == IF res[t] = "failed" THEN "adapterError" ELSE "succeeded"

\* Mutant: every cancelled token is charged to the user.
VerdictOf_NoElapsed(t) ==
    IF res[t] = "failed" THEN "adapterError"
    ELSE IF ~Cancelled(t) THEN "succeeded" ELSE "cancelledByUser"

\* After 100 ms for the last events: which mark_* to call.  A cancelled token
\* is charged to the timeout when started_at is timeout_seconds ago.
VerdictOf(t) ==
    IF res[t] = "failed" THEN "adapterError"
    ELSE IF ~Cancelled(t) THEN "succeeded"
    ELSE IF age[t] = "overdue" THEN "timedOut"
    ELSE "cancelledByUser"

Decide(t) ==
    /\ epc[t] = "settle"
    /\ \/ /\ epc' = [epc EXCEPT ![t] = "mark"]
          /\ verdict' = [verdict EXCEPT ![t] = VerdictOf(t)]
          /\ UNCHANGED faults
       \/ \* find_by_id fails: "Couldn't find task", nothing is written
          /\ res[t] # "failed" /\ Cancelled(t)
          /\ Fault
          /\ epc' = [epc EXCEPT ![t] = "done"]
          /\ UNCHANGED verdict
    /\ UNCHANGED <<table, workerVars, owner, step, res, signalVars, apiVars>>

FinalState(v) ==
    IF v = "succeeded" THEN "succeeded"
    ELSE IF v = "timedOut" THEN "timeout" ELSE "failed"

FinalMessage(v) == IF v = "succeeded" THEN "none" ELSE v

\* Mutant: an adapter's error is logged and not recorded.
WriteVerdict_LogErrors(t) ==
    /\ epc[t] = "mark"
    /\ IF verdict[t] = "adapterError"
       THEN UNCHANGED <<table, faults>>
       ELSE Mark(t, FinalState(verdict[t]), FinalMessage(verdict[t]))
    /\ epc' = [epc EXCEPT ![t] = "done"]
    /\ UNCHANGED <<workerVars, owner, step, res, verdict, signalVars, apiVars>>

WriteVerdict(t) ==
    /\ epc[t] = "mark"
    /\ Mark(t, FinalState(verdict[t]), FinalMessage(verdict[t]))
    /\ epc' = [epc EXCEPT ![t] = "done"]
    /\ UNCHANGED <<workerVars, owner, step, res, verdict, signalVars, apiVars>>

-----------------------------------------------------------------------------
(* TimeoutEnforcer::enforce.  It sleeps timeout_seconds from a moment after *)
(* the claim, so that it never wakes before the row is overdue.             *)

TimerFires(t) ==
    /\ timer[t] = "armed" /\ age[t] = "overdue"
    /\ timer' = [timer EXCEPT ![t] = IF Cancelled(t) THEN "off" ELSE "grace"]
    /\ token' = [token EXCEPT ![t] = CancelledBy(t, "timer")]
    /\ UNCHANGED <<table, workerVars, owner, execVars, lst, inbox, apiVars, faults>>

\* After the grace period the enforcer logs, and ends.
GraceExpires(t) ==
    /\ timer[t] = "grace"
    /\ timer' = [timer EXCEPT ![t] = "expired"]
    /\ UNCHANGED <<table, workerVars, owner, execVars, token, lst, inbox, apiVars, faults>>

-----------------------------------------------------------------------------
(* ControlListener: listen_loop, and ControlPublisher::send. *)

Subscribe(t) ==
    /\ lst[t] = "starting"
    /\ lst' = [lst EXCEPT ![t] = "listening"]
    /\ UNCHANGED <<table, workerVars, owner, execVars, token, timer, inbox, apiVars, faults>>

\* No connection, no subscription, or the end of the message stream.
ListenerFails(t) ==
    /\ lst[t] \in {"starting", "listening"}
    /\ Fault
    /\ lst' = [lst EXCEPT ![t] = "stopped"]
    /\ inbox' = [inbox EXCEPT ![t] = FALSE]
    /\ UNCHANGED <<table, workerVars, owner, execVars, token, timer, apiVars>>

\* Redis hands a published message to the subscribers of the moment only.
SendCancel(t) ==
    /\ lst[t] = "listening" /\ ~inbox[t]
    /\ inbox' = [inbox EXCEPT ![t] = TRUE]
    /\ UNCHANGED <<table, workerVars, owner, execVars, token, timer, lst, apiVars, faults>>

\* One turn of the loop that ends it: a cancel message, or a token that
\* somebody else cancelled.
ListenerEnds(t) ==
    /\ lst[t] = "listening"
    /\ inbox[t] \/ Cancelled(t)
    /\ lst' = [lst EXCEPT ![t] = "stopped"]
    /\ token' = [token EXCEPT ![t] = CancelledBy(t, "user")]
    /\ inbox' = [inbox EXCEPT ![t] = FALSE]
    /\ UNCHANGED <<table, workerVars, owner, execVars, timer, apiVars, faults>>

-----------------------------------------------------------------------------
(* The API: start_task inserts a row (its quotas are in module Quota),     *)
(* cancel_task reads the row and updates it in a second statement.         *)

StartTask(t) ==
    /\ InsertTask(t)
    /\ UNCHANGED <<workerVars, owner, execVars, signalVars, apiVars, faults>>

CancelFind(t) ==
    /\ calls < MaxCalls /\ request[t] = "idle" /\ state[t] # "none"
    /\ calls' = calls + 1
    /\ IF state[t] \in Terminal
       THEN reply' = [reply EXCEPT ![t] = "refused"] /\ UNCHANGED request
       ELSE request' = [request EXCEPT ![t] = "found"] /\ UNCHANGED reply
    /\ UNCHANGED <<table, workerVars, owner, execVars, signalVars, faults>>

CancelUpdate(t) ==
    /\ request[t] = "found"
    /\ CancelRow(t)
    /\ request' = [request EXCEPT ![t] = "idle"]
    /\ reply' = [reply EXCEPT ![t] = IF state[t] \in {"pending", "running"}
                                     THEN "canceled" ELSE "canceledPending"]
    /\ UNCHANGED <<workerVars, owner, execVars, signalVars, calls, faults>>

TimePasses(t) ==
    /\ Elapse(t)
    /\ UNCHANGED <<workerVars, owner, execVars, signalVars, apiVars, faults>>

-----------------------------------------------------------------------------
WorkerNext(w) ==
    \/ AtCapacity(w) \/ Poll(w) \/ ClaimNothing(w) \/ ClaimTasks(w) \/ ClaimFails(w)
    \/ (\E t \in Task : Dispatch(w, t)) \/ CleanUp(w)
    \/ Drain(w) \/ DrainTick(w) \/ DrainDone(w)
    \/ RequestShutdown(w) \/ Crash(w) \/ Exit(w) \/ Restart(w)

TaskNext(t) ==
    \/ BadArguments(t) \/ Start(t) \/ AdapterStep(t) \/ AdapterPanics(t)
    \/ Join(t) \/ JoinPanicked(t) \/ Decide(t) \/ WriteVerdict(t)
    \/ TimerFires(t) \/ GraceExpires(t)
    \/ Subscribe(t) \/ ListenerFails(t) \/ SendCancel(t) \/ ListenerEnds(t)
    \/ StartTask(t) \/ CancelFind(t) \/ CancelUpdate(t) \/ TimePasses(t)

Next == (\E w \in Worker : WorkerNext(w)) \/ (\E t \in Task : TaskNext(t))

Spec == Init /\ [][Next]_vars

(* Tokio polls every runnable task, timers fire and handlers return: weak   *)
(* fairness of every step the program takes by itself.  Nothing is assumed  *)
(* of clients, operators, failures or the adapters' choice to fail.         *)
WorkerStep(w) ==
    \/ Poll(w) \/ ClaimNothing(w) \/ ClaimTasks(w) \/ (\E t \in Task : Dispatch(w, t))
    \/ CleanUp(w) \/ Drain(w) \/ DrainTick(w) \/ DrainDone(w)

ExecutorStep(t) ==
    \/ BadArguments(t) \/ Start(t) \/ AdapterStep(t)
    \/ Join(t) \/ JoinPanicked(t) \/ Decide(t) \/ WriteVerdict(t)

Fairness ==
    /\ \A w \in Worker : WF_vars(WorkerStep(w))
    /\ \A t \in Task :
        /\ WF_vars(ExecutorStep(t))
        /\ WF_vars(TimerFires(t)) /\ WF_vars(GraceExpires(t))
        /\ WF_vars(Subscribe(t)) /\ WF_vars(ListenerEnds(t))
        /\ WF_vars(CancelUpdate(t)) /\ WF_vars(TimePasses(t))

FairSpec == Spec /\ Fairness
=============================================================================
