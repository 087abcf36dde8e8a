---------------------------- MODULE WorkerProofs ----------------------------
(***************************************************************************)
(* Proofs about Worker for every set of tasks and workers, every adapter   *)
(* and every bound.  The argument goes by layers: types; who holds a task  *)
(* (Ownership); what an executor knows of its adapter (Outcome); what the  *)
(* token knows of the clock (Cause); how many tasks a worker holds (Slots).*)
(***************************************************************************)
EXTENDS WorkerProperties, FiniteSetTheorems, TLAPS

-----------------------------------------------------------------------------
(* Types. *)

\* An adapter that has not returned has a checkpoint left.
StepBound == \A t \in Task : res[t] = "none" => step[t] < Checkpoints

\* Every variable keeps its type: in particular the shutdown countdown never
\* leaves 0 .. DrainSeconds and an adapter never passes its last checkpoint.
THEOREM TypeCorrect == Spec => [](TypeOK /\ StepBound)
<1> USE WorkerAssumption, TaskAssumption
    DEF TypeOK, TableTypeOK, WorkerTypeOK, ExecTypeOK, SignalTypeOK, ApiTypeOK, StepBound,
        vars, table, workerVars, execVars, signalVars, apiVars,
        TaskState, Terminal, Why, Verdict, Canceller, AdapterKind
<1> DEFINE TInv == TypeOK /\ StepBound
<1>1. Init => TInv
  BY DEF Init, TableInit
<1>2. TInv /\ [Next]_vars => TInv'
  <2> SUFFICES ASSUME TInv, [Next]_vars PROVE TInv'
    OBVIOUS
  <2>kill. ASSUME NEW w \in Worker, Kill(w), faults' \in 0 .. MaxFaults PROVE TInv'
    <3>1. TableTypeOK' /\ ApiTypeOK'
      BY <2>kill DEF Kill
    <3>2. WorkerTypeOK'
      BY <2>kill DEF Kill
    <3>3. ExecTypeOK' /\ StepBound'
      BY <2>kill DEF Kill, Held, Executing
    <3>4. SignalTypeOK'
      BY <2>kill DEF Kill, Held
    <3>. QED
      BY <2>kill, <3>1, <3>2, <3>3, <3>4
  <2>1. ASSUME NEW w \in Worker, AtCapacity(w) PROVE TInv'
    BY <2>1 DEF AtCapacity
  <2>2. ASSUME NEW w \in Worker, Poll(w) PROVE TInv'
    BY <2>2 DEF Poll
  <2>3. ASSUME NEW w \in Worker, ClaimNothing(w) PROVE TInv'
    BY <2>3 DEF ClaimNothing
  <2>4. ASSUME NEW w \in Worker, ClaimTasks(w) PROVE TInv'
    BY <2>4 DEF ClaimTasks, ClaimRows, IsOldestPending, Pending
  <2>5. ASSUME NEW w \in Worker, ClaimFails(w) PROVE TInv'
    BY <2>5 DEF ClaimFails, ClaimRows, IsOldestPending, Pending, Fault
  <2>6. ASSUME NEW w \in Worker, NEW t \in Task, Dispatch(w, t) PROVE TInv'
    <3>1. WorkerTypeOK'
      BY <2>6 DEF Dispatch
    <3>2. TableTypeOK' /\ faults' \in 0 .. MaxFaults
      <4>1. CASE Adapter[t] = "unknown"
        <5>1. Mark(t, "failed", "adapterNotFound")
          BY <2>6, <4>1 DEF Dispatch
        <5>. QED
          BY <5>1 DEF Mark, MarkRow, Markable, Fault
      <4>2. CASE Adapter[t] # "unknown"
        BY <2>6, <4>2 DEF Dispatch
      <4>. QED
        BY <4>1, <4>2
    <3>3. ExecTypeOK' /\ StepBound'
      <4>1. epc' \in [Task -> {"none", "validate", "adapter", "settle", "mark", "done",
                                 "dead"}]
        BY <2>6, SMTT(60) DEF Dispatch
      <4>. QED
        BY <4>1, <2>6 DEF Dispatch
    <3>4. SignalTypeOK' /\ ApiTypeOK'
      BY <2>6 DEF Dispatch
    <3>. QED
      BY <3>1, <3>2, <3>3, <3>4
  <2>7. ASSUME NEW w \in Worker, CleanUp(w) PROVE TInv'
    BY <2>7 DEF CleanUp, Retained, Cancelled
  <2>8. ASSUME NEW w \in Worker, Drain(w) PROVE TInv'
    BY <2>8 DEF Drain, CancelledBy, Cancelled
  <2>9. ASSUME NEW w \in Worker, DrainTick(w) PROVE TInv'
    BY <2>9 DEF DrainTick, Retained, Cancelled
  <2>10. ASSUME NEW w \in Worker, DrainDone(w) PROVE TInv'
    BY <2>10 DEF DrainDone
  <2>11. ASSUME NEW w \in Worker, RequestShutdown(w) PROVE TInv'
    BY <2>11 DEF RequestShutdown
  <2>12. ASSUME NEW w \in Worker, Crash(w) PROVE TInv'
    BY <2>12, <2>kill DEF Crash, Fault
  <2>13. ASSUME NEW w \in Worker, Exit(w) PROVE TInv'
    BY <2>13, <2>kill DEF Exit
  <2>14. ASSUME NEW w \in Worker, Restart(w) PROVE TInv'
    BY <2>14 DEF Restart
  <2>15. ASSUME NEW t \in Task, BadArguments(t) PROVE TInv'
    BY <2>15 DEF BadArguments, Mark, MarkRow, Markable, Fault
  <2>16. ASSUME NEW t \in Task, Start(t) PROVE TInv'
    BY <2>16 DEF Start
  <2>17. ASSUME NEW t \in Task, AdapterStep(t) PROVE TInv'
    BY <2>17, SMTT(60) DEF AdapterStep, AdapterRunning, Cancelled
  <2>18. ASSUME NEW t \in Task, AdapterPanics(t) PROVE TInv'
    BY <2>18 DEF AdapterPanics, AdapterRunning, Fault
  <2>19. ASSUME NEW t \in Task, Join(t) PROVE TInv'
    BY <2>19 DEF Join
  <2>20. ASSUME NEW t \in Task, JoinPanicked(t) PROVE TInv'
    BY <2>20 DEF JoinPanicked
  <2>21. ASSUME NEW t \in Task, Decide(t) PROVE TInv'
    BY <2>21 DEF Decide, VerdictOf, Cancelled, Fault
  <2>22. ASSUME NEW t \in Task, WriteVerdict(t) PROVE TInv'
    BY <2>22, SMTT(30) DEF WriteVerdict, Mark, MarkRow, Markable, Fault, FinalState, FinalMessage
  <2>23. ASSUME NEW t \in Task, TimerFires(t) PROVE TInv'
    BY <2>23 DEF TimerFires, CancelledBy, Cancelled
  <2>24. ASSUME NEW t \in Task, GraceExpires(t) PROVE TInv'
    BY <2>24 DEF GraceExpires
  <2>25. ASSUME NEW t \in Task, Subscribe(t) PROVE TInv'
    BY <2>25 DEF Subscribe
  <2>26. ASSUME NEW t \in Task, ListenerFails(t) PROVE TInv'
    BY <2>26 DEF ListenerFails, Fault
  <2>27. ASSUME NEW t \in Task, SendCancel(t) PROVE TInv'
    BY <2>27 DEF SendCancel
  <2>28. ASSUME NEW t \in Task, ListenerEnds(t) PROVE TInv'
    BY <2>28 DEF ListenerEnds, CancelledBy, Cancelled
  <2>29. ASSUME NEW t \in Task, StartTask(t) PROVE TInv'
    BY <2>29 DEF StartTask, InsertTask
  <2>30. ASSUME NEW t \in Task, CancelFind(t) PROVE TInv'
    BY <2>30 DEF CancelFind
  <2>31. ASSUME NEW t \in Task, CancelUpdate(t) PROVE TInv'
    BY <2>31 DEF CancelUpdate, CancelRow
  <2>32. ASSUME NEW t \in Task, TimePasses(t) PROVE TInv'
    BY <2>32 DEF TimePasses, Elapse
  <2>33. CASE UNCHANGED vars
    BY <2>33
  <2>. QED
    BY <2>1, <2>2, <2>3, <2>4, <2>5, <2>6, <2>7, <2>8, <2>9, <2>10, <2>11, <2>12, <2>13,
       <2>14, <2>15, <2>16, <2>17, <2>18, <2>19, <2>20, <2>21, <2>22, <2>23, <2>24,
       <2>25, <2>26, <2>27, <2>28, <2>29, <2>30, <2>31, <2>32, <2>33
    DEF Next, WorkerNext, TaskNext
<1>3. TInv => TypeOK /\ StepBound
  OBVIOUS
<1>. QED
  BY <1>1, <1>2, <1>3, PTL DEF Spec

-----------------------------------------------------------------------------
(* Who holds a task. *)

\* A task that waits to be claimed or dispatched has no executor and no token;
\* a task in the memory of a worker is that worker's, and its row was claimed; only
\* the dispatch loop has a batch.
Ownership ==
    /\ \A t \in Task :
        state[t] \in {"none", "pending"} => epc[t] = "none" /\ token[t] = "none"
    /\ \A w \in Worker : \A t \in batch[w] : epc[t] = "none" /\ token[t] = "none"
    /\ \A w \in Worker : \A t \in batch[w] \cup active[w] :
        owner[t] = w /\ state[t] \notin {"none", "pending"}
    /\ \A w \in Worker : wpc[w] # "dispatch" => batch[w] = {}

\* Ownership is inductive: SKIP LOCKED and the single UPDATE of claim_tasks are
\* all that the workers need to share the table.
THEOREM OwnershipInvariant == Spec => []Ownership
<1> USE WorkerAssumption
    DEF Ownership, vars, table, workerVars, execVars, signalVars, apiVars, TypeOK,
        TableTypeOK, WorkerTypeOK, ExecTypeOK, SignalTypeOK, ApiTypeOK
<1>1. Init => Ownership
  BY DEF Init, TableInit
<1>2. TypeOK /\ Ownership /\ [Next]_vars => Ownership'
  <2> SUFFICES ASSUME TypeOK, Ownership, [Next]_vars PROVE Ownership'
    OBVIOUS
  <2>1. ASSUME NEW w \in Worker, Poll(w) PROVE Ownership'
    BY <2>1 DEF Poll
  <2>2. ASSUME NEW w \in Worker, ClaimNothing(w) PROVE Ownership'
    BY <2>2 DEF ClaimNothing
  <2>3. ASSUME NEW w \in Worker, ClaimTasks(w) PROVE Ownership'
    BY <2>3 DEF ClaimTasks, ClaimRows, IsOldestPending, Pending
  <2>4. ASSUME NEW w \in Worker, ClaimFails(w) PROVE Ownership'
    BY <2>4 DEF ClaimFails, ClaimRows, IsOldestPending, Pending, Fault
  <2>5. ASSUME NEW w \in Worker, NEW t \in Task, Dispatch(w, t) PROVE Ownership'
    BY <2>5 DEF Dispatch, Mark, MarkRow, Markable, Fault
  <2>6. ASSUME NEW w \in Worker, CleanUp(w) PROVE Ownership'
    BY <2>6 DEF CleanUp, Retained, Cancelled
  <2>7. ASSUME NEW w \in Worker, Drain(w) PROVE Ownership'
    BY <2>7 DEF Drain, CancelledBy, Cancelled
  <2>8. ASSUME NEW w \in Worker, DrainTick(w) PROVE Ownership'
    BY <2>8 DEF DrainTick, Retained, Cancelled
  <2>9. ASSUME NEW w \in Worker, DrainDone(w) PROVE Ownership'
    BY <2>9 DEF DrainDone
  <2>10. ASSUME NEW w \in Worker, Crash(w) PROVE Ownership'
    BY <2>10 DEF Crash, Kill, Fault, Held, Executing
  <2>11. ASSUME NEW w \in Worker, Exit(w) PROVE Ownership'
    BY <2>11 DEF Exit, Kill, Held, Executing
  <2>12. ASSUME NEW w \in Worker, Restart(w) PROVE Ownership'
    BY <2>12 DEF Restart
  <2>13. ASSUME NEW t \in Task, BadArguments(t) PROVE Ownership'
    BY <2>13 DEF BadArguments, Mark, MarkRow, Markable, Fault
  <2>14. ASSUME NEW t \in Task, Start(t) PROVE Ownership'
    BY <2>14 DEF Start
  <2>15. ASSUME NEW t \in Task, Join(t) PROVE Ownership'
    BY <2>15 DEF Join
  <2>16. ASSUME NEW t \in Task, JoinPanicked(t) PROVE Ownership'
    BY <2>16 DEF JoinPanicked
  <2>17. ASSUME NEW t \in Task, Decide(t) PROVE Ownership'
    BY <2>17 DEF Decide, VerdictOf, Cancelled, Fault
  <2>18. ASSUME NEW t \in Task, WriteVerdict(t) PROVE Ownership'
    BY <2>18 DEF WriteVerdict, Mark, MarkRow, Markable, Fault, FinalState, FinalMessage
  <2>19. ASSUME NEW t \in Task, TimerFires(t) PROVE Ownership'
    BY <2>19 DEF TimerFires, CancelledBy, Cancelled
  <2>20. ASSUME NEW t \in Task, ListenerEnds(t) PROVE Ownership'
    BY <2>20 DEF ListenerEnds, CancelledBy, Cancelled
  <2>21. ASSUME NEW t \in Task, StartTask(t) PROVE Ownership'
    BY <2>21 DEF StartTask, InsertTask
  <2>22. ASSUME NEW t \in Task, CancelUpdate(t) PROVE Ownership'
    BY <2>22 DEF CancelUpdate, CancelRow
  <2>23. ASSUME UNCHANGED <<state, wpc, batch, active, owner, epc, token>> PROVE Ownership'
    BY <2>23 DEF Cancelled
  <2>. QED
    BY <2>1, <2>2, <2>3, <2>4, <2>5, <2>6, <2>7, <2>8, <2>9, <2>10, <2>11, <2>12, <2>13,
       <2>14, <2>15, <2>16, <2>17, <2>18, <2>19, <2>20, <2>21, <2>22, <2>23
    DEF Next, WorkerNext, TaskNext, vars, table, workerVars, execVars, signalVars,
        apiVars, AtCapacity, RequestShutdown, AdapterStep, AdapterPanics, GraceExpires,
        Subscribe, ListenerFails, SendCancel, CancelFind, TimePasses, ClaimRows, Elapse,
        InsertTask, CancelRow
<1>. QED
  BY <1>1, <1>2, TypeCorrect, PTL DEF Spec

\* A task is in the memory of one worker at most, and is executed once.
THEOREM ExclusiveHolds == Spec => []Exclusive
<1>1. TypeOK /\ Ownership => Exclusive
  BY DEF Ownership, Exclusive, TypeOK, WorkerTypeOK
<1>. QED
  BY <1>1, TypeCorrect, OwnershipInvariant, PTL

-----------------------------------------------------------------------------
(* What an executor knows of its adapter. *)

\* From dispatch to verdict the row is running or canceled, the verdict is made
\* after the adapter returned, and it is "succeeded" only if the adapter ran to
\* its end; an adapter that stopped early saw a cancelled token.
Outcome ==
    \A t \in Task :
        /\ epc[t] \in {"none", "validate", "adapter", "settle", "mark"} =>
               state[t] \notin {"succeeded", "failed", "timeout"} /\ why[t] = "none"
        /\ epc[t] \in {"none", "validate"} => res[t] = "none"
        /\ epc[t] \in {"settle", "mark"} => res[t] \in {"completed", "cancelled", "failed"}
        /\ epc[t] \in {"none", "validate", "adapter", "settle"} => verdict[t] = "none"
        /\ epc[t] = "mark" => verdict[t] # "none"
        /\ res[t] = "cancelled" => Cancelled(t)
        /\ res[t] = "completed" => step[t] = Checkpoints
        /\ verdict[t] = "succeeded" => res[t] = "completed"
        /\ state[t] = "succeeded" => res[t] = "completed"

\* Outcome is inductive.
THEOREM OutcomeInvariant == Spec => []Outcome
<1> USE WorkerAssumption
    DEF Outcome, Cancelled, Canceller, Verdict, vars, table, workerVars, execVars,
        signalVars, apiVars, TypeOK, TableTypeOK, WorkerTypeOK, ExecTypeOK,
        SignalTypeOK, ApiTypeOK
<1>1. Init => Outcome
  BY DEF Init, TableInit
<1>2. TypeOK /\ Ownership /\ Outcome /\ [Next]_vars => Outcome'
  <2> SUFFICES ASSUME TypeOK, Ownership, Outcome, [Next]_vars PROVE Outcome'
    OBVIOUS
  <2>1. ASSUME NEW w \in Worker, ClaimTasks(w) PROVE Outcome'
    BY <2>1 DEF ClaimTasks, ClaimRows, IsOldestPending, Pending
  <2>2. ASSUME NEW w \in Worker, ClaimFails(w) PROVE Outcome'
    BY <2>2 DEF ClaimFails, ClaimRows, IsOldestPending, Pending, Fault
  <2>3. ASSUME NEW w \in Worker, NEW t \in Task, Dispatch(w, t) PROVE Outcome'
    BY <2>3 DEF Dispatch, Mark, MarkRow, Markable, Fault, Ownership
  <2>4. ASSUME NEW w \in Worker, Drain(w) PROVE Outcome'
    BY <2>4 DEF Drain, CancelledBy, Cancelled
  <2>5. ASSUME NEW w \in Worker, Crash(w) PROVE Outcome'
    BY <2>5 DEF Crash, Kill, Fault, Held, Executing
  <2>6. ASSUME NEW w \in Worker, Exit(w) PROVE Outcome'
    BY <2>6 DEF Exit, Kill, Held, Executing
  <2>7. ASSUME NEW t \in Task, BadArguments(t) PROVE Outcome'
    BY <2>7 DEF BadArguments, Mark, MarkRow, Markable, Fault
  <2>8. ASSUME NEW t \in Task, Start(t) PROVE Outcome'
    BY <2>8 DEF Start
  <2>9. ASSUME NEW t \in Task, AdapterStep(t) PROVE Outcome'
    BY <2>9 DEF AdapterStep, AdapterRunning, Cancelled
  <2>10. ASSUME NEW t \in Task, AdapterPanics(t) PROVE Outcome'
    BY <2>10 DEF AdapterPanics, AdapterRunning, Fault
  <2>11. ASSUME NEW t \in Task, Join(t) PROVE Outcome'
    BY <2>11 DEF Join
  <2>12. ASSUME NEW t \in Task, JoinPanicked(t) PROVE Outcome'
    BY <2>12 DEF JoinPanicked
  <2>13. ASSUME NEW t \in Task, Decide(t) PROVE Outcome'
    BY <2>13 DEF Decide, VerdictOf, Cancelled, Fault
  <2>14. ASSUME NEW t \in Task, WriteVerdict(t) PROVE Outcome'
    BY <2>14 DEF WriteVerdict, Mark, MarkRow, Markable, Fault, FinalState, FinalMessage
  <2>15. ASSUME NEW t \in Task, TimerFires(t) PROVE Outcome'
    BY <2>15 DEF TimerFires, CancelledBy, Cancelled
  <2>16. ASSUME NEW t \in Task, ListenerEnds(t) PROVE Outcome'
    BY <2>16 DEF ListenerEnds, CancelledBy, Cancelled
  <2>17. ASSUME NEW t \in Task, StartTask(t) PROVE Outcome'
    BY <2>17 DEF StartTask, InsertTask
  <2>18. ASSUME NEW t \in Task, CancelUpdate(t) PROVE Outcome'
    BY <2>18 DEF CancelUpdate, CancelRow
  <2>19. ASSUME UNCHANGED <<state, why, epc, step, res, verdict, token>> PROVE Outcome'
    BY <2>19 DEF Cancelled
  <2>. QED
    BY <2>1, <2>2, <2>3, <2>4, <2>5, <2>6, <2>7, <2>8, <2>9, <2>10, <2>11, <2>12, <2>13,
       <2>14, <2>15, <2>16, <2>17, <2>18, <2>19
    DEF Next, WorkerNext, TaskNext, vars, table, workerVars, execVars, signalVars,
        apiVars, AtCapacity, Poll, ClaimNothing, CleanUp, DrainTick, DrainDone,
        RequestShutdown, Restart, GraceExpires, Subscribe, ListenerFails, SendCancel,
        CancelFind, TimePasses, ClaimRows, Elapse, InsertTask, CancelRow
<1>. QED
  BY <1>1, <1>2, TypeCorrect, OwnershipInvariant, PTL DEF Spec

\* A success is never recorded for an adapter that did not finish.
THEOREM SucceededMeansCompletedHolds == Spec => []SucceededMeansCompleted
<1>1. TypeOK /\ Outcome => SucceededMeansCompleted
  BY DEF Outcome, SucceededMeansCompleted
<1>. QED
  BY <1>1, TypeCorrect, OutcomeInvariant, PTL

-----------------------------------------------------------------------------
(* What a token knows of the clock. *)

\* The enforcer cancels only when the row is overdue, a verdict repeats what the
\* token and the row said when it was made, and both stay so until it is written.
Cause ==
    \A t \in Task :
        /\ token[t] = "timer" => age[t] = "overdue"
        /\ verdict[t] = "cancelledByUser" => token[t] \in {"user", "shutdown"}
        /\ verdict[t] = "timedOut" => Cancelled(t) /\ age[t] = "overdue" /\ res[t] # "failed"
        /\ why[t] = "cancelledByUser" => token[t] \in {"user", "shutdown"}
        /\ state[t] = "timeout" => Cancelled(t) /\ age[t] = "overdue" /\ res[t] # "failed"

\* Cause is inductive, with Ownership (a task is claimed and dispatched once) and
\* Outcome (a result is not replaced once there is a verdict).
THEOREM CauseInvariant == Spec => []Cause
<1> USE WorkerAssumption
    DEF Cause, Cancelled, Canceller, Verdict, vars, table, workerVars, execVars,
        signalVars, apiVars, TypeOK, TableTypeOK, WorkerTypeOK, ExecTypeOK,
        SignalTypeOK, ApiTypeOK
<1>1. Init => Cause
  BY DEF Init, TableInit
<1>2. TypeOK /\ Ownership /\ Outcome /\ Cause /\ [Next]_vars => Cause'
  <2> SUFFICES ASSUME TypeOK, Ownership, Outcome, Cause, [Next]_vars PROVE Cause'
    OBVIOUS
  <2>1. ASSUME NEW w \in Worker, ClaimTasks(w) PROVE Cause'
    BY <2>1 DEF ClaimTasks, ClaimRows, IsOldestPending, Pending, Ownership, Outcome
  <2>2. ASSUME NEW w \in Worker, ClaimFails(w) PROVE Cause'
    BY <2>2 DEF ClaimFails, ClaimRows, IsOldestPending, Pending, Fault, Ownership, Outcome
  <2>3. ASSUME NEW w \in Worker, NEW t \in Task, Dispatch(w, t) PROVE Cause'
    BY <2>3 DEF Dispatch, Mark, MarkRow, Markable, Fault, Ownership, Outcome
  <2>4. ASSUME NEW w \in Worker, Drain(w) PROVE Cause'
    BY <2>4 DEF Drain, CancelledBy, Cancelled
  <2>5. ASSUME NEW w \in Worker, Crash(w) PROVE Cause'
    BY <2>5 DEF Crash, Kill, Fault, Held, Executing
  <2>6. ASSUME NEW w \in Worker, Exit(w) PROVE Cause'
    BY <2>6 DEF Exit, Kill, Held, Executing
  <2>7. ASSUME NEW t \in Task, BadArguments(t) PROVE Cause'
    BY <2>7 DEF BadArguments, Mark, MarkRow, Markable, Fault
  <2>8. ASSUME NEW t \in Task, Start(t) PROVE Cause'
    BY <2>8 DEF Start
  <2>9. ASSUME NEW t \in Task, AdapterStep(t) PROVE Cause'
    BY <2>9 DEF AdapterStep, AdapterRunning, Outcome
  <2>10. ASSUME NEW t \in Task, AdapterPanics(t) PROVE Cause'
    BY <2>10 DEF AdapterPanics, AdapterRunning, Fault, Outcome
  <2>11. ASSUME NEW t \in Task, Join(t) PROVE Cause'
    BY <2>11 DEF Join
  <2>12. ASSUME NEW t \in Task, JoinPanicked(t) PROVE Cause'
    BY <2>12 DEF JoinPanicked
  <2>13. ASSUME NEW t \in Task, Decide(t) PROVE Cause'
    BY <2>13 DEF Decide, VerdictOf, Fault, Outcome
  <2>14. ASSUME NEW t \in Task, WriteVerdict(t) PROVE Cause'
    BY <2>14 DEF WriteVerdict, Mark, MarkRow, Markable, Fault, FinalState, FinalMessage, Outcome
  <2>15. ASSUME NEW t \in Task, TimerFires(t) PROVE Cause'
    BY <2>15 DEF TimerFires, CancelledBy, Cancelled
  <2>16. ASSUME NEW t \in Task, ListenerEnds(t) PROVE Cause'
    BY <2>16 DEF ListenerEnds, CancelledBy, Cancelled
  <2>17. ASSUME NEW t \in Task, StartTask(t) PROVE Cause'
    BY <2>17 DEF StartTask, InsertTask
  <2>18. ASSUME NEW t \in Task, CancelUpdate(t) PROVE Cause'
    BY <2>18 DEF CancelUpdate, CancelRow
  <2>19. ASSUME NEW t \in Task, TimePasses(t) PROVE Cause'
    BY <2>19 DEF TimePasses, Elapse
  <2>20. ASSUME UNCHANGED <<state, why, age, epc, res, verdict, token>> PROVE Cause'
    BY <2>20 DEF Cancelled
  <2>. QED
    BY <2>1, <2>2, <2>3, <2>4, <2>5, <2>6, <2>7, <2>8, <2>9, <2>10, <2>11, <2>12, <2>13,
       <2>14, <2>15, <2>16, <2>17, <2>18, <2>19, <2>20
    DEF Next, WorkerNext, TaskNext, vars, table, workerVars, execVars, signalVars,
        apiVars, AtCapacity, Poll, ClaimNothing, CleanUp, DrainTick, DrainDone,
        RequestShutdown, Restart, GraceExpires, Subscribe, ListenerFails, SendCancel,
        CancelFind, ClaimRows, Elapse, InsertTask, CancelRow
<1>. QED
  BY <1>1, <1>2, TypeCorrect, OwnershipInvariant, OutcomeInvariant, PTL DEF Spec

\* A timeout is never recorded as a user's cancellation, nor the reverse.
THEOREM CancelCauseHolds == Spec => []CancelCause
<1>1. Cause => CancelCause
  BY DEF Cause, CancelCause
<1>. QED
  BY <1>1, CauseInvariant, PTL

-----------------------------------------------------------------------------
(* What outlives an executor, and what outlives a cancel request. *)

\* The two abort() calls of execute_task come before anything that can end it,
\* except a panic: no enforcer and no listener is left behind.
THEOREM HelpersStoppedHolds == Spec => []HelpersStopped
<1> USE WorkerAssumption
    DEF HelpersStopped, Cancelled, Canceller, Verdict, vars, table, workerVars,
        execVars, signalVars, apiVars, TypeOK, TableTypeOK, WorkerTypeOK, ExecTypeOK,
        SignalTypeOK, ApiTypeOK
<1>1. Init => HelpersStopped
  BY DEF Init, TableInit
<1>2. TypeOK /\ Ownership /\ Outcome /\ HelpersStopped /\ [Next]_vars => HelpersStopped'
  <2> SUFFICES ASSUME TypeOK, Ownership, Outcome, HelpersStopped, [Next]_vars PROVE HelpersStopped'
    OBVIOUS
  <2>1. ASSUME NEW w \in Worker, NEW t \in Task, Dispatch(w, t) PROVE HelpersStopped'
    BY <2>1 DEF Dispatch, Ownership
  <2>2. ASSUME NEW w \in Worker, Crash(w) PROVE HelpersStopped'
    BY <2>2 DEF Crash, Kill, Fault, Held, Executing, Ownership
  <2>3. ASSUME NEW w \in Worker, Exit(w) PROVE HelpersStopped'
    BY <2>3 DEF Exit, Kill, Held, Executing, Ownership
  <2>4. ASSUME NEW t \in Task, BadArguments(t) PROVE HelpersStopped'
    BY <2>4 DEF BadArguments, Mark, MarkRow, Markable, Fault
  <2>5. ASSUME NEW t \in Task, Start(t) PROVE HelpersStopped'
    BY <2>5 DEF Start
  <2>6. ASSUME NEW t \in Task, AdapterStep(t) PROVE HelpersStopped'
    BY <2>6 DEF AdapterStep, AdapterRunning, Cancelled
  <2>7. ASSUME NEW t \in Task, AdapterPanics(t) PROVE HelpersStopped'
    BY <2>7 DEF AdapterPanics, AdapterRunning, Fault
  <2>8. ASSUME NEW t \in Task, Join(t) PROVE HelpersStopped'
    BY <2>8 DEF Join
  <2>9. ASSUME NEW t \in Task, JoinPanicked(t) PROVE HelpersStopped'
    BY <2>9 DEF JoinPanicked
  <2>10. ASSUME NEW t \in Task, Decide(t) PROVE HelpersStopped'
    BY <2>10 DEF Decide, VerdictOf, Cancelled, Fault
  <2>11. ASSUME NEW t \in Task, WriteVerdict(t) PROVE HelpersStopped'
    BY <2>11 DEF WriteVerdict, Mark, MarkRow, Markable, Fault, FinalState, FinalMessage
  <2>12. ASSUME NEW t \in Task, TimerFires(t) PROVE HelpersStopped'
    BY <2>12 DEF TimerFires, CancelledBy, Cancelled
  <2>13. ASSUME NEW t \in Task, GraceExpires(t) PROVE HelpersStopped'
    BY <2>13 DEF GraceExpires
  <2>14. ASSUME NEW t \in Task, Subscribe(t) PROVE HelpersStopped'
    BY <2>14 DEF Subscribe
  <2>15. ASSUME NEW t \in Task, ListenerFails(t) PROVE HelpersStopped'
    BY <2>15 DEF ListenerFails, Fault
  <2>16. ASSUME NEW t \in Task, SendCancel(t) PROVE HelpersStopped'
    BY <2>16 DEF SendCancel
  <2>17. ASSUME NEW t \in Task, ListenerEnds(t) PROVE HelpersStopped'
    BY <2>17 DEF ListenerEnds, CancelledBy, Cancelled
  <2>18. ASSUME UNCHANGED <<epc, res, timer, lst, inbox>> PROVE HelpersStopped'
    BY <2>18
  <2>. QED
    BY <2>1, <2>2, <2>3, <2>4, <2>5, <2>6, <2>7, <2>8, <2>9, <2>10, <2>11, <2>12, <2>13,
       <2>14, <2>15, <2>16, <2>17, <2>18
    DEF Next, WorkerNext, TaskNext, vars, table, workerVars, execVars, signalVars,
        apiVars, AtCapacity, Poll, ClaimNothing, ClaimTasks, ClaimFails, CleanUp, Drain,
        DrainTick, DrainDone, RequestShutdown, Restart, StartTask, CancelFind,
        CancelUpdate, TimePasses, ClaimRows, Elapse, InsertTask, CancelRow
<1>. QED
  BY <1>1, <1>2, TypeCorrect, OwnershipInvariant, OutcomeInvariant, PTL DEF Spec

\* What cancel_task answered stays true: the guards "AND state = 'running'" of the
\* worker's statements keep a canceled row canceled.
THEOREM CancelSticksHolds == Spec => []CancelSticks
<1> USE WorkerAssumption
    DEF CancelSticks, Terminal, Cancelled, Canceller, Verdict, vars, table, workerVars,
        execVars, signalVars, apiVars, TypeOK, TableTypeOK, WorkerTypeOK, ExecTypeOK,
        SignalTypeOK, ApiTypeOK
<1>1. Init => CancelSticks
  BY DEF Init, TableInit
<1>2. TypeOK /\ CancelSticks /\ [Next]_vars => CancelSticks'
  <2> SUFFICES ASSUME TypeOK, CancelSticks, [Next]_vars PROVE CancelSticks'
    OBVIOUS
  <2>1. ASSUME NEW w \in Worker, ClaimTasks(w) PROVE CancelSticks'
    BY <2>1 DEF ClaimTasks, ClaimRows, IsOldestPending, Pending
  <2>2. ASSUME NEW w \in Worker, ClaimFails(w) PROVE CancelSticks'
    BY <2>2 DEF ClaimFails, ClaimRows, IsOldestPending, Pending, Fault
  <2>3. ASSUME NEW w \in Worker, NEW t \in Task, Dispatch(w, t) PROVE CancelSticks'
    BY <2>3 DEF Dispatch, Mark, MarkRow, Markable
  <2>4. ASSUME NEW t \in Task, BadArguments(t) PROVE CancelSticks'
    BY <2>4 DEF BadArguments, Mark, MarkRow, Markable, Fault
  <2>5. ASSUME NEW t \in Task, WriteVerdict(t) PROVE CancelSticks'
    BY <2>5 DEF WriteVerdict, Mark, MarkRow, Markable, Fault, FinalState, FinalMessage
  <2>6. ASSUME NEW t \in Task, StartTask(t) PROVE CancelSticks'
    BY <2>6 DEF StartTask, InsertTask
  <2>7. ASSUME NEW t \in Task, CancelFind(t) PROVE CancelSticks'
    BY <2>7 DEF CancelFind
  <2>8. ASSUME NEW t \in Task, CancelUpdate(t) PROVE CancelSticks'
    BY <2>8 DEF CancelUpdate, CancelRow
  <2>9. ASSUME UNCHANGED <<state, reply>> PROVE CancelSticks'
    BY <2>9
  <2>. QED
    BY <2>1, <2>2, <2>3, <2>4, <2>5, <2>6, <2>7, <2>8, <2>9, ZenonT(60)
    DEF Next, WorkerNext, TaskNext, vars, table, workerVars, execVars, signalVars,
        apiVars, AtCapacity, Poll, ClaimNothing, CleanUp, Drain, DrainTick, DrainDone,
        RequestShutdown, Crash, Exit, Restart, Start, AdapterStep, AdapterPanics, Join,
        JoinPanicked, Decide, TimerFires, GraceExpires, Subscribe, ListenerFails,
        SendCancel, ListenerEnds, TimePasses, Kill, ClaimRows, Elapse, InsertTask,
        CancelRow
<1>. QED
  BY <1>1, <1>2, TypeCorrect, PTL DEF Spec

\* Until the token of an executing task is cancelled, the worker that dispatched it
\* keeps it in active_tasks: the Drain branch reaches it.
Reachable ==
    \A w \in Worker, t \in Task :
        owner[t] = w /\ epc[t] \in Executing /\ ~Cancelled(t) =>
            token[t] = "live" /\ t \in active[w] /\ wpc[w] \notin {"drain", "stopped"}

\* Reachable is inductive: retain() drops only tokens that are cancelled.
THEOREM ReachableInvariant == Spec => []Reachable
<1> USE WorkerAssumption
    DEF Reachable, Executing, Cancelled, Canceller, Verdict, vars, table, workerVars,
        execVars, signalVars, apiVars, TypeOK, TableTypeOK, WorkerTypeOK, ExecTypeOK,
        SignalTypeOK, ApiTypeOK
<1>1. Init => Reachable
  BY DEF Init, TableInit
<1>2. TypeOK /\ Ownership /\ Reachable /\ [Next]_vars => Reachable'
  <2> SUFFICES ASSUME TypeOK, Ownership, Reachable, [Next]_vars PROVE Reachable'
    OBVIOUS
  <2>1. ASSUME NEW w \in Worker, Poll(w) PROVE Reachable'
    BY <2>1 DEF Poll
  <2>2. ASSUME NEW w \in Worker, ClaimNothing(w) PROVE Reachable'
    BY <2>2 DEF ClaimNothing
  <2>3. ASSUME NEW w \in Worker, ClaimTasks(w) PROVE Reachable'
    BY <2>3 DEF ClaimTasks, ClaimRows, IsOldestPending, Pending, Ownership
  <2>4. ASSUME NEW w \in Worker, ClaimFails(w) PROVE Reachable'
    BY <2>4 DEF ClaimFails, ClaimRows, IsOldestPending, Pending, Fault
  <2>5. ASSUME NEW w \in Worker, NEW t \in Task, Dispatch(w, t) PROVE Reachable'
    BY <2>5 DEF Dispatch, Ownership
  <2>6. ASSUME NEW w \in Worker, CleanUp(w) PROVE Reachable'
    BY <2>6 DEF CleanUp, Retained, Cancelled
  <2>7. ASSUME NEW w \in Worker, Drain(w) PROVE Reachable'
    BY <2>7 DEF Drain, CancelledBy, Cancelled
  <2>8. ASSUME NEW w \in Worker, DrainTick(w) PROVE Reachable'
    BY <2>8 DEF DrainTick, Retained, Cancelled
  <2>9. ASSUME NEW w \in Worker, DrainDone(w) PROVE Reachable'
    BY <2>9 DEF DrainDone
  <2>10. ASSUME NEW w \in Worker, Crash(w) PROVE Reachable'
    BY <2>10 DEF Crash, Kill, Held, Ownership
  <2>11. ASSUME NEW w \in Worker, Exit(w) PROVE Reachable'
    BY <2>11 DEF Exit, Kill, Held, Ownership
  <2>12. ASSUME NEW w \in Worker, Restart(w) PROVE Reachable'
    BY <2>12 DEF Restart
  <2>13. ASSUME NEW t \in Task, BadArguments(t) PROVE Reachable'
    BY <2>13 DEF BadArguments, Mark, MarkRow, Markable, Fault
  <2>14. ASSUME NEW t \in Task, Start(t) PROVE Reachable'
    BY <2>14 DEF Start
  <2>15. ASSUME NEW t \in Task, Join(t) PROVE Reachable'
    BY <2>15 DEF Join
  <2>16. ASSUME NEW t \in Task, JoinPanicked(t) PROVE Reachable'
    BY <2>16 DEF JoinPanicked
  <2>17. ASSUME NEW t \in Task, Decide(t) PROVE Reachable'
    BY <2>17 DEF Decide, VerdictOf, Cancelled, Fault
  <2>18. ASSUME NEW t \in Task, WriteVerdict(t) PROVE Reachable'
    BY <2>18 DEF WriteVerdict, Mark, MarkRow, Markable, Fault, FinalState, FinalMessage
  <2>19. ASSUME NEW t \in Task, TimerFires(t) PROVE Reachable'
    BY <2>19 DEF TimerFires, CancelledBy, Cancelled
  <2>20. ASSUME NEW t \in Task, ListenerEnds(t) PROVE Reachable'
    BY <2>20 DEF ListenerEnds, CancelledBy, Cancelled
  <2>21. ASSUME UNCHANGED <<wpc, active, owner, epc, token>> PROVE Reachable'
    BY <2>21 DEF Cancelled
  <2>. QED
    BY <2>1, <2>2, <2>3, <2>4, <2>5, <2>6, <2>7, <2>8, <2>9, <2>10, <2>11, <2>12, <2>13,
       <2>14, <2>15, <2>16, <2>17, <2>18, <2>19, <2>20, <2>21, SMTT(30)
    DEF Next, WorkerNext, TaskNext, vars, table, workerVars, execVars, signalVars,
        apiVars, AtCapacity, RequestShutdown, AdapterStep, AdapterPanics, GraceExpires,
        Subscribe, ListenerFails, SendCancel, StartTask, CancelFind, CancelUpdate,
        TimePasses, ClaimRows, Elapse, InsertTask, CancelRow
<1>. QED
  BY <1>1, <1>2, TypeCorrect, OwnershipInvariant, PTL DEF Spec

\* A worker that drains has told every task it still executes.
THEOREM DrainCancelsAllHolds == Spec => []DrainCancelsAll
<1>1. Reachable => DrainCancelsAll
  BY DEF Reachable, DrainCancelsAll
<1>. QED
  BY <1>1, ReachableInvariant, PTL

\* A panic is a failure of the environment.
Orphan == OrphanNeedsFailure /\ (\A t \in Task : res[t] = "panic" => faults > 0)

\* Orphan is inductive.
THEOREM OrphanInvariant == Spec => []Orphan
<1> USE WorkerAssumption
    DEF Orphan, OrphanNeedsFailure, HasKeeper, Executing, Cancelled, Canceller, Verdict,
        vars, table, workerVars, execVars, signalVars, apiVars, TypeOK, TableTypeOK,
        WorkerTypeOK, ExecTypeOK, SignalTypeOK, ApiTypeOK
<1>1. Init => Orphan
  BY DEF Init, TableInit
<1>2. TypeOK /\ Ownership /\ Orphan /\ [Next]_vars => Orphan'
  <2> SUFFICES ASSUME TypeOK, Ownership, Orphan, [Next]_vars PROVE Orphan'
    OBVIOUS
  <2>1. ASSUME NEW w \in Worker, ClaimTasks(w) PROVE Orphan'
    BY <2>1, SMTT(60) DEF ClaimTasks, ClaimRows, IsOldestPending, Pending, Ownership
  <2>2. ASSUME NEW w \in Worker, ClaimFails(w) PROVE Orphan'
    BY <2>2 DEF ClaimFails, ClaimRows, IsOldestPending, Pending, Fault
  <2>3. ASSUME NEW w \in Worker, NEW t \in Task, Dispatch(w, t) PROVE Orphan'
    BY <2>3, SMTT(30) DEF Dispatch, Mark, MarkRow, Markable, Fault, Ownership
  <2>4. ASSUME NEW w \in Worker, Crash(w) PROVE Orphan'
    BY <2>4 DEF Crash, Kill, Held, Fault, Ownership
  <2>5. ASSUME NEW w \in Worker, Exit(w) PROVE Orphan'
    BY <2>5 DEF Exit, Kill, Held, Ownership
  <2>6. ASSUME NEW t \in Task, BadArguments(t) PROVE Orphan'
    BY <2>6 DEF BadArguments, Mark, MarkRow, Markable, Fault
  <2>7. ASSUME NEW t \in Task, Start(t) PROVE Orphan'
    BY <2>7 DEF Start
  <2>8. ASSUME NEW t \in Task, AdapterStep(t) PROVE Orphan'
    BY <2>8 DEF AdapterStep, AdapterRunning, Cancelled
  <2>9. ASSUME NEW t \in Task, AdapterPanics(t) PROVE Orphan'
    BY <2>9 DEF AdapterPanics, AdapterRunning, Fault
  <2>10. ASSUME NEW t \in Task, Join(t) PROVE Orphan'
    BY <2>10 DEF Join
  <2>11. ASSUME NEW t \in Task, JoinPanicked(t) PROVE Orphan'
    BY <2>11 DEF JoinPanicked
  <2>12. ASSUME NEW t \in Task, Decide(t) PROVE Orphan'
    BY <2>12 DEF Decide, VerdictOf, Cancelled, Fault
  <2>13. ASSUME NEW t \in Task, WriteVerdict(t) PROVE Orphan'
    BY <2>13 DEF WriteVerdict, Mark, MarkRow, Markable, Fault, FinalState, FinalMessage
  <2>14. ASSUME NEW t \in Task, ListenerFails(t) PROVE Orphan'
    BY <2>14 DEF ListenerFails, Fault
  <2>15. ASSUME NEW t \in Task, StartTask(t) PROVE Orphan'
    BY <2>15 DEF StartTask, InsertTask
  <2>16. ASSUME NEW t \in Task, CancelUpdate(t) PROVE Orphan'
    BY <2>16, SMTT(30) DEF CancelUpdate, CancelRow
  <2>17. ASSUME UNCHANGED <<state, batch, epc, res, faults>> PROVE Orphan'
    BY <2>17
  <2>. QED
    BY <2>1, <2>2, <2>3, <2>4, <2>5, <2>6, <2>7, <2>8, <2>9, <2>10, <2>11, <2>12, <2>13,
       <2>14, <2>15, <2>16, <2>17
    DEF Next, WorkerNext, TaskNext, vars, table, workerVars, execVars, signalVars,
        apiVars, AtCapacity, Poll, ClaimNothing, CleanUp, Drain, DrainTick, DrainDone,
        RequestShutdown, Restart, TimerFires, GraceExpires, Subscribe, SendCancel,
        ListenerEnds, CancelFind, TimePasses, ClaimRows, Elapse, InsertTask, CancelRow
<1>. QED
  BY <1>1, <1>2, TypeCorrect, OwnershipInvariant, PTL DEF Spec

\* Without a failure every row in state running has a live keeper: the task waits in
\* a batch or its executor has not returned.
THEOREM OrphanNeedsFailureHolds == Spec => []OrphanNeedsFailure
<1>1. Orphan => OrphanNeedsFailure
  BY DEF Orphan
<1>. QED
  BY <1>1, OrphanInvariant, PTL

-----------------------------------------------------------------------------
(* How many tasks a worker holds. *)

\* Sets of tasks are finite.
LEMMA TasksAreFinite ==
    ASSUME NEW S \in SUBSET Task
    PROVE  IsFiniteSet(S) /\ Cardinality(S) \in Nat
  BY TaskAssumption, FS_Subset, FS_CardinalityType

\* Of two sets of tasks, the smaller one has no more elements.
LEMMA FewerTasks ==
    ASSUME NEW T \in SUBSET Task, NEW S \in SUBSET T
    PROVE  Cardinality(S) <= Cardinality(T)
  BY TasksAreFinite, FS_Subset

\* What free_slots = max_concurrent_tasks - active_tasks.len() is for: tasks that
\* fill free slots leave a worker within its limit.
LEMMA FillingSlots ==
    ASSUME NEW S \in SUBSET Task, NEW w \in Worker, active[w] \in SUBSET Task,
           Cardinality(active[w]) <= MaxConcurrent, Cardinality(S) <= FreeSlots(w)
    PROVE  Cardinality(S \cup active[w]) <= MaxConcurrent
<1>1. /\ IsFiniteSet(S) /\ IsFiniteSet(active[w]) /\ IsFiniteSet(S \cap active[w])
      /\ Cardinality(S) \in Nat /\ Cardinality(active[w]) \in Nat
      /\ Cardinality(S \cap active[w]) \in Nat
  BY TasksAreFinite
<1>2. Cardinality(S \cup active[w])
          = Cardinality(S) + Cardinality(active[w]) - Cardinality(S \cap active[w])
  BY <1>1, FS_Union
<1>. QED
  BY <1>1, <1>2, WorkerAssumption DEF FreeSlots

\* What run() has claimed and what it keeps in active_tasks fit into its slots.
Slots == \A w \in Worker : Cardinality(batch[w] \cup active[w]) <= MaxConcurrent

\* Slots is inductive: retain(), dispatch and the end of a process add nothing, and
\* claim_tasks takes at most as many rows as there are free slots.
THEOREM SlotsInvariant == Spec => []Slots
<1> USE WorkerAssumption
    DEF vars, table, workerVars, execVars, signalVars, apiVars, TypeOK, WorkerTypeOK
<1>1. Init => Slots
  BY FS_EmptySet DEF Init, Slots
<1>2. TypeOK /\ Ownership /\ Slots /\ [Next]_vars => Slots'
  <2> SUFFICES ASSUME TypeOK, Ownership, Slots, [Next]_vars PROVE Slots'
    OBVIOUS
  <2>shrink. ASSUME \A v \in Worker : batch'[v] \cup active'[v] \subseteq batch[v] \cup active[v]
             PROVE  Slots'
    <3> SUFFICES ASSUME NEW v \in Worker
                 PROVE  Cardinality(batch'[v] \cup active'[v]) <= MaxConcurrent
      BY DEF Slots
    <3>1. Cardinality(batch[v] \cup active[v]) <= MaxConcurrent
      BY DEF Slots
    <3>2. batch[v] \cup active[v] \in SUBSET Task
      OBVIOUS
    <3>3. batch'[v] \cup active'[v] \in SUBSET (batch[v] \cup active[v])
      BY <2>shrink
    <3>4. Cardinality(batch'[v] \cup active'[v]) <= Cardinality(batch[v] \cup active[v])
      BY <3>2, <3>3, FewerTasks
    <3>5. Cardinality(batch'[v] \cup active'[v]) \in Nat /\ Cardinality(batch[v] \cup active[v]) \in Nat
      BY <3>2, <3>3, TasksAreFinite
    <3>. QED
      BY <3>1, <3>4, <3>5, WorkerAssumption
  <2>1. ASSUME NEW w \in Worker, ClaimTasks(w) PROVE Slots'
    <3> SUFFICES ASSUME NEW v \in Worker
                 PROVE  Cardinality(batch'[v] \cup active'[v]) <= MaxConcurrent
      BY DEF Slots
    <3>1. PICK S \in SUBSET Pending :
              ClaimRows(S, FreeSlots(w)) /\ batch' = [batch EXCEPT ![w] = S]
      BY <2>1 DEF ClaimTasks
    <3>2. S \in SUBSET Task /\ Cardinality(S) <= FreeSlots(w) /\ active' = active
      BY <2>1, <3>1 DEF ClaimTasks, ClaimRows, IsOldestPending, Pending
    <3>3. CASE v = w
      <4>1. batch[w] = {}
        BY <2>1 DEF ClaimTasks, Ownership
      <4>2. Cardinality(active[w]) <= MaxConcurrent
        BY <4>1 DEF Slots
      <4>. QED
        BY <3>1, <3>2, <3>3, <4>2, FillingSlots
    <3>4. CASE v # w
      BY <3>1, <3>2, <3>4 DEF Slots
    <3>. QED
      BY <3>3, <3>4
  <2>2. ASSUME NEW w \in Worker, NEW t \in Task, Dispatch(w, t) PROVE Slots'
    BY <2>2, <2>shrink DEF Dispatch
  <2>3. ASSUME NEW w \in Worker, CleanUp(w) PROVE Slots'
    BY <2>3, <2>shrink DEF CleanUp, Retained
  <2>4. ASSUME NEW w \in Worker, DrainTick(w) PROVE Slots'
    BY <2>4, <2>shrink DEF DrainTick, Retained
  <2>5. ASSUME NEW w \in Worker, Crash(w) PROVE Slots'
    BY <2>5, <2>shrink DEF Crash, Kill
  <2>6. ASSUME NEW w \in Worker, Exit(w) PROVE Slots'
    BY <2>6, <2>shrink DEF Exit, Kill
  <2>7. ASSUME UNCHANGED <<batch, active>> PROVE Slots'
    BY <2>7 DEF Slots
  <2>. QED
    BY <2>1, <2>2, <2>3, <2>4, <2>5, <2>6, <2>7
    DEF Next, WorkerNext, TaskNext, vars, table, workerVars, execVars, signalVars,
        apiVars, AtCapacity, Poll, ClaimNothing, ClaimFails, Drain, DrainDone,
        RequestShutdown, Restart, BadArguments, Start, AdapterStep, AdapterPanics, Join,
        JoinPanicked, Decide, WriteVerdict, TimerFires, GraceExpires, Subscribe,
        ListenerFails, SendCancel, ListenerEnds, StartTask, CancelFind, CancelUpdate,
        TimePasses, ClaimRows, Elapse, InsertTask, CancelRow
<1>. QED
  BY <1>1, <1>2, TypeCorrect, OwnershipInvariant, PTL DEF Spec

\* Claimed tasks, those in active_tasks and executors with a live token fit into
\* max_concurrent_tasks: retain() in run() keeps each executor nobody has stopped.
THEOREM CapacityHolds == Spec => []Capacity
<1>1. Reachable /\ Slots => Capacity
  <2> SUFFICES ASSUME Reachable, Slots, NEW w \in Worker
               PROVE  Cardinality(batch[w] \cup active[w] \cup Uncancelled(w)) <= MaxConcurrent
    BY DEF Capacity
  <2>1. Uncancelled(w) \subseteq active[w]
    BY DEF Reachable, Uncancelled
  <2>2. batch[w] \cup active[w] \cup Uncancelled(w) = batch[w] \cup active[w]
    BY <2>1
  <2>. QED
    BY <2>2 DEF Slots
<1>. QED
  BY <1>1, ReachableInvariant, SlotsInvariant, PTL

-----------------------------------------------------------------------------
(* The refinement of TaskLifecycle. *)

\* A mark_* statement finishes the row, or leaves its state alone.
LEMMA MarkRefines ==
    ASSUME NEW t \in Task, NEW final \in Terminal, NEW message,
           TableTypeOK, Mark(t, final, message)
    PROVE  L!Next \/ UNCHANGED state
<1>1. CASE UNCHANGED state
  BY <1>1
<1>2. CASE state[t] = "running" /\ state' = [state EXCEPT ![t] = final]
  <2>1. L!Finish(t, final)
    BY <1>2 DEF L!Finish, L!CanTransition, L!Terminal, Terminal
  <2>. QED
    BY <2>1 DEF L!Next, L!Terminal, Terminal
<1>. QED
  BY <1>1, <1>2 DEF Mark, MarkRow, Markable, table

\* So does the UPDATE of claim_tasks with the rows it takes.
LEMMA ClaimRefines ==
    ASSUME NEW S \in SUBSET Pending, NEW limit, ClaimRows(S, limit)
    PROVE  L!Next
<1>1. S \in SUBSET Task /\ L!Claim(S)
  BY DEF L!Claim, L!CanTransition, ClaimRows, Pending
<1>. QED
  BY <1>1 DEF L!Next

\* The SQL statements of the queue and of the API, each with its own WHERE clause and
\* none of which calls can_transition_to, together implement TaskLifecycle for every
\* set of tasks and workers, whatever fails.
THEOREM LifecycleRefinement == Spec => Lifecycle
<1> USE DEF TypeOK, vars, table, workerVars, execVars, signalVars, apiVars
<1>1. Init => L!Init
  BY DEF Init, TableInit, L!Init
<1>2. TypeOK /\ [Next]_vars => [L!Next]_state
  <2> SUFFICES ASSUME TypeOK, [Next]_vars PROVE L!Next \/ UNCHANGED state
    OBVIOUS
  <2>1. ASSUME NEW w \in Worker, ClaimTasks(w) PROVE L!Next \/ UNCHANGED state
    BY <2>1, ClaimRefines DEF ClaimTasks
  <2>2. ASSUME NEW w \in Worker, ClaimFails(w) PROVE L!Next \/ UNCHANGED state
    BY <2>2, ClaimRefines DEF ClaimFails
  <2>3. ASSUME NEW w \in Worker, NEW t \in Task, Dispatch(w, t) PROVE L!Next \/ UNCHANGED state
    BY <2>3, MarkRefines DEF Dispatch, Terminal
  <2>4. ASSUME NEW t \in Task, BadArguments(t) PROVE L!Next \/ UNCHANGED state
    BY <2>4, MarkRefines DEF BadArguments, Terminal
  <2>5. ASSUME NEW t \in Task, WriteVerdict(t) PROVE L!Next \/ UNCHANGED state
    BY <2>5, MarkRefines DEF WriteVerdict, FinalState, Terminal
  <2>6. ASSUME NEW t \in Task, StartTask(t) PROVE L!Next \/ UNCHANGED state
    <3>1. L!Create(t)
      BY <2>6 DEF StartTask, InsertTask, L!Create
    <3>. QED
      BY <3>1 DEF L!Next
  <2>7. ASSUME NEW t \in Task, CancelUpdate(t) PROVE L!Next \/ UNCHANGED state
    <3>1. CASE UNCHANGED state
      BY <3>1
    <3>2. CASE state[t] \in {"pending", "running"} /\ state' = [state EXCEPT ![t] = "canceled"]
      <4>1. L!Finish(t, "canceled")
        BY <3>2 DEF L!Finish, L!CanTransition, L!Terminal
      <4>. QED
        BY <4>1 DEF L!Next, L!Terminal
    <3>. QED
      BY <2>7, <3>1, <3>2 DEF CancelUpdate, CancelRow
  <2>8. ASSUME UNCHANGED <<state>> PROVE L!Next \/ UNCHANGED state
    BY <2>8
  <2>. QED
    BY <2>1, <2>2, <2>3, <2>4, <2>5, <2>6, <2>7, <2>8, ZenonT(60)
    DEF Next, WorkerNext, TaskNext, vars, table, workerVars, execVars, signalVars,
        apiVars, AtCapacity, Poll, ClaimNothing, CleanUp, Drain, DrainTick, DrainDone,
        RequestShutdown, Crash, Exit, Restart, Start, AdapterStep, AdapterPanics, Join,
        JoinPanicked, Decide, TimerFires, GraceExpires, Subscribe, ListenerFails,
        SendCancel, ListenerEnds, CancelFind, TimePasses, Kill, ClaimRows, Elapse,
        InsertTask, CancelRow
<1>. QED
  BY <1>1, <1>2, TypeCorrect, PTL DEF Spec, Lifecycle, L!Spec

=============================================================================
