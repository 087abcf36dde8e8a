-------------------------------- MODULE Quota --------------------------------
(***************************************************************************)
(* Admission of tasks by the API: start_task checks two quotas of the      *)
(* tenant and inserts the row, in three statements with no transaction     *)
(* around them, while other handlers do the same and workers claim and     *)
(* finish rows of the table.                                               *)
(***************************************************************************)
EXTENDS TaskTable

CONSTANTS
    Tenant,
    Handler,        \* API requests that may be in progress at a time
    ConcurrentLimit,    \* QuotaLimits::concurrent_tasks of each tenant's plan
    DailyLimit      \* QuotaLimits::daily_tasks of each tenant's plan

ASSUME QuotaAssumption ==
    /\ IsFiniteSet(Handler) /\ Handler # {}
    /\ ConcurrentLimit \in [Tenant -> Nat]
    /\ DailyLimit \in [Tenant -> Nat]

VARIABLES
    creator,        \* tasks.tenant_id, of the rows that exist
    fresh,          \* rows whose created_at is less than 24 hours ago
    pc,             \* where a start_task handler is: "idle", "concurrent", "daily", "insert"
    tenant          \* the tenant of the request it handles

apiVars == <<creator, fresh, pc, tenant>>
vars == <<table, apiVars>>

TypeOK ==
    /\ TableTypeOK
    /\ creator \in [Task -> Tenant]
    /\ fresh \in SUBSET Task
    /\ pc \in [Handler -> {"idle", "concurrent", "daily", "insert"}]
    /\ tenant \in [Handler -> Tenant]

Init ==
    /\ TableInit
    /\ creator \in {[t \in Task |-> n] : n \in Tenant}
    /\ fresh = {}
    /\ pc = [h \in Handler |-> "idle"]
    /\ tenant \in {[h \in Handler |-> n] : n \in Tenant}

-----------------------------------------------------------------------------
\* count_concurrent_tasks and count_daily_tasks.
Rows(n) == {t \in Task : state[t] # "none" /\ creator[t] = n}
Running(n) == {t \in Rows(n) : state[t] = "running"}
Recent(n) == Rows(n) \cap fresh

\* Mutant: the limit itself is still allowed.
Allowed_Inclusive(current, limit) == current <= limit

\* QuotaEnforcer::check
Allowed(current, limit) == current < limit

Receive(h, n) ==
    /\ pc[h] = "idle"
    /\ pc' = [pc EXCEPT ![h] = "concurrent"]
    /\ tenant' = [tenant EXCEPT ![h] = n]
    /\ UNCHANGED <<table, creator, fresh>>

\* One enforce() call: the handler goes on, or answers 403.
Enforce(h, at, count, limit, next) ==
    /\ pc[h] = at
    /\ pc' = [pc EXCEPT ![h] = IF Allowed(count, limit) THEN next ELSE "idle"]
    /\ UNCHANGED <<table, creator, fresh, tenant>>

EnforceConcurrent(h) ==
    Enforce(h, "concurrent", Cardinality(Running(tenant[h])), ConcurrentLimit[tenant[h]], "daily")

EnforceDaily(h) ==
    Enforce(h, "daily", Cardinality(Recent(tenant[h])), DailyLimit[tenant[h]], "insert")

\* Task::create.
CreateTask(h, t) ==
    /\ pc[h] = "insert"
    /\ InsertTask(t)
    /\ creator' = [creator EXCEPT ![t] = tenant[h]]
    /\ fresh' = fresh \cup {t}
    /\ pc' = [pc EXCEPT ![h] = "idle"]
    /\ UNCHANGED tenant

\* A quota check or the INSERT fails: the handler answers 500.
HandlerFails(h) ==
    /\ pc[h] # "idle"
    /\ pc' = [pc EXCEPT ![h] = "idle"]
    /\ UNCHANGED <<table, creator, fresh, tenant>>

\* What workers and cancel requests do to the rows.
WorkerClaims == \E S \in SUBSET Pending :
    S # {} /\ ClaimRows(S, Cardinality(S)) /\ UNCHANGED apiVars

WorkerFinishes(t) == Markable(t) /\ MarkRow(t, "succeeded", "none") /\ UNCHANGED apiVars

Cancel(t) == state[t] \in {"pending", "running"} /\ CancelRow(t) /\ UNCHANGED apiVars

\* A row turns 24 hours old.
DayPasses(t) ==
    /\ t \in fresh
    /\ fresh' = fresh \ {t}
    /\ UNCHANGED <<table, creator, pc, tenant>>

HandlerNext(h) ==
    \/ \E n \in Tenant : Receive(h, n)
    \/ EnforceConcurrent(h) \/ EnforceDaily(h)
    \/ \E t \in Task : CreateTask(h, t)
    \/ HandlerFails(h)

Next ==
    \/ \E h \in Handler : HandlerNext(h)
    \/ WorkerClaims
    \/ \E t \in Task : WorkerFinishes(t) \/ Cancel(t) \/ DayPasses(t)

Spec == Init /\ [][Next]_vars

-----------------------------------------------------------------------------
(* Properties. *)

\* The race between the daily check and the INSERT lets a tenant exceed its
\* quota by what the other handlers have in flight and by no more: with one
\* handler the quota is exact.
DailyOverrun ==
    \A n \in Tenant :
        Cardinality(Recent(n)) < DailyLimit[n] + Cardinality(Handler)
=============================================================================
