---------------------------- MODULE QuotaProofs ----------------------------
(***************************************************************************)
(* Proofs about Quota for every set of tenants, handlers and tasks and for *)
(* every quota.  A handler that has passed the daily check holds a ticket; *)
(* rows and tickets together stay below the quota plus the handlers.       *)
(***************************************************************************)
EXTENDS Quota, FiniteSetTheorems, TLAPS

\* Rows, quotas and the places of the handlers keep their types.
THEOREM QuotaTypeCorrect == Spec => []TypeOK
<1> USE DEF TypeOK, TableTypeOK, vars, table, apiVars, TaskState, Why
<1>1. Init => TypeOK
  BY DEF Init, TableInit
<1>2. TypeOK /\ [Next]_vars => TypeOK'
  <2> SUFFICES ASSUME TypeOK, [Next]_vars PROVE TypeOK'
    OBVIOUS
  <2>1. ASSUME NEW h \in Handler, HandlerNext(h) PROVE TypeOK'
    <3>1. ASSUME NEW n \in Tenant, Receive(h, n) PROVE TypeOK'
      BY <3>1 DEF Receive
    <3>2. CASE EnforceConcurrent(h)
      BY <3>2 DEF EnforceConcurrent, Enforce
    <3>3. CASE EnforceDaily(h)
      BY <3>3 DEF EnforceDaily, Enforce
    <3>4. ASSUME NEW t \in Task, CreateTask(h, t) PROVE TypeOK'
      BY <3>4 DEF CreateTask, InsertTask
    <3>5. CASE HandlerFails(h)
      BY <3>5 DEF HandlerFails
    <3>. QED
      BY <2>1, <3>1, <3>2, <3>3, <3>4, <3>5 DEF HandlerNext
  <2>2. CASE WorkerClaims
    BY <2>2 DEF WorkerClaims, ClaimRows
  <2>3. ASSUME NEW t \in Task, WorkerFinishes(t) \/ Cancel(t) \/ DayPasses(t) PROVE TypeOK'
    BY <2>3 DEF WorkerFinishes, Cancel, DayPasses, MarkRow, CancelRow
  <2>4. CASE UNCHANGED vars
    BY <2>4
  <2>. QED
    BY <2>1, <2>2, <2>3, <2>4 DEF Next
<1>. QED
  BY <1>1, <1>2, PTL DEF Spec

-----------------------------------------------------------------------------
(* Tickets. *)

\* Handlers that have passed the daily check for tenant n and not inserted yet.
Ticket(n) == {h \in Handler : pc[h] = "insert" /\ tenant[h] = n}

\* The inductive strengthening of DailyOverrun: the INSERT trades a ticket for a
\* row, and only a check that sees a free place gives out a ticket.
TicketBound ==
    \A n \in Tenant :
        Cardinality(Recent(n)) + Cardinality(Ticket(n)) < DailyLimit[n] + Cardinality(Handler)

\* Rows and tickets are finite sets.
LEMMA CountsAreNat ==
    /\ \A S \in SUBSET Task : IsFiniteSet(S) /\ Cardinality(S) \in Nat
    /\ \A S \in SUBSET Handler : /\ IsFiniteSet(S) /\ Cardinality(S) \in Nat
                                 /\ Cardinality(S) <= Cardinality(Handler)
  BY TaskAssumption, QuotaAssumption, FS_Subset, FS_CardinalityType

\* A step that adds neither a row nor a ticket of any tenant keeps the bound.
LEMMA NothingAdded ==
    ASSUME TypeOK, TicketBound,
           \A n \in Tenant : Recent(n)' \subseteq Recent(n) /\ Ticket(n)' \subseteq Ticket(n)
    PROVE  TicketBound'
<1> SUFFICES ASSUME NEW n \in Tenant
             PROVE  Cardinality(Recent(n)') + Cardinality(Ticket(n)')
                        < DailyLimit[n] + Cardinality(Handler)
  BY DEF TicketBound
<1>1. Recent(n) \in SUBSET Task /\ Ticket(n) \in SUBSET Handler
  BY DEF Recent, Rows, Ticket
<1>2. Recent(n)' \in SUBSET Recent(n) /\ Ticket(n)' \in SUBSET Ticket(n)
  OBVIOUS
<1>3. /\ IsFiniteSet(Recent(n)) /\ IsFiniteSet(Ticket(n))
      /\ Cardinality(Recent(n)) \in Nat /\ Cardinality(Ticket(n)) \in Nat
      /\ Cardinality(Recent(n)') \in Nat /\ Cardinality(Ticket(n)') \in Nat
      /\ Cardinality(Handler) \in Nat
  BY <1>1, <1>2, CountsAreNat
<1>4. Cardinality(Recent(n)') <= Cardinality(Recent(n))
  BY <1>2, <1>3, FS_Subset
<1>5. Cardinality(Ticket(n)') <= Cardinality(Ticket(n))
  BY <1>2, <1>3, FS_Subset
<1>6. Cardinality(Recent(n)) + Cardinality(Ticket(n)) < DailyLimit[n] + Cardinality(Handler)
  BY DEF TicketBound
<1>. QED
  BY <1>3, <1>4, <1>5, <1>6, QuotaAssumption

\* The daily check gives out a ticket only while the tenant has a row left.
LEMMA CheckKeepsBound ==
    ASSUME TypeOK, TicketBound, NEW h \in Handler, EnforceDaily(h)
    PROVE  TicketBound'
<1> USE DEF TypeOK
<1> DEFINE n == tenant[h]
<1>1. CASE Cardinality(Recent(n)) < DailyLimit[n]
  <2> SUFFICES ASSUME NEW m \in Tenant
               PROVE  Cardinality(Recent(m)') + Cardinality(Ticket(m)')
                          < DailyLimit[m] + Cardinality(Handler)
    BY DEF TicketBound
  <2>1. Recent(m)' = Recent(m)
    BY DEF EnforceDaily, Enforce, table, Recent, Rows
  <2>2. Ticket(m)' \in SUBSET Handler
    BY DEF Ticket
  <2>3. /\ Cardinality(Recent(m)) \in Nat /\ Cardinality(Handler) \in Nat
        /\ Cardinality(Ticket(m)') \in Nat /\ Cardinality(Ticket(m)') <= Cardinality(Handler)
    BY <2>2, CountsAreNat DEF Recent, Rows
  <2>4. CASE m = n
    BY <1>1, <2>1, <2>3, <2>4, QuotaAssumption
  <2>5. CASE m # n
    <3>1. Ticket(m)' = Ticket(m)
      BY <2>5 DEF EnforceDaily, Enforce, Ticket
    <3>. QED
      BY <2>1, <3>1 DEF TicketBound
  <2>. QED
    BY <2>4, <2>5
<1>2. CASE ~(Cardinality(Recent(n)) < DailyLimit[n])
  <2>1. \A m \in Tenant : Recent(m)' = Recent(m) /\ Ticket(m)' \subseteq Ticket(m)
    BY <1>2 DEF EnforceDaily, Enforce, Allowed, table, Recent, Rows, Ticket
  <2>. QED
    BY <2>1, NothingAdded
<1>. QED
  BY <1>1, <1>2

\* The INSERT trades the handler's ticket for one row of its tenant.
LEMMA InsertKeepsBound ==
    ASSUME TypeOK, TicketBound, NEW h \in Handler, NEW t \in Task, CreateTask(h, t)
    PROVE  TicketBound'
<1> USE DEF TypeOK, TableTypeOK
<1> SUFFICES ASSUME NEW m \in Tenant
             PROVE  Cardinality(Recent(m)') + Cardinality(Ticket(m)')
                        < DailyLimit[m] + Cardinality(Handler)
  BY DEF TicketBound
<1>1. Recent(m) \in SUBSET Task /\ Ticket(m) \in SUBSET Handler
  BY DEF Recent, Rows, Ticket
<1>2. /\ IsFiniteSet(Recent(m)) /\ IsFiniteSet(Ticket(m))
      /\ Cardinality(Recent(m)) \in Nat /\ Cardinality(Ticket(m)) \in Nat
  BY <1>1, CountsAreNat
<1>3. Cardinality(Recent(m)) + Cardinality(Ticket(m)) < DailyLimit[m] + Cardinality(Handler)
  BY DEF TicketBound
<1>4. CASE m = tenant[h]
  <2>1. Recent(m)' = Recent(m) \cup {t} /\ t \notin Recent(m)
    BY <1>4 DEF CreateTask, InsertTask, Recent, Rows
  <2>2. Ticket(m)' = Ticket(m) \ {h} /\ h \in Ticket(m)
    BY <1>4 DEF CreateTask, Ticket
  <2>3. Cardinality(Recent(m)') = Cardinality(Recent(m)) + 1
    BY <1>2, <2>1, FS_AddElement
  <2>4. Cardinality(Ticket(m)') = Cardinality(Ticket(m)) - 1
    BY <1>2, <2>2, FS_RemoveElement
  <2>. QED
    BY <1>2, <1>3, <2>3, <2>4
<1>5. CASE m # tenant[h]
  <2>1. Recent(m)' = Recent(m)
    BY <1>5 DEF CreateTask, InsertTask, Recent, Rows
  <2>2. Ticket(m)' = Ticket(m)
    BY <1>5 DEF CreateTask, Ticket
  <2>. QED
    BY <1>3, <2>1, <2>2
<1>. QED
  BY <1>4, <1>5

\* Every handler, worker and cancel request in any order: the daily quota is
\* overrun by less than the number of handlers.
THEOREM DailyOverrunHolds == Spec => []DailyOverrun
<1>1. Init => TicketBound
  <2> SUFFICES ASSUME Init, NEW n \in Tenant
               PROVE  Cardinality(Recent(n)) + Cardinality(Ticket(n))
                          < DailyLimit[n] + Cardinality(Handler)
    BY DEF TicketBound
  <2>1. Recent(n) = {} /\ Ticket(n) = {}
    BY DEF Init, Recent, Ticket
  <2>2. Cardinality(Handler) \in Nat /\ Cardinality(Handler) # 0
    BY QuotaAssumption, CountsAreNat, FS_EmptySet
  <2>. QED
    BY <2>1, <2>2, FS_EmptySet, QuotaAssumption
<1>2. TypeOK /\ TicketBound /\ [Next]_vars => TicketBound'
  <2> SUFFICES ASSUME TypeOK, TicketBound, [Next]_vars PROVE TicketBound'
    OBVIOUS
  <2>1. ASSUME NEW h \in Handler, HandlerNext(h) PROVE TicketBound'
    <3>1. ASSUME NEW n \in Tenant, Receive(h, n) PROVE TicketBound'
      BY <3>1, NothingAdded DEF Receive, TypeOK, table, Recent, Rows, Ticket
    <3>2. CASE EnforceConcurrent(h)
      BY <3>2, NothingAdded DEF EnforceConcurrent, Enforce, TypeOK, table, Recent, Rows, Ticket
    <3>3. CASE EnforceDaily(h)
      BY <3>3, CheckKeepsBound
    <3>4. ASSUME NEW t \in Task, CreateTask(h, t) PROVE TicketBound'
      BY <3>4, InsertKeepsBound
    <3>5. CASE HandlerFails(h)
      BY <3>5, NothingAdded DEF HandlerFails, TypeOK, table, Recent, Rows, Ticket
    <3>. QED
      BY <2>1, <3>1, <3>2, <3>3, <3>4, <3>5 DEF HandlerNext
  <2>2. CASE WorkerClaims
    <3>1. \A n \in Tenant : Recent(n)' = Recent(n) /\ Ticket(n)' = Ticket(n)
      BY <2>2 DEF WorkerClaims, ClaimRows, Pending, apiVars, Recent, Rows, Ticket, TypeOK, TableTypeOK
    <3>. QED
      BY <3>1, NothingAdded
  <2>3. ASSUME NEW t \in Task, WorkerFinishes(t) \/ Cancel(t) \/ DayPasses(t) PROVE TicketBound'
    <3>1. \A n \in Tenant : Recent(n)' \subseteq Recent(n) /\ Ticket(n)' = Ticket(n)
      BY <2>3 DEF WorkerFinishes, Cancel, DayPasses, MarkRow, Markable, CancelRow, table, apiVars,
                  Recent, Rows, Ticket, TypeOK, TableTypeOK
    <3>. QED
      BY <3>1, NothingAdded
  <2>4. CASE UNCHANGED vars
    BY <2>4, NothingAdded DEF vars, table, apiVars, Recent, Rows, Ticket
  <2>. QED
    BY <2>1, <2>2, <2>3, <2>4 DEF Next
<1>3. TypeOK /\ TicketBound => DailyOverrun
  <2> SUFFICES ASSUME TypeOK, TicketBound, NEW n \in Tenant
               PROVE  Cardinality(Recent(n)) < DailyLimit[n] + Cardinality(Handler)
    BY DEF DailyOverrun
  <2>1. Recent(n) \in SUBSET Task /\ Ticket(n) \in SUBSET Handler
    BY DEF Recent, Rows, Ticket
  <2>2. Cardinality(Recent(n)) \in Nat /\ Cardinality(Ticket(n)) \in Nat
    BY <2>1, CountsAreNat
  <2>3. Cardinality(Recent(n)) + Cardinality(Ticket(n)) < DailyLimit[n] + Cardinality(Handler)
    BY DEF TicketBound
  <2>. QED
    BY <2>2, <2>3, CountsAreNat, QuotaAssumption
<1>. QED
  BY <1>1, <1>2, <1>3, QuotaTypeCorrect, PTL DEF Spec
=============================================================================
