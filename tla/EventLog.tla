------------------------------- MODULE EventLog -------------------------------
(***************************************************************************)
(* The stored events of one task: the rows of task_events with its task_id,*)
(* which TaskEvent::append extends with a SELECT and an INSERT of its own, *)
(* and which delete_for_task and the deletion of the task empty.           *)
(*                                                                         *)
(* Bounds: MaxAppends calls of append, MaxDeletes of delete_for_task,      *)
(* MaxFaults statements that fail.                                         *)
(***************************************************************************)
EXTENDS Integers

CONSTANTS
    Appender,       \* callers of append that may be in progress at a time
    Payload,        \* kind and payload of an event, as serde_json writes it
    Jsonb,          \* what serde_json writes after a round trip through JSONB
    MaxAppends, MaxDeletes, MaxFaults

ASSUME LogAssumption ==
    /\ {MaxAppends, MaxDeletes, MaxFaults} \subseteq Nat
    /\ Jsonb \in [Payload -> Payload]

VARIABLES
    exists,         \* the row of the task itself (the foreign key)
    rows,           \* rows[seq]: data, hash_prev and hash_curr
    pc,             \* where an append() is: "idle" or "insert"
    pending,        \* the row it is about to insert, with its seq
    rewritten,      \* seq of the rows whose payload JSONB has changed
    answered,       \* events reported as appended since the last deletion
    torn,           \* the last deletion ran between the statements of an append
    appends, deletes, faults

callVars == <<pc, pending>>
boundVars == <<appends, deletes, faults>>
vars == <<exists, rows, rewritten, callVars, answered, torn, boundVars>>

\* compute_hash: SHA-256 covers exactly these three, and no two inputs that
\* the program meets have the same digest.
ComputeHash(prev, seq, data) == <<prev, seq, data>>

NoHash == <<>>
NoEvent == [seq |-> 0, data |-> NoHash, prev |-> NoHash, hash |-> NoHash]

TypeOK ==
    /\ exists \in BOOLEAN
    /\ DOMAIN rows \subseteq Nat
    /\ \A s \in DOMAIN rows : rows[s].data \in Payload
    /\ exists \/ DOMAIN rows = {}
    /\ rewritten \subseteq DOMAIN rows
    /\ pc \in [Appender -> {"idle", "insert"}]
    /\ DOMAIN pending = Appender
    /\ \A a \in Appender : pc[a] = "insert" =>
           pending[a].seq \in Nat /\ pending[a].data \in Payload
    /\ torn \in BOOLEAN
    /\ appends \in 0 .. MaxAppends /\ deletes \in 0 .. MaxDeletes /\ faults \in 0 .. MaxFaults

Empty == [s \in {} |-> NoEvent]

Init ==
    /\ exists = TRUE
    /\ rows = Empty /\ rewritten = {}
    /\ pc = [a \in Appender |-> "idle"]
    /\ pending = [a \in Appender |-> NoEvent]
    /\ answered = {}
    /\ torn = FALSE
    /\ appends = 0 /\ deletes = 0 /\ faults = 0

-----------------------------------------------------------------------------
\* SELECT seq, hash_curr ... ORDER BY seq DESC LIMIT 1
IsLast(s) == s \in DOMAIN rows /\ \A r \in DOMAIN rows : r <= s

\* The event that append() builds from what the SELECT returned.
Link(seq, prev, d) ==
    [seq |-> seq, data |-> d, prev |-> prev, hash |-> ComputeHash(prev, seq, d)]

\* Mutant: numbers come from a counter of calls.
NextEvent_Counted(d) ==
    IF DOMAIN rows = {} THEN Link(appends, NoHash, d)
    ELSE LET last == CHOOSE s \in DOMAIN rows : IsLast(s)
         IN  Link(appends, rows[last].hash, d)

\* Mutant: the hash of the last event is not taken over.
NextEvent_NoLink(d) ==
    IF DOMAIN rows = {} THEN Link(0, NoHash, d)
    ELSE LET last == CHOOSE s \in DOMAIN rows : IsLast(s)
         IN  Link(last + 1, NoHash, d)

NextEvent(d) ==
    IF DOMAIN rows = {} THEN Link(0, NoHash, d)
    ELSE LET last == CHOOSE s \in DOMAIN rows : IsLast(s)
         IN  Link(last + 1, rows[last].hash, d)

\* A SELECT that fails changes nothing.
AppendSelect(a) ==
    /\ pc[a] = "idle" /\ appends < MaxAppends
    /\ \E d \in Payload : pending' = [pending EXCEPT ![a] = NextEvent(d)]
    /\ pc' = [pc EXCEPT ![a] = "insert"]
    /\ appends' = appends + 1
    /\ UNCHANGED <<exists, rows, rewritten, answered, torn, deletes, faults>>

\* The columns: the payload is what JSONB makes of it, the hash is not.
Row(event) == [data |-> Jsonb[event.data], prev |-> event.prev, hash |-> event.hash]

Store(event) ==
    /\ rows' = [s \in DOMAIN rows \cup {event.seq} |->
                    IF s = event.seq THEN Row(event) ELSE rows[s]]
    /\ rewritten' = IF Jsonb[event.data] # event.data THEN rewritten \cup {event.seq}
                    ELSE rewritten

\* Mutant: task_id does not reference tasks.
Insertable_NoReference(event) == event.seq \notin DOMAIN rows

\* Mutant: INSERT ... ON CONFLICT DO UPDATE.
Insertable_Upsert(event) == exists

\* The INSERT respects the foreign key and the primary key (task_id, seq).
Insertable(event) == exists /\ event.seq \notin DOMAIN rows

\* The row is stored; its caller learns of it unless the answer is lost.
AppendInsert(a) ==
    /\ pc[a] = "insert"
    /\ Insertable(pending[a])
    /\ Store(pending[a])
    /\ \/ answered' = answered \cup {[seq |-> pending[a].seq, hash |-> pending[a].hash]}
          /\ UNCHANGED faults
       \/ faults < MaxFaults /\ faults' = faults + 1
          /\ UNCHANGED answered
    /\ pc' = [pc EXCEPT ![a] = "idle"]
    /\ pending' = [pending EXCEPT ![a] = NoEvent]
    /\ UNCHANGED <<exists, torn, appends, deletes>>

\* append() returns an error and its event is lost: another append has taken
\* the number, the task is gone, or the statement failed.
AppendError(a) ==
    /\ pc[a] = "insert"
    /\ \/ ~Insertable(pending[a]) /\ UNCHANGED faults
       \/ faults < MaxFaults /\ faults' = faults + 1
    /\ pc' = [pc EXCEPT ![a] = "idle"]
    /\ pending' = [pending EXCEPT ![a] = NoEvent]
    /\ UNCHANGED <<exists, rows, rewritten, answered, torn, appends, deletes>>

Clear ==
    /\ rows' = Empty /\ rewritten' = {}
    /\ answered' = {}
    /\ torn' = \E a \in Appender : pc[a] = "insert"

\* delete_for_task.
DeleteForTask ==
    /\ deletes < MaxDeletes /\ deletes' = deletes + 1
    /\ Clear
    /\ UNCHANGED <<exists, callVars, appends, faults>>

\* Task::delete, whose ON DELETE CASCADE takes the events along.
DeleteTask ==
    /\ exists
    /\ exists' = FALSE
    /\ Clear
    /\ UNCHANGED <<callVars, boundVars>>

Next ==
    \/ \E a \in Appender : AppendSelect(a) \/ AppendInsert(a) \/ AppendError(a)
    \/ DeleteForTask \/ DeleteTask

Spec == Init /\ [][Next]_vars

-----------------------------------------------------------------------------
(* verify_chain: the rows in the order of seq, prev_hash being the hash of  *)
(* the row before.                                                          *)

IsBefore(r, s) == r \in DOMAIN rows /\ r < s /\ \A q \in DOMAIN rows : q < s => q <= r

PrevHash(s) ==
    IF \A r \in DOMAIN rows : r >= s THEN NoHash
    ELSE rows[CHOOSE r \in DOMAIN rows : IsBefore(r, s)].hash

VerifyChain ==
    \A s \in DOMAIN rows :
        /\ rows[s].hash = ComputeHash(PrevHash(s), s, rows[s].data)
        /\ rows[s].prev = PrevHash(s)

-----------------------------------------------------------------------------
(* Properties. *)

\* verify_chain accepts the rows of a task, whichever appends race, fail or
\* lose their answer, unless a deletion came between the two statements of an
\* append; and it refuses them once JSONB has changed a payload (1e16 comes back
\* as an integer, -0.0 without its sign), since append() hashes it before.
ChainVerifies == ~torn => (VerifyChain <=> rewritten = {})

\* The seq of the rows starts at 0 and has no gap under the same condition: a
\* lost append leaves its number to the next one.  Rows that a torn append has left
\* without those before them do not get past verify_chain: what it accepts has
\* no gap, whatever deletions and appends came before.
NumbersWithoutGap ==
    ~torn \/ VerifyChain => \A s \in DOMAIN rows : \A r \in 0 .. s : r \in DOMAIN rows

\* An event whose append() returned Ok stays in the log as it was answered:
\* an append that computed the same number never takes its place.
AnsweredIsStored ==
    \A e \in answered : e.seq \in DOMAIN rows /\ rows[e.seq].hash = e.hash
=============================================================================
