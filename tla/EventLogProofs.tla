----------------------------- MODULE EventLogProofs -----------------------------
(***************************************************************************)
(* Theorems about EventLog: types, the numbering of the rows, the chain    *)
(* that verify_chain recomputes, and the answers of append().              *)
(*                                                                         *)
(* While no deletion has torn an append, the rows are a chain numbered     *)
(* from 0, and an append in progress is about to add a link that fits: it  *)
(* was built on a row that is still there, and rows do not change.  After  *)
(* that, the number a hash was computed from still tells a gap.            *)
(***************************************************************************)
EXTENDS EventLog, TLAPS

\* The rows are numbered 0 .. n - 1.
Numbered == \A s \in DOMAIN rows : \A r \in 0 .. s : r \in DOMAIN rows

\* The hash_prev that belongs to the number seq.
HashBefore(seq) == IF seq = 0 THEN NoHash ELSE rows[seq - 1].hash

\* The row s continues the chain, and rewritten tells whether its payload is
\* the one that was hashed.
IsLink(s) ==
    /\ rows[s].prev = HashBefore(s)
    /\ \E d \in Payload :
        /\ rows[s].hash = ComputeHash(rows[s].prev, s, d)
        /\ rows[s].data = Jsonb[d]
        /\ s \in rewritten <=> Jsonb[d] # d

\* An event that is about to be inserted fits the rows there are.
Fits(event) ==
    /\ event.seq # 0 => event.seq - 1 \in DOMAIN rows
    /\ event.prev = HashBefore(event.seq)
    /\ event.hash = ComputeHash(event.prev, event.seq, event.data)

\* The inductive invariant, with TypeOK.
Chain ==
    ~torn =>
        /\ Numbered
        /\ \A s \in DOMAIN rows : IsLink(s)
        /\ \A a \in Appender : pc[a] = "insert" => Fits(pending[a])

-----------------------------------------------------------------------------
(* What the SELECT of append() finds, and what its INSERT leaves. *)

\* A log with rows has a last one.
HasLast == DOMAIN rows = {} \/ \E s \in DOMAIN rows : IsLast(s)

\* There is one last row.
LEMMA LastIsUnique ==
    ASSUME TypeOK, NEW s, IsLast(s)
    PROVE  /\ s \in Nat
           /\ s = CHOOSE r \in DOMAIN rows : IsLast(r)
<1> DEFINE last == CHOOSE r \in DOMAIN rows : IsLast(r)
<1>1. s \in DOMAIN rows /\ \A r \in DOMAIN rows : r <= s
  BY DEF IsLast
<1>2. DOMAIN rows \subseteq Nat
  BY DEF TypeOK
<1>3. last \in DOMAIN rows /\ IsLast(last)
  BY <1>1
<1>4. last \in DOMAIN rows /\ \A r \in DOMAIN rows : r <= last
  BY <1>3 DEF IsLast
<1>5. s <= last /\ last <= s /\ s \in Nat /\ last \in Nat
  BY <1>1, <1>2, <1>4
<1>6. s = last
  BY <1>5
<1>. QED
  BY <1>5, <1>6

\* append() starts the log, or links its event to the last row.
LEMMA NextEventLinks ==
    ASSUME TypeOK, HasLast, NEW d \in Payload
    PROVE  \/ DOMAIN rows = {} /\ NextEvent(d) = Link(0, NoHash, d)
           \/ \E s \in DOMAIN rows :
                /\ s \in Nat /\ IsLast(s)
                /\ NextEvent(d) = Link(s + 1, rows[s].hash, d)
<1>1. CASE DOMAIN rows = {}
  BY <1>1 DEF NextEvent
<1>2. CASE DOMAIN rows # {}
  <2>1. PICK s \in DOMAIN rows : IsLast(s)
    BY <1>2 DEF HasLast
  <2>2. s \in Nat /\ s = CHOOSE r \in DOMAIN rows : IsLast(r)
    BY <2>1, LastIsUnique
  <2>3. NextEvent(d) = Link(s + 1, rows[s].hash, d)
    BY <1>2, <2>2 DEF NextEvent
  <2>. QED
    BY <2>1, <2>2, <2>3
<1>. QED
  BY <1>1, <1>2

\* A stored row is added to the others, which stay as they are.
LEMMA StoreAdds ==
    ASSUME NEW event, Store(event)
    PROVE  /\ DOMAIN rows' = DOMAIN rows \cup {event.seq}
           /\ rows'[event.seq] = Row(event)
           /\ \A s \in DOMAIN rows : s # event.seq => rows'[s] = rows[s]
BY DEF Store

-----------------------------------------------------------------------------
(* Types. *)

TInv == TypeOK /\ HasLast

\* Types hold, and the log has a last row for the SELECT of append() to find.
THEOREM LogTypeInvariant == Spec => []TInv
<1> USE LogAssumption
<1>1. Init => TInv
  <2>1. Init => DOMAIN rows = {}
    BY DEF Init, Empty
  <2>2. 0 \in 0 .. MaxAppends /\ 0 \in 0 .. MaxDeletes /\ 0 \in 0 .. MaxFaults
    OBVIOUS
  <2>. QED
    BY <2>1, <2>2 DEF Init, TInv, TypeOK, HasLast
<1>2. TInv /\ [Next]_vars => TInv'
  <2> SUFFICES ASSUME TInv, [Next]_vars PROVE TInv'
    OBVIOUS
  <2> USE DEF TInv
  <2>1. ASSUME NEW a \in Appender, AppendSelect(a) PROVE TInv'
    <3>1. PICK d \in Payload : pending' = [pending EXCEPT ![a] = NextEvent(d)]
      BY <2>1 DEF AppendSelect
    <3>2. NextEvent(d).seq \in Nat /\ NextEvent(d).data \in Payload
      BY NextEventLinks DEF Link
    <3>3. HasLast'
      BY <2>1 DEF AppendSelect, HasLast, IsLast
    <3>. QED
      BY <2>1, <3>1, <3>2, <3>3 DEF AppendSelect, TypeOK
  <2>2. ASSUME NEW a \in Appender, AppendInsert(a) PROVE TInv'
    <3> DEFINE e == pending[a]
    <3>1. e.seq \in Nat /\ e.data \in Payload
      BY <2>2 DEF AppendInsert, TypeOK
    <3>2. Store(e)
      BY <2>2 DEF AppendInsert
    <3>3. DOMAIN rows' = DOMAIN rows \cup {e.seq}
      BY <3>2, StoreAdds
    <3>4. \A s \in DOMAIN rows' : rows'[s].data \in Payload
      <4>1. Row(e).data = Jsonb[e.data] /\ Jsonb[e.data] \in Payload
        BY <3>1 DEF Row
      <4>2. rows'[e.seq] = Row(e) /\ \A s \in DOMAIN rows : s # e.seq => rows'[s] = rows[s]
        BY <3>2, StoreAdds
      <4>3. \A s \in DOMAIN rows : rows[s].data \in Payload
        BY DEF TypeOK
      <4>. QED
        BY <3>3, <4>1, <4>2, <4>3
    <3>5. HasLast'
      <4>1. CASE DOMAIN rows = {}
        BY <3>1, <3>3, <4>1 DEF HasLast, IsLast
      <4>2. CASE DOMAIN rows # {}
        <5>1. PICK s \in DOMAIN rows : IsLast(s)
          BY <4>2 DEF HasLast
        <5>2. DOMAIN rows \subseteq Nat /\ \A r \in DOMAIN rows : r <= s
          BY <5>1 DEF IsLast, TypeOK
        <5>3. CASE e.seq <= s
          <6>1. \A r \in DOMAIN rows' : r <= s
            BY <3>3, <5>2, <5>3
          <6>. QED
            BY <3>3, <6>1 DEF HasLast, IsLast
        <5>4. CASE ~(e.seq <= s)
          <6>1. \A r \in DOMAIN rows' : r <= e.seq
            BY <3>1, <3>3, <5>2, <5>4
          <6>. QED
            BY <3>3, <6>1 DEF HasLast, IsLast
        <5>. QED
          BY <5>3, <5>4
      <4>. QED
        BY <4>1, <4>2
    <3>6. rewritten' \subseteq DOMAIN rows'
      BY <3>2, <3>3 DEF Store, TypeOK
    <3>7. exists' /\ exists' \in BOOLEAN /\ torn' \in BOOLEAN
      BY <2>2 DEF AppendInsert, Insertable, TypeOK
    <3>8. pc' \in [Appender -> {"idle", "insert"}] /\ DOMAIN pending' = Appender
      BY <2>2 DEF AppendInsert, TypeOK
    <3>9. \A b \in Appender : pc'[b] = "insert" =>
              pending'[b].seq \in Nat /\ pending'[b].data \in Payload
      BY <2>2 DEF AppendInsert, TypeOK
    <3>10. /\ appends' \in 0 .. MaxAppends /\ deletes' \in 0 .. MaxDeletes
           /\ faults' \in 0 .. MaxFaults
      BY <2>2 DEF AppendInsert, TypeOK
    <3>. QED
      BY <3>1, <3>3, <3>4, <3>5, <3>6, <3>7, <3>8, <3>9, <3>10 DEF TypeOK
  <2>3. ASSUME NEW a \in Appender, AppendError(a) PROVE TInv'
    BY <2>3 DEF AppendError, TypeOK, HasLast, IsLast
  <2>4. CASE DeleteForTask
    BY <2>4 DEF DeleteForTask, Clear, Empty, callVars, TypeOK, HasLast
  <2>5. CASE DeleteTask
    BY <2>5 DEF DeleteTask, Clear, Empty, callVars, boundVars, TypeOK, HasLast
  <2>6. CASE UNCHANGED vars
    BY <2>6 DEF vars, callVars, boundVars, TypeOK, HasLast, IsLast
  <2>. QED
    BY <2>1, <2>2, <2>3, <2>4, <2>5, <2>6 DEF Next
<1>. QED
  BY <1>1, <1>2, PTL DEF Spec

\* The log, the appends in progress and the counters keep their types, and the
\* log is empty once its task is gone.
THEOREM LogTypeCorrect == Spec => []TypeOK
<1>1. TInv => TypeOK
  BY DEF TInv
<1>. QED
  BY <1>1, LogTypeInvariant, PTL

-----------------------------------------------------------------------------
(* The chain. *)

\* Storing a new row leaves the hash that belongs to a number alone, where the row
\* before it is stored already.
LEMMA HashBeforeStays ==
    ASSUME NEW event, Store(event), event.seq \notin DOMAIN rows,
           NEW seq, seq # 0 => seq - 1 \in DOMAIN rows
    PROVE  HashBefore(seq)' = HashBefore(seq)
<1>1. CASE seq = 0
  BY <1>1 DEF HashBefore
<1>2. CASE seq # 0
  <2>1. rows'[seq - 1] = rows[seq - 1]
    BY <1>2, StoreAdds
  <2>. QED
    BY <1>2, <2>1 DEF HashBefore
<1>. QED
  BY <1>1, <1>2

\* A row that fits continues a chain without a gap.
LEMMA StoreContinues ==
    ASSUME TInv, Numbered, \A s \in DOMAIN rows : IsLink(s),
           NEW e, Fits(e), Store(e), e.seq \in Nat, e.data \in Payload,
           e.seq \notin DOMAIN rows
    PROVE  Numbered' /\ \A s \in DOMAIN rows' : IsLink(s)'
<1>1. DOMAIN rows' = DOMAIN rows \cup {e.seq} /\ DOMAIN rows \subseteq Nat
  BY StoreAdds DEF TInv, TypeOK
<1>2. Numbered'
  <2>1. \A r \in 0 .. e.seq : r \in DOMAIN rows'
    <3>1. CASE e.seq = 0
      BY <1>1, <3>1
    <3>2. CASE e.seq # 0
      <4>1. e.seq - 1 \in DOMAIN rows
        BY <3>2 DEF Fits
      <4>2. \A r \in 0 .. (e.seq - 1) : r \in DOMAIN rows
        BY <4>1 DEF Numbered
      <4>3. \A r \in 0 .. e.seq : r = e.seq \/ r \in 0 .. (e.seq - 1)
        OBVIOUS
      <4>. QED
        BY <1>1, <4>2, <4>3
    <3>. QED
      BY <3>1, <3>2
  <2>2. \A s \in DOMAIN rows : \A r \in 0 .. s : r \in DOMAIN rows'
    BY <1>1 DEF Numbered
  <2>. QED
    BY <1>1, <2>1, <2>2 DEF Numbered
<1>3. ASSUME NEW s \in DOMAIN rows PROVE IsLink(s)'
  <2>1. s # 0 => s - 1 \in DOMAIN rows
    BY <1>1 DEF Numbered
  <2>2. HashBefore(s)' = HashBefore(s)
    BY <2>1, HashBeforeStays
  <2>3. rows'[s] = rows[s]
    BY StoreAdds
  <2>4. s \in rewritten' <=> s \in rewritten
    BY DEF Store
  <2>5. IsLink(s)
    OBVIOUS
  <2>. QED
    BY <2>2, <2>3, <2>4, <2>5 DEF IsLink
<1>4. IsLink(e.seq)'
  <2>1. HashBefore(e.seq)' = HashBefore(e.seq)
    <3>1. e.seq # 0 => e.seq - 1 \in DOMAIN rows
      BY DEF Fits
    <3>. QED
      BY <3>1, HashBeforeStays
  <2>2. /\ rows'[e.seq].prev = e.prev /\ rows'[e.seq].hash = e.hash
        /\ rows'[e.seq].data = Jsonb[e.data]
    <3>1. rows'[e.seq] = Row(e)
      BY StoreAdds
    <3>. QED
      BY <3>1 DEF Row
  <2>3. e.prev = HashBefore(e.seq) /\ e.hash = ComputeHash(e.prev, e.seq, e.data)
    BY DEF Fits
  <2>4. e.seq \in rewritten' <=> Jsonb[e.data] # e.data
    BY DEF Store, TInv, TypeOK
  <2>. QED
    BY <2>1, <2>2, <2>3, <2>4 DEF IsLink
<1>. QED
  BY <1>1, <1>2, <1>3, <1>4

\* While no deletion came between the statements of an append, the rows are a chain
\* numbered from 0 and every append in progress fits it.
THEOREM ChainInvariant == Spec => []Chain
<1>1. Init => Chain
  BY DEF Init, Chain, Numbered, Empty
<1>2. TInv /\ Chain /\ [Next]_vars => Chain'
  <2> SUFFICES ASSUME TInv, Chain, [Next]_vars PROVE Chain'
    OBVIOUS
  <2>1. ASSUME NEW a \in Appender, AppendSelect(a) PROVE Chain'
    <3> SUFFICES ASSUME ~torn' PROVE Chain'
      BY DEF Chain
    <3>1. ~torn /\ rows' = rows /\ rewritten' = rewritten
      BY <2>1 DEF AppendSelect
    <3>2. Numbered' /\ \A s \in DOMAIN rows' : IsLink(s)'
      BY <3>1 DEF Chain, Numbered, IsLink, HashBefore
    <3>3. Fits(pending[a])'
      <4>1. PICK d \in Payload : pending'[a] = NextEvent(d)
        BY <2>1 DEF AppendSelect, TInv, TypeOK
      <4>2. CASE DOMAIN rows = {} /\ NextEvent(d) = Link(0, NoHash, d)
        BY <3>1, <4>1, <4>2 DEF Fits, Link, HashBefore
      <4>3. ASSUME NEW s \in DOMAIN rows, s \in Nat,
                   NextEvent(d) = Link(s + 1, rows[s].hash, d)
            PROVE  Fits(pending[a])'
        <5>1. s + 1 # 0 /\ (s + 1) - 1 = s
          BY <4>3
        <5>2. pending'[a].seq = s + 1 /\ pending'[a].prev = rows[s].hash
          BY <4>1, <4>3 DEF Link
        <5>3. HashBefore(pending[a].seq)' = rows[s].hash
          BY <3>1, <5>1, <5>2 DEF HashBefore
        <5>. QED
          BY <3>1, <4>1, <4>3, <5>1, <5>2, <5>3 DEF Fits, Link
      <4>. QED
        BY <4>2, <4>3, NextEventLinks DEF TInv
    <3>4. \A b \in Appender \ {a} : pending'[b] = pending[b] /\ pc'[b] = pc[b]
      BY <2>1 DEF AppendSelect, TInv, TypeOK
    <3>5. \A b \in Appender \ {a} : pc'[b] = "insert" => Fits(pending[b])'
      BY <3>1, <3>4 DEF Chain, Fits, HashBefore
    <3>. QED
      BY <3>2, <3>3, <3>5 DEF Chain
  <2>2. ASSUME NEW a \in Appender, AppendInsert(a) PROVE Chain'
    <3> SUFFICES ASSUME ~torn' PROVE Chain'
      BY DEF Chain
    <3>1. ~torn /\ pc[a] = "insert" /\ Store(pending[a]) /\ pending[a].seq \notin DOMAIN rows
      BY <2>2 DEF AppendInsert, Insertable
    <3>2. Numbered /\ (\A s \in DOMAIN rows : IsLink(s)) /\ Fits(pending[a])
      BY <3>1 DEF Chain
    <3>3. pending[a].seq \in Nat /\ pending[a].data \in Payload
      BY <3>1 DEF TInv, TypeOK
    <3>4. Numbered' /\ \A s \in DOMAIN rows' : IsLink(s)'
      BY <3>1, <3>2, <3>3, StoreContinues
    <3>5. ASSUME NEW b \in Appender, pc'[b] = "insert" PROVE Fits(pending[b])'
      <4>1. b # a /\ pc[b] = "insert" /\ pending'[b] = pending[b]
        BY <2>2, <3>5 DEF AppendInsert, TInv, TypeOK
      <4>2. Fits(pending[b])
        BY <3>1, <4>1 DEF Chain
      <4>3. pending[b].seq # 0 => pending[b].seq - 1 \in DOMAIN rows
        BY <4>2 DEF Fits
      <4>4. IF pending[b].seq = 0 THEN TRUE
            ELSE rows'[pending[b].seq - 1] = rows[pending[b].seq - 1]
        BY <3>1, <4>3, StoreAdds
      <4>5. HashBefore(pending[b].seq)' = HashBefore(pending[b].seq)
        BY <4>1, <4>4 DEF HashBefore
      <4>6. DOMAIN rows \subseteq DOMAIN rows'
        BY <3>1, StoreAdds
      <4>. QED
        BY <4>1, <4>2, <4>5, <4>6 DEF Fits
    <3>. QED
      BY <3>4, <3>5 DEF Chain
  <2>3. ASSUME NEW a \in Appender, AppendError(a) PROVE Chain'
    <3>1. \A b \in Appender : pc'[b] = "insert" => pc[b] = "insert" /\ pending'[b] = pending[b]
      BY <2>3 DEF AppendError, TInv, TypeOK
    <3>. QED
      BY <2>3, <3>1 DEF AppendError, Chain, Numbered, IsLink, Fits, HashBefore
  <2>4. ASSUME Clear, UNCHANGED callVars PROVE Chain'
    <3>1. DOMAIN rows' = {}
      BY <2>4 DEF Clear, Empty
    <3>2. ~torn' => \A a \in Appender : pc'[a] # "insert"
      BY <2>4 DEF Clear, callVars
    <3>. QED
      BY <3>1, <3>2 DEF Chain, Numbered
  <2>5. CASE DeleteForTask
    BY <2>4, <2>5 DEF DeleteForTask
  <2>6. CASE DeleteTask
    BY <2>4, <2>6 DEF DeleteTask
  <2>7. CASE UNCHANGED vars
    BY <2>7 DEF vars, callVars, Chain, Numbered, IsLink, Fits, HashBefore
  <2>. QED
    BY <2>1, <2>2, <2>3, <2>5, <2>6, <2>7 DEF Next
<1>. QED
  BY <1>1, <1>2, LogTypeInvariant, PTL DEF Spec

-----------------------------------------------------------------------------
(* What verify_chain accepts. *)

\* A hash tells the number of its event.
IsHashOf(h, seq) == \E prev, d : h = ComputeHash(prev, seq, d)

\* An event carries its own number in its hash, and the number before in hash_prev.
Dated(seq, prev, hash) ==
    /\ IsHashOf(hash, seq)
    /\ seq # 0 => IsHashOf(prev, seq - 1)

\* Below each number there is a last row, and above it a first, or none.
IsAfter(r, q) == q \in DOMAIN rows /\ q > r /\ \A p \in DOMAIN rows : p > r => q <= p
HasNeighbours ==
    \A n \in Nat :
        /\ (\A r \in DOMAIN rows : r >= n) \/ \E r \in DOMAIN rows : IsBefore(r, n)
        /\ (\A r \in DOMAIN rows : r <= n) \/ \E r \in DOMAIN rows : IsAfter(n, r)

\* It holds after a torn append too.
Stamped ==
    /\ HasNeighbours
    /\ \A s \in DOMAIN rows : Dated(s, rows[s].prev, rows[s].hash)
    /\ \A a \in Appender : pc[a] = "insert" => Dated(pending[a].seq, pending[a].prev, pending[a].hash)

\* A new row is a neighbour, or leaves the neighbours there were.
LEMMA StoreNeighbours ==
    ASSUME TInv, HasNeighbours, NEW e, Store(e), e.seq \in Nat
    PROVE  HasNeighbours'
<1> DEFINE m == e.seq
<1>1. DOMAIN rows' = DOMAIN rows \cup {m} /\ DOMAIN rows \subseteq Nat
  BY StoreAdds DEF TInv, TypeOK
<1> SUFFICES ASSUME NEW n \in Nat
             PROVE  /\ (\A r \in DOMAIN rows' : r >= n) \/ \E r \in DOMAIN rows' : IsBefore(r, n)'
                    /\ (\A r \in DOMAIN rows' : r <= n) \/ \E r \in DOMAIN rows' : IsAfter(n, r)'
  BY DEF HasNeighbours
<1> HIDE DEF m
<1>2. m \in Nat
  BY DEF m
<1>3. (\A r \in DOMAIN rows' : r >= n) \/ \E r \in DOMAIN rows' : IsBefore(r, n)'
  <2>1. CASE \A r \in DOMAIN rows : r >= n
    BY <1>1, <1>2, <2>1 DEF IsBefore
  <2>2. ASSUME NEW r \in DOMAIN rows, IsBefore(r, n)
        PROVE  \E q \in DOMAIN rows' : IsBefore(q, n)'
    <3>1. CASE m < n /\ r < m
      <4>1. IsBefore(m, n)'
        BY <1>1, <1>2, <2>2, <3>1 DEF IsBefore
      <4> QED  BY <1>1, <4>1
    <3>2. CASE ~(m < n /\ r < m)
      <4>1. IsBefore(r, n)'
        BY <1>1, <1>2, <2>2, <3>2 DEF IsBefore
      <4> QED  BY <1>1, <4>1
    <3> QED  BY <3>1, <3>2
  <2> QED  BY <2>1, <2>2 DEF HasNeighbours
<1>4. (\A r \in DOMAIN rows' : r <= n) \/ \E r \in DOMAIN rows' : IsAfter(n, r)'
  <2>1. CASE \A r \in DOMAIN rows : r <= n
    BY <1>1, <1>2, <2>1 DEF IsAfter
  <2>2. ASSUME NEW r \in DOMAIN rows, IsAfter(n, r)
        PROVE  \E q \in DOMAIN rows' : IsAfter(n, q)'
    <3>1. CASE m > n /\ m < r
      <4>1. IsAfter(n, m)'
        BY <1>1, <1>2, <2>2, <3>1 DEF IsAfter
      <4> QED  BY <1>1, <4>1
    <3>2. CASE ~(m > n /\ m < r)
      <4>1. IsAfter(n, r)'
        BY <1>1, <1>2, <2>2, <3>2 DEF IsAfter
      <4> QED  BY <1>1, <4>1
    <3> QED  BY <3>1, <3>2
  <2> QED  BY <2>1, <2>2 DEF HasNeighbours
<1> QED  BY <1>3, <1>4

\* Each row and each append in progress names its number and the one before, whatever
\* has been deleted.
THEOREM StampedInvariant == Spec => []Stamped
<1>1. Init => Stamped
  BY DEF Init, Empty, Stamped, HasNeighbours
<1>2. TInv /\ Stamped /\ [Next]_vars => Stamped'
  <2> SUFFICES ASSUME TInv, Stamped, [Next]_vars PROVE Stamped'
    OBVIOUS
  <2>1. ASSUME NEW a \in Appender, AppendSelect(a) PROVE Stamped'
    <3>1. rows' = rows /\ HasNeighbours'
      BY <2>1 DEF AppendSelect, Stamped, HasNeighbours, IsBefore, IsAfter
    <3>2. PICK d \in Payload : pending'[a] = NextEvent(d)
      BY <2>1 DEF AppendSelect, TInv, TypeOK
    <3>3. Dated(pending'[a].seq, pending'[a].prev, pending'[a].hash)
      <4>1. CASE NextEvent(d) = Link(0, NoHash, d)
        BY <3>2, <4>1 DEF Link, Dated, IsHashOf
      <4>2. ASSUME NEW s \in DOMAIN rows, s \in Nat, NextEvent(d) = Link(s + 1, rows[s].hash, d)
            PROVE  Dated(pending'[a].seq, pending'[a].prev, pending'[a].hash)
        <5>1. IsHashOf(rows[s].hash, s) /\ (s + 1) - 1 = s
          BY <4>2 DEF Stamped, Dated
        <5>2. /\ pending'[a].seq = s + 1 /\ pending'[a].prev = rows[s].hash
              /\ pending'[a].hash = ComputeHash(rows[s].hash, s + 1, d)
          BY <3>2, <4>2 DEF Link
        <5> QED  BY <5>1, <5>2 DEF Dated, IsHashOf
      <4> QED  BY <4>1, <4>2, NextEventLinks DEF TInv
    <3>4. \A b \in Appender \ {a} : pending'[b] = pending[b] /\ pc'[b] = pc[b]
      BY <2>1 DEF AppendSelect, TInv, TypeOK
    <3> QED  BY <3>1, <3>3, <3>4 DEF Stamped
  <2>2. ASSUME NEW a \in Appender, AppendInsert(a) PROVE Stamped'
    <3> DEFINE e == pending[a]
    <3>1. Store(e) /\ e.seq \in Nat /\ Dated(e.seq, e.prev, e.hash)
      BY <2>2 DEF AppendInsert, TInv, TypeOK, Stamped
    <3>2. HasNeighbours'
      BY <3>1, StoreNeighbours DEF Stamped
    <3>3. ASSUME NEW s \in DOMAIN rows' PROVE Dated(s, rows'[s].prev, rows'[s].hash)
      <4>1. rows'[e.seq].prev = e.prev /\ rows'[e.seq].hash = e.hash
        <5>1. rows'[e.seq] = Row(e)
          BY <3>1, StoreAdds
        <5> QED  BY <5>1 DEF Row
      <4>2. s # e.seq => s \in DOMAIN rows /\ rows'[s] = rows[s]
        BY <3>1, StoreAdds
      <4> QED  BY <3>1, <4>1, <4>2 DEF Stamped
    <3>4. \A b \in Appender : pc'[b] = "insert" => pc[b] = "insert" /\ pending'[b] = pending[b]
      BY <2>2 DEF AppendInsert, TInv, TypeOK
    <3> QED  BY <3>2, <3>3, <3>4 DEF Stamped
  <2>3. ASSUME NEW a \in Appender, AppendError(a) PROVE Stamped'
    <3>1. \A b \in Appender : pc'[b] = "insert" => pc[b] = "insert" /\ pending'[b] = pending[b]
      BY <2>3 DEF AppendError, TInv, TypeOK
    <3>2. rows' = rows
      BY <2>3 DEF AppendError
    <3> QED  BY <3>1, <3>2 DEF Stamped, HasNeighbours, IsBefore, IsAfter
  <2>4. CASE DeleteForTask \/ DeleteTask
    BY <2>4 DEF DeleteForTask, DeleteTask, Clear, Empty, callVars, Stamped, HasNeighbours
  <2>5. CASE UNCHANGED vars
    BY <2>5 DEF vars, callVars, Stamped, HasNeighbours, IsBefore, IsAfter
  <2> QED  BY <2>1, <2>2, <2>3, <2>4, <2>5 DEF Next
<1> QED  BY <1>1, <1>2, LogTypeInvariant, PTL DEF Spec

\* A row that verify_chain accepts comes right after another one, or first.
LEMMA VerifiedRow ==
    ASSUME TInv, Stamped, VerifyChain, NEW s \in DOMAIN rows, s # 0
    PROVE  s - 1 \in DOMAIN rows
<1>1. s \in Nat /\ DOMAIN rows \subseteq Nat
  BY DEF TInv, TypeOK
<1>2. rows[s].prev = PrevHash(s) /\ IsHashOf(rows[s].prev, s - 1)
  BY DEF VerifyChain, Stamped, Dated
<1>3. CASE \A r \in DOMAIN rows : r >= s
  <2>1. IsHashOf(NoHash, s - 1)
    BY <1>2, <1>3 DEF PrevHash
  <2> QED  BY <2>1 DEF IsHashOf, ComputeHash, NoHash
<1>4. CASE ~ \A r \in DOMAIN rows : r >= s
  <2> DEFINE r == CHOOSE r \in DOMAIN rows : IsBefore(r, s)
  <2>1. \E q \in DOMAIN rows : IsBefore(q, s)
    BY <1>1, <1>4 DEF Stamped, HasNeighbours
  <2>2. r \in DOMAIN rows
    BY <2>1
  <2>3. PrevHash(s) = rows[r].hash
    BY <1>4 DEF PrevHash
  <2>4. IsHashOf(rows[r].hash, r) /\ IsHashOf(rows[r].hash, s - 1)
    BY <1>2, <2>2, <2>3 DEF Stamped, Dated
  <2> HIDE DEF r
  <2>5. r = s - 1
    BY <2>4 DEF IsHashOf, ComputeHash
  <2> QED  BY <2>2, <2>5
<1> QED  BY <1>3, <1>4

\* NumbersWithoutGap holds for any number of appends and deletions: a lost append leaves
\* its number to the next, and verify_chain refuses what a torn one leaves.
THEOREM NumbersWithoutGapHolds == Spec => []NumbersWithoutGap
<1>1. TInv /\ Chain /\ Stamped => NumbersWithoutGap
  <2> SUFFICES ASSUME TInv, Chain, Stamped, ~torn \/ VerifyChain
               PROVE  \A s \in DOMAIN rows : \A r \in 0 .. s : r \in DOMAIN rows
    BY DEF NumbersWithoutGap
  <2>1. CASE ~torn
    BY <2>1 DEF Chain, Numbered
  <2>2. CASE VerifyChain
    <3> SUFFICES ASSUME NEW s \in DOMAIN rows, NEW r \in 0 .. s, r \notin DOMAIN rows
                 PROVE  FALSE
      OBVIOUS
    <3>1. DOMAIN rows \subseteq Nat /\ s \in Nat /\ r \in Nat /\ s > r
      <4>1. DOMAIN rows \subseteq Nat
        BY DEF TInv, TypeOK
      <4> QED  BY <4>1
    <3>2. PICK q \in DOMAIN rows : IsAfter(r, q)
      BY <3>1 DEF Stamped, HasNeighbours
    <3>3. q \in Nat /\ q > r /\ q # 0
      BY <3>1, <3>2 DEF IsAfter
    <3>4. q - 1 \in DOMAIN rows
      BY <2>2, <3>3, VerifiedRow
    <3>5. q - 1 # r
      BY <3>4
    <3>6. q - 1 > r
      BY <3>1, <3>3, <3>5
    <3> QED  BY <3>2, <3>3, <3>4, <3>6 DEF IsAfter
  <2> QED  BY <2>1, <2>2
<1>. QED
  BY <1>1, LogTypeInvariant, ChainInvariant, StampedInvariant, PTL

-----------------------------------------------------------------------------
(* What append() writes is accepted. *)

\* In a log without gaps the row before is the one with the number before.
LEMMA PrevHashIsHashBefore ==
    ASSUME TInv, Numbered, NEW s \in DOMAIN rows
    PROVE  PrevHash(s) = HashBefore(s)
<1>1. DOMAIN rows \subseteq Nat
  BY DEF TInv, TypeOK
<1>2. CASE s = 0
  <2>1. \A r \in DOMAIN rows : r >= s
    BY <1>1, <1>2
  <2>. QED
    BY <1>2, <2>1 DEF PrevHash, HashBefore
<1>3. CASE s # 0
  <2> DEFINE before == CHOOSE r \in DOMAIN rows : IsBefore(r, s)
  <2>1. s - 1 \in DOMAIN rows /\ s \in Nat
    BY <1>1, <1>3 DEF Numbered
  <2>2. IsBefore(s - 1, s)
    BY <1>1, <2>1 DEF IsBefore
  <2>3. before \in DOMAIN rows /\ IsBefore(before, s)
    BY <2>1, <2>2
  <2>4. before < s /\ s - 1 <= before /\ before \in Nat
    BY <1>1, <2>1, <2>3 DEF IsBefore
  <2>5. before = s - 1
    BY <2>1, <2>4
  <2>6. ~ \A r \in DOMAIN rows : r >= s
    BY <2>1
  <2>7. PrevHash(s) = rows[before].hash
    BY <2>6 DEF PrevHash
  <2>. QED
    BY <1>3, <2>5, <2>7 DEF HashBefore
<1>. QED
  BY <1>2, <1>3

\* ChainVerifies holds for any number of appends: verify_chain accepts what append()
\* wrote unless JSONB has changed a payload, and then it does not.
THEOREM ChainVerifiesHolds == Spec => []ChainVerifies
<1>1. TInv /\ Chain => ChainVerifies
  <2> SUFFICES ASSUME TInv, Chain, ~torn PROVE VerifyChain <=> rewritten = {}
    BY DEF ChainVerifies
  <2>1. Numbered /\ \A s \in DOMAIN rows : IsLink(s)
    BY DEF Chain
  <2>2. ASSUME NEW s \in DOMAIN rows
        PROVE  /\ rows[s].prev = PrevHash(s)
               /\ rows[s].hash = ComputeHash(PrevHash(s), s, rows[s].data) <=> s \notin rewritten
    <3>1. PrevHash(s) = HashBefore(s)
      BY <2>1, PrevHashIsHashBefore
    <3>2. rows[s].prev = PrevHash(s)
      BY <2>1, <3>1 DEF IsLink
    <3>3. PICK d \in Payload : /\ rows[s].hash = ComputeHash(rows[s].prev, s, d)
                               /\ rows[s].data = Jsonb[d]
                               /\ s \in rewritten <=> Jsonb[d] # d
      BY <2>1 DEF IsLink
    <3>4. rows[s].hash = ComputeHash(PrevHash(s), s, rows[s].data) <=> d = rows[s].data
      BY <3>2, <3>3 DEF ComputeHash
    <3>. QED
      BY <3>2, <3>3, <3>4
  <2>3. rewritten \subseteq DOMAIN rows
    BY DEF TInv, TypeOK
  <2>. QED
    BY <2>2, <2>3 DEF VerifyChain
<1>. QED
  BY <1>1, LogTypeInvariant, ChainInvariant, PTL

\* AnsweredIsStored holds for any number of appends: no row takes the place of
\* another.
THEOREM AnsweredIsStoredHolds == Spec => []AnsweredIsStored
<1>1. Init => AnsweredIsStored
  BY DEF Init, AnsweredIsStored
<1>2. AnsweredIsStored /\ [Next]_vars => AnsweredIsStored'
  <2> SUFFICES ASSUME AnsweredIsStored, [Next]_vars PROVE AnsweredIsStored'
    OBVIOUS
  <2>1. ASSUME NEW a \in Appender, AppendInsert(a) PROVE AnsweredIsStored'
    <3>1. Store(pending[a]) /\ pending[a].seq \notin DOMAIN rows
      BY <2>1 DEF AppendInsert, Insertable
    <3>2. answered' \subseteq answered \cup {[seq |-> pending[a].seq, hash |-> pending[a].hash]}
      BY <2>1 DEF AppendInsert
    <3>3. \A e \in answered : e.seq \in DOMAIN rows' /\ rows'[e.seq].hash = e.hash
      BY <3>1, StoreAdds DEF AnsweredIsStored
    <3>4. /\ pending[a].seq \in DOMAIN rows'
          /\ rows'[pending[a].seq].hash = pending[a].hash
      <4>1. rows'[pending[a].seq] = Row(pending[a]) /\ pending[a].seq \in DOMAIN rows'
        BY <3>1, StoreAdds
      <4>. QED
        BY <4>1 DEF Row
    <3>. QED
      BY <3>2, <3>3, <3>4 DEF AnsweredIsStored
  <2>2. CASE DeleteForTask \/ DeleteTask
    BY <2>2 DEF DeleteForTask, DeleteTask, Clear, AnsweredIsStored
  <2>3. ASSUME NEW a \in Appender, AppendSelect(a) \/ AppendError(a) PROVE AnsweredIsStored'
    BY <2>3 DEF AppendSelect, AppendError, AnsweredIsStored
  <2>4. CASE UNCHANGED vars
    BY <2>4 DEF vars, AnsweredIsStored
  <2>. QED
    BY <2>1, <2>2, <2>3, <2>4 DEF Next
<1>. QED
  BY <1>1, <1>2, PTL DEF Spec
=============================================================================
