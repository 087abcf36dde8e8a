--------------------------- MODULE EventStreamProofs ---------------------------
(***************************************************************************)
(* Theorems about EventStream, for a batch, a page and a stream of any     *)
(* length and any number of failures, foreign entries and trimmed entries. *)
(***************************************************************************)
EXTENDS EventStream, FiniteSetTheorems, TLAPS

(* Ids. *)

LEMMA IdOrder ==
    ASSUME NEW i \in Id, NEW j \in Id
    PROVE  /\ ~Before(i, i)
           /\ Before(i, j) => ~Before(j, i)
           /\ Before(i, j) \/ Before(j, i) \/ i = j
BY DEF Id, Before

LEMMA IdTransitive ==
    ASSUME NEW i \in Id, NEW j \in Id, NEW k \in Id
    PROVE  /\ Before(i, j) /\ ~Before(k, j) => Before(i, k)
           /\ ~Before(j, i) /\ Before(j, k) => Before(i, k)
           /\ ~Before(j, i) /\ ~Before(k, j) => ~Before(k, i)
BY DEF Id, Before

\* XADD gives an entry an id after each one before it.
LEMMA AddEntry ==
    ASSUME TypeOK, NEW n \in 0 .. BatchSize, Add(n)
    PROVE  \E e \in Entry :
              stream' = stream \cup {e} /\ e.nth = n /\ e.id = lastId' /\ Before(lastId, e.id)
<1>1. PICK now \in Clock :
        LET id == IF now > lastId[1] THEN <<now, 0>> ELSE <<lastId[1], lastId[2] + 1>>
        IN  stream' = stream \cup {[id |-> id, nth |-> n]} /\ lastId' = id
  BY DEF Add
<1> DEFINE id == IF now > lastId[1] THEN <<now, 0>> ELSE <<lastId[1], lastId[2] + 1>>
<1>2. now \in Nat /\ lastId \in Nat \X Nat /\ n \in Nat
  BY StreamAssumption DEF TypeOK, Id
<1>3. id \in Id /\ Before(lastId, id)
  BY <1>2 DEF Id, Before
<1>4. [id |-> id, nth |-> n] \in Entry
  BY <1>2, <1>3 DEF Entry
<1> QED  BY <1>1, <1>3, <1>4

\* What a step does to the entries: XADD, XTRIM, or nothing.
Appended(e) == stream' = stream \cup {e} /\ trimmed' = trimmed /\ e.id = lastId' /\ Before(lastId, e.id)
Removed(e) ==
    /\ e \in stream /\ \A f \in stream \ {e} : Before(e.id, f.id)
    /\ stream' = stream \ {e} /\ trimmed' = trimmed \cup {e} /\ lastId' = lastId
EntriesKept == UNCHANGED <<stream, trimmed, lastId>>

LEMMA EntrySteps ==
    ASSUME TypeOK, [Next]_vars
    PROVE  \/ \E e \in Entry : Appended(e)
           \/ \E e \in Entry : Removed(e)
           \/ EntriesKept
<1>1. nth \in 0 .. BatchSize /\ 0 \in 0 .. BatchSize
  BY StreamAssumption DEF TypeOK
<1>2. CASE XaddOk
  BY <1>1, <1>2, AddEntry DEF XaddOk, Appended
<1>3. CASE XaddFails
  BY <1>1, <1>3, AddEntry DEF XaddFails, XaddLost, Appended, EntriesKept
<1>4. CASE ForeignEntry
  BY <1>1, <1>4, AddEntry DEF ForeignEntry, Appended
<1>5. CASE Trim
  BY <1>5 DEF Trim, TypeOK, Removed
<1>6. CASE ReadPage \/ ReadFails \/ GetLagInfo \/ UNCHANGED vars
  BY <1>6 DEF ReadPage, ReadFails, GetLagInfo, LagLatest, LagLength, LagRange, vars, EntriesKept
<1> QED  BY <1>2, <1>3, <1>4, <1>5, <1>6 DEF Next

-----------------------------------------------------------------------------
(* Types. *)

LEMMA QueryType ==
    ASSUME TypeOK, GetLagInfo
    PROVE  query' \in Query /\ IsFiniteSet(query'.counted) /\ faults' \in 0 .. MaxFaults
<1>1. \A seen : Answers(seen) => seen \in {stream, {}} /\ faults' \in 0 .. MaxFaults
  BY StreamAssumption DEF Answers, TypeOK
<1>2. IsFiniteSet({}) /\ <<0, 0>> \in Id
  BY FS_EmptySet DEF Id
<1>3. CASE LagLatest
  <2>1. PICK e \in stream \cup trimmed, id \in {<<0, 0>>} \cup {f.id : f \in stream}, seen \in {stream, {}} :
          /\ Answers(seen)
          /\ query' = [query EXCEPT !.pc = "latest", !.position = e.id, !.latest = id, !.lag = 0]
    BY <1>3 DEF LagLatest
  <2>2. e.id \in Id /\ id \in Id
    BY <1>2 DEF TypeOK, Entry
  <2>3. query' \in Query /\ query'.counted = query.counted
    BY <2>1, <2>2 DEF TypeOK, Query
  <2> QED  BY <1>1, <2>1, <2>3 DEF TypeOK
<1>4. CASE LagLength
  <2>1. PICK seen \in {stream, {}} : Answers(seen) /\ query' = [query EXCEPT !.pc = "counted", !.counted = seen]
    BY <1>4 DEF LagLength
  <2>2. seen \subseteq Entry /\ IsFiniteSet(seen)
    BY <1>2 DEF TypeOK
  <2>3. query' \in Query /\ query'.counted = seen
    BY <2>1, <2>2 DEF TypeOK, Query
  <2> QED  BY <1>1, <2>1, <2>2, <2>3
<1>5. CASE LagRange
  <2>1. PICK seen \in {stream, {}} :
          /\ Answers(seen)
          /\ query' = [query EXCEPT !.pc = "none", !.counted = {},
                         !.lag = SaturatingLag(Cardinality(query.counted), UpTo(query.position, seen))]
    BY <1>5 DEF LagRange
  <2>2. Cardinality(query.counted) \in Nat
    BY FS_CardinalityType DEF TypeOK
  <2>3. IsFiniteSet(UpTo(query.position, seen))
    BY <1>2, FS_Subset DEF TypeOK, UpTo
  <2>4. Cardinality(UpTo(query.position, seen)) \in Nat
    BY <2>3, FS_CardinalityType
  <2>5. SaturatingLag(Cardinality(query.counted), UpTo(query.position, seen)) \in Nat
    BY <2>2, <2>4 DEF SaturatingLag
  <2> QED  BY <1>1, <1>2, <2>1, <2>5 DEF TypeOK, Query
<1> QED  BY <1>3, <1>4, <1>5 DEF GetLagInfo

LEMMA EntriesType ==
    ASSUME TypeOK, [Next]_vars
    PROVE  /\ stream' \subseteq Entry /\ trimmed' \subseteq Entry
           /\ IsFiniteSet(stream') /\ IsFiniteSet(trimmed') /\ lastId' \in Id
<1>1. CASE \E e \in Entry : Appended(e)
  BY <1>1, FS_AddElement DEF TypeOK, Appended, Entry
<1>2. CASE \E e \in Entry : Removed(e)
  <2>1. PICK e \in Entry : Removed(e)
    BY <1>2
  <2>2. IsFiniteSet(stream \ {e})
    BY FS_RemoveElement DEF TypeOK
  <2>3. IsFiniteSet(trimmed \cup {e})
    BY FS_AddElement DEF TypeOK
  <2> QED  BY <2>1, <2>2, <2>3 DEF TypeOK, Removed
<1>3. CASE EntriesKept
  BY <1>3 DEF TypeOK, EntriesKept
<1> QED  BY <1>1, <1>2, <1>3, EntrySteps

LEMMA WriterType ==
    ASSUME TypeOK, XaddOk \/ XaddFails
    PROVE  /\ wpc' \in {"xadd", "ok", "error"} /\ nth' \in 1 .. BatchSize
           /\ attempt' \in 0 .. MaxRetries /\ faults' \in 0 .. MaxFaults
<1>1. BatchSize \in Nat /\ MaxRetries \in Nat /\ MaxFaults \in Nat
  BY StreamAssumption
<1>2. CASE XaddOk
  BY <1>1, <1>2 DEF XaddOk, TypeOK
<1>3. CASE XaddFails
  BY <1>1, <1>3 DEF XaddFails, XaddLost, TypeOK
<1> QED  BY <1>2, <1>3

LEMMA ReaderType ==
    ASSUME TypeOK, ReadPage
    PROVE  /\ rpc' \in {"read", "done", "error"} /\ cursor' \in Id
           /\ batch' \subseteq Entry /\ got' \subseteq Entry
<1>1. PICK page \in SUBSET After(cursor) :
        /\ batch' = EventsOf(page)
        /\ IF EventsOf(page) = {} THEN UNCHANGED cursor ELSE Advance(EventsOf(page))
        /\ rpc' = IF mode = "all" /\ EndOfStream(EventsOf(page)) THEN "done" ELSE "read"
  BY DEF ReadPage
<1>2. EventsOf(page) \subseteq Entry
  BY DEF EventsOf, After, TypeOK
<1>3. cursor' \in Id
  BY <1>1, <1>2 DEF Advance, Entry, TypeOK
<1> QED  BY <1>1, <1>2, <1>3 DEF ReadPage, TypeOK

\* The code behaviour: attempts stay within max_retries, the writer at an event
\* of its batch, the cursor is an id and the lag a number.
THEOREM TypeCorrect == Spec => []TypeOK
<1>1. Init => TypeOK
  BY StreamAssumption, FS_EmptySet DEF Init, TypeOK, Id, Query
<1>2. TypeOK /\ [Next]_vars => TypeOK'
  <2> SUFFICES ASSUME TypeOK, [Next]_vars PROVE TypeOK'
    OBVIOUS
  <2>1. /\ stream' \subseteq Entry /\ trimmed' \subseteq Entry
        /\ IsFiniteSet(stream') /\ IsFiniteSet(trimmed') /\ lastId' \in Id
    BY EntriesType
  <2>2. CASE XaddOk \/ XaddFails
    BY <2>1, <2>2, WriterType DEF XaddOk, XaddFails, XaddLost, readerVars, TypeOK
  <2>3. CASE ForeignEntry
    BY <2>1, <2>3, StreamAssumption DEF ForeignEntry, writerVars, readerVars, TypeOK
  <2>4. CASE Trim
    BY <2>1, <2>4 DEF Trim, writerVars, readerVars, TypeOK
  <2>5. CASE ReadPage
    BY <2>1, <2>5, ReaderType DEF ReadPage, writerVars, TypeOK
  <2>6. CASE ReadFails
    BY <2>1, <2>6, StreamAssumption DEF ReadFails, writerVars, TypeOK
  <2>7. CASE GetLagInfo
    BY <2>1, <2>7, QueryType DEF GetLagInfo, LagLatest, LagLength, LagRange, writerVars, readerVars, TypeOK
  <2>8. CASE UNCHANGED vars
    BY <2>1, <2>8 DEF vars, writerVars, readerVars, TypeOK
  <2> QED  BY <2>2, <2>3, <2>4, <2>5, <2>6, <2>7, <2>8 DEF Next
<1> QED  BY <1>1, <1>2, PTL DEF Spec

-----------------------------------------------------------------------------
(* The order of the entries. *)

\* lastId is the last id, what is trimmed is older than the rest, and any part of
\* the stream has a first entry.
Ordered ==
    /\ \A e \in Written : ~Before(lastId, e.id)
    /\ \A e \in trimmed, f \in stream : Before(e.id, f.id)
    /\ \A e, f \in stream : e.id = f.id => e = f
    /\ \A S \in SUBSET stream : S # {} => \E e \in S : \A f \in S \ {e} : Before(e.id, f.id)

LEMMA AppendedOrder ==
    ASSUME TypeOK, Ordered, NEW e \in Entry, Appended(e)
    PROVE  Ordered'
<1>1. /\ stream' = stream \cup {e} /\ trimmed' = trimmed /\ lastId' = e.id
      /\ Written' = Written \cup {e}
  BY DEF Appended, Written
<1>2. e.id \in Id /\ lastId \in Id /\ \A f \in Written : f.id \in Id
  BY DEF TypeOK, Entry, Written
<1>3. \A f \in Written : Before(f.id, e.id)
  BY <1>2, IdTransitive DEF Ordered, Appended
<1>4. \A f \in Written' : ~Before(lastId', f.id)
  BY <1>1, <1>2, <1>3, IdOrder
<1>5. \A d \in trimmed', f \in stream' : Before(d.id, f.id)
  BY <1>1, <1>3 DEF Ordered, Written
<1>6. \A d, f \in stream' : d.id = f.id => d = f
  BY <1>1, <1>2, <1>3, IdOrder DEF Ordered, Written
<1>7. ASSUME NEW S \in SUBSET stream', S # {}
      PROVE  \E d \in S : \A f \in S \ {d} : Before(d.id, f.id)
  <2>1. CASE S \ {e} = {}
    BY <1>7, <2>1
  <2>2. CASE S \ {e} # {}
    <3>1. S \ {e} \in SUBSET stream
      BY <1>1
    <3>2. PICK d \in S \ {e} : \A f \in (S \ {e}) \ {d} : Before(d.id, f.id)
      BY <2>2, <3>1 DEF Ordered
    <3>3. Before(d.id, e.id)
      BY <1>3, <3>1, <3>2 DEF Written
    <3> QED  BY <3>2, <3>3
  <2> QED  BY <2>1, <2>2
<1> QED  BY <1>4, <1>5, <1>6, <1>7 DEF Ordered

LEMMA RemovedOrder ==
    ASSUME TypeOK, Ordered, NEW e \in Entry, Removed(e)
    PROVE  Ordered'
<1>1. /\ e \in stream /\ stream' = stream \ {e} /\ trimmed' = trimmed \cup {e}
      /\ lastId' = lastId /\ Written' = Written
  BY DEF Removed, Written
<1>2. \A d \in trimmed', f \in stream' : Before(d.id, f.id)
  BY <1>1 DEF Ordered, Removed
<1>3. \A S \in SUBSET stream' : S \in SUBSET stream
  BY <1>1
<1> QED  BY <1>1, <1>2, <1>3 DEF Ordered

LEMMA OrderedKept == ASSUME Ordered, EntriesKept PROVE Ordered'
BY DEF Ordered, EntriesKept, Written

\* The code behaviour: Redis orders the entries by id, whatever its clock does.
THEOREM OrderInvariant == Spec => []Ordered
<1>1. Init => Ordered
  BY DEF Init, Ordered, Written
<1>2. TypeOK /\ Ordered /\ [Next]_vars => Ordered'
  BY EntrySteps, AppendedOrder, RemovedOrder, OrderedKept
<1> QED  BY <1>1, <1>2, TypeCorrect, PTL DEF Spec

\* A step keeps what is written, and adds only after lastId.
LEMMA WrittenGrows ==
    ASSUME TypeOK, [Next]_vars
    PROVE  /\ Written \subseteq Written'
           /\ \A e \in stream' \ stream : Before(lastId, e.id)
           /\ ~Before(lastId', lastId)
<1>1. lastId \in Id
  BY DEF TypeOK
<1>2. CASE \E e \in Entry : Appended(e)
  BY <1>1, <1>2, IdOrder DEF Appended, Written, Entry
<1>3. CASE (\E e \in Entry : Removed(e)) \/ EntriesKept
  BY <1>1, <1>3, IdOrder DEF Removed, EntriesKept, Written
<1> QED  BY <1>2, <1>3, EntrySteps

-----------------------------------------------------------------------------
(* ReaderSkipsNothing and LossIsDetected. *)

\* The cursor is at an entry, what was returned is not after it, and all that is
\* readable up to it was returned.
Place ==
    /\ ~Before(lastId, cursor)
    /\ cursor = <<0, 0>> \/ \E e \in Written : e.id = cursor
    /\ \A e \in Delivered : ~Before(cursor, e.id)
    /\ \A e \in got, f \in batch : Before(e.id, f.id)
    /\ \A e \in stream : Readable(e) /\ ~Before(cursor, e.id) => e \in Delivered

LEMMA PlaceOfPage ==
    ASSUME TypeOK, TypeOK', Ordered, Place, ReadPage
    PROVE  Place'
<1>1. PICK page \in SUBSET After(cursor) :
        /\ IsPage(page) /\ batch' = EventsOf(page)
        /\ IF EventsOf(page) = {} THEN UNCHANGED cursor ELSE Advance(EventsOf(page))
  BY DEF ReadPage
<1>2. got' = got \cup batch /\ UNCHANGED <<stream, trimmed, lastId>>
  BY DEF ReadPage
<1>3. /\ \A e \in page : e \in stream /\ Before(cursor, e.id)
      /\ \A e \in page, f \in After(cursor) \ page : Before(e.id, f.id)
      /\ \A e \in batch' : e \in page /\ Readable(e)
      /\ \A e \in page : Readable(e) => e \in batch'
  BY <1>1 DEF IsPage, After, EventsOf
<1>4. cursor \in Id /\ cursor' \in Id /\ lastId \in Id /\ \A e \in Delivered \cup stream : e.id \in Id
  BY DEF TypeOK, Entry, Delivered
<1>5. CASE EventsOf(page) = {}
  <2>1. cursor' = cursor /\ batch' = {} /\ Delivered' = Delivered /\ Written' = Written
    BY <1>1, <1>2, <1>5 DEF Delivered, Written
  <2> QED  BY <1>2, <2>1 DEF Place, Delivered
<1>6. CASE EventsOf(page) # {}
  <2>1. PICK e \in batch' : /\ \A f \in batch' \ {e} : Before(f.id, e.id)
                            /\ cursor' = e.id
    BY <1>1, <1>6 DEF Advance
  <2>2. e \in stream /\ e \in page /\ Before(cursor, cursor')
    BY <1>3, <2>1
  <2>3. \A f \in got' : ~Before(cursor, f.id)
    BY <1>2 DEF Place, Delivered
  <2>4. \A f \in Delivered' : ~Before(cursor', f.id)
    <3>1. \A f \in got' : ~Before(cursor', f.id)
      BY <1>2, <1>4, <2>2, <2>3, IdTransitive, IdOrder DEF Delivered
    <3>2. \A f \in batch' : ~Before(cursor', f.id)
      BY <1>3, <1>4, <2>1, IdOrder
    <3> QED  BY <3>1, <3>2 DEF Delivered
  <2>5. \A d \in got', f \in batch' : Before(d.id, f.id)
    BY <1>2, <1>3, <1>4, <2>3, IdTransitive DEF Delivered
  <2>6. ASSUME NEW f \in stream, Readable(f), ~Before(cursor', f.id) PROVE f \in Delivered'
    <3>1. CASE ~Before(cursor, f.id)
      BY <1>2, <2>6, <3>1 DEF Place, Delivered
    <3>2. CASE Before(cursor, f.id)
      <4>1. f \in page
        BY <1>3, <2>1, <2>2, <2>6, <3>2 DEF After
      <4> QED  BY <1>3, <2>6, <4>1 DEF Delivered
    <3> QED  BY <3>1, <3>2
  <2>7. ~Before(lastId, cursor') /\ \E d \in Written' : d.id = cursor'
    <3>1. e \in Written' /\ e \in Written
      BY <1>2, <2>2 DEF Written
    <3> QED  BY <2>1, <3>1 DEF Ordered
  <2> QED  BY <1>2, <2>4, <2>5, <2>6, <2>7 DEF Place
<1> QED  BY <1>5, <1>6

LEMMA PlaceKept ==
    ASSUME TypeOK, Place, [Next]_vars, UNCHANGED <<cursor, batch, got>>
    PROVE  Place'
<1>1. /\ Written \subseteq Written' /\ ~Before(lastId', lastId)
      /\ \A e \in stream' \ stream : Before(lastId, e.id)
  BY WrittenGrows
<1>2. cursor \in Id /\ lastId \in Id /\ lastId' \in Id /\ Delivered' = Delivered
  BY EntriesType DEF TypeOK, Delivered
<1>3. ~Before(lastId', cursor)
  BY <1>1, <1>2, IdTransitive DEF Place
<1>4. \A e \in stream' : Readable(e) /\ ~Before(cursor, e.id) => e \in Delivered
  <2>1. ASSUME NEW e \in stream', e \notin stream PROVE Before(cursor, e.id)
    <3>1. e.id \in Id /\ Before(lastId, e.id)
      BY <1>1, <2>1, EntriesType DEF Entry
    <3> QED  BY <1>2, <3>1, IdTransitive DEF Place
  <2> QED  BY <2>1 DEF Place
<1> QED  BY <1>1, <1>2, <1>3, <1>4 DEF Place

\* The code behaviour: last_id moves to the last readable entry of a page, and
\* with it everything readable before it has been returned.
THEOREM PlaceInvariant == Spec => []Place
<1>1. Init => Place
  BY IdOrder DEF Init, Place, Delivered, Written, Id
<1>2. TypeOK /\ TypeOK' /\ Ordered /\ Place /\ [Next]_vars => Place'
  <2> SUFFICES ASSUME TypeOK, TypeOK', Ordered, Place, [Next]_vars PROVE Place'
    OBVIOUS
  <2>1. CASE ReadPage
    BY <2>1, PlaceOfPage
  <2>2. CASE ~ReadPage
    <3>1. UNCHANGED <<cursor, batch, got>>
      BY <2>2 DEF Next, vars, readerVars, XaddOk, XaddFails, XaddLost, ForeignEntry, Trim, ReadFails,
                  GetLagInfo, LagLatest, LagLength, LagRange
    <3> QED  BY <3>1, PlaceKept
  <2> QED  BY <2>1, <2>2
<1> QED  BY <1>1, <1>2, TypeCorrect, OrderInvariant, PTL DEF Spec

\* The code behaviour: read_all, and a loop around read_live, return each readable
\* entry up to the cursor, once and in order, for pages of any size.
THEOREM ReaderSkipsNothingHolds == Spec => []ReaderSkipsNothing
<1>1. Place => ReaderSkipsNothing
  BY DEF Place, ReaderSkipsNothing
<1> QED  BY <1>1, PlaceInvariant, PTL

LEMMA CompareIsBefore ==
    ASSUME NEW i \in Id, NEW j \in Id
    PROVE  CompareStreamIds(i, j) < 0 <=> Before(i, j)
BY DEF CompareStreamIds, Before, Id

\* The code behaviour: detect_gap compares the cursor with the first entry of the
\* stream, which is after the cursor exactly when the cursor's own entry is gone.
THEOREM LossIsDetectedHolds == Spec => []LossIsDetected
<1>1. TypeOK /\ Ordered /\ Place => LossIsDetected
  <2> SUFFICES ASSUME TypeOK, Ordered, Place, cursor # <<0, 0>>
               PROVE  /\ (\E e \in trimmed : Before(cursor, e.id)) /\ stream # {} => DetectGap(cursor)
                      /\ DetectGap(cursor) => \E e \in trimmed : e.id = cursor
    BY DEF LossIsDetected
  <2>1. cursor \in Id /\ \A e \in stream \cup trimmed : e.id \in Id
    BY DEF TypeOK, Entry
  <2>2. ASSUME NEW e \in trimmed, Before(cursor, e.id), stream # {} PROVE DetectGap(cursor)
    <3>1. PICK f \in stream : \A g \in stream \ {f} : Before(f.id, g.id)
      BY <2>2 DEF Ordered
    <3>2. Before(e.id, f.id)
      BY DEF Ordered
    <3>3. Before(cursor, f.id)
      BY <2>1, <2>2, <3>2, IdTransitive, IdOrder
    <3> QED  BY <2>1, <3>1, <3>3, CompareIsBefore DEF DetectGap, IsEarliest
  <2>3. ASSUME NEW f \in stream, IsEarliest(f), CompareStreamIds(cursor, f.id) < 0
        PROVE  \E e \in trimmed : e.id = cursor
    <3>1. Before(cursor, f.id)
      BY <2>1, <2>3, CompareIsBefore
    <3>2. \A g \in stream : ~Before(g.id, f.id)
      BY <2>1, <2>3, IdOrder DEF IsEarliest
    <3>3. PICK e \in Written : e.id = cursor
      BY DEF Place
    <3> QED  BY <3>1, <3>2, <3>3 DEF Written
  <2> QED  BY <2>2, <2>3 DEF DetectGap
<1> QED  BY <1>1, TypeCorrect, OrderInvariant, PlaceInvariant, PTL

-----------------------------------------------------------------------------
(* LagIsBacklog. *)

\* What get_lag_info knows: the position is an id that was reached, and what has
\* been added since XLEN is after it.
Measured ==
    query.pc # "none" =>
        /\ ~Before(lastId, query.position)
        /\ query.latest = <<0, 0>> \/ ~Before(query.latest, query.position)
        /\ query.pc = "counted" /\ query.counted # {} =>
               \A e \in stream \ query.counted : Before(query.position, e.id)

LEMMA MeasuredKept ==
    ASSUME TypeOK, Measured, [Next]_vars, UNCHANGED query
    PROVE  Measured'
<1>1. /\ ~Before(lastId', lastId)
      /\ \A e \in stream' \ stream : Before(lastId, e.id)
  BY WrittenGrows
<1>2. query.position \in Id /\ lastId \in Id /\ lastId' \in Id
  BY EntriesType DEF TypeOK, Query
<1>3. ASSUME query.pc # "none"
      PROVE  /\ ~Before(lastId', query.position)
             /\ \A e \in stream' \ stream : Before(query.position, e.id)
  <2>1. ~Before(lastId', query.position)
    BY <1>1, <1>2, <1>3, IdTransitive DEF Measured
  <2>2. ASSUME NEW e \in stream' \ stream PROVE Before(query.position, e.id)
    <3>1. e.id \in Id /\ Before(lastId, e.id)
      BY <1>1, EntriesType DEF Entry
    <3> QED  BY <1>2, <1>3, <3>1, IdTransitive DEF Measured
  <2> QED  BY <2>1, <2>2
<1> QED  BY <1>3 DEF Measured

LEMMA LatestMeasured ==
    ASSUME TypeOK, Ordered, LagLatest
    PROVE  Measured'
<1>1. PICK e \in stream \cup trimmed, id \in {<<0, 0>>} \cup {f.id : f \in stream}, seen \in {stream, {}} :
        /\ IsLatest(id, seen)
        /\ query' = [query EXCEPT !.pc = "latest", !.position = e.id, !.latest = id, !.lag = 0]
  BY DEF LagLatest
<1>2. lastId' = lastId /\ query'.pc = "latest" /\ query'.position = e.id /\ query'.latest = id
  BY <1>1 DEF LagLatest, TypeOK, Query
<1>3. ~Before(lastId, e.id) /\ \A f \in stream \cup trimmed : f.id \in Id
  BY DEF Ordered, Written, TypeOK, Entry
<1>4. id = <<0, 0>> \/ ~Before(id, e.id)
  <2>1. CASE seen = {}
    BY <1>1, <2>1 DEF IsLatest
  <2>2. CASE seen # {}
    <3>1. PICK d \in stream : id = d.id /\ \A f \in stream \ {d} : Before(f.id, id)
      BY <1>1, <2>2 DEF IsLatest
    <3>2. CASE e \in stream
      BY <1>3, <3>1, <3>2, IdOrder
    <3>3. CASE e \in trimmed
      <4>1. Before(e.id, id)
        BY <3>1, <3>3 DEF Ordered
      <4> QED  BY <1>3, <3>1, <4>1, IdOrder
    <3> QED  BY <3>2, <3>3
  <2> QED  BY <2>1, <2>2
<1> QED  BY <1>2, <1>3, <1>4 DEF Measured

LEMMA LengthMeasured ==
    ASSUME TypeOK, Measured, LagLength
    PROVE  Measured'
<1>1. PICK seen \in {stream, {}} : query' = [query EXCEPT !.pc = "counted", !.counted = seen]
  BY DEF LagLength
<1>2. /\ query'.pc = "counted" /\ query'.counted = seen /\ query'.position = query.position
      /\ query'.latest = query.latest /\ stream' = stream /\ lastId' = lastId /\ query.pc = "latest"
  BY <1>1 DEF LagLength, TypeOK, Query
<1> QED  BY <1>2 DEF Measured

\* The code behaviour: between the commands of get_lag_info the stream only grows
\* after the position, however its oldest entries are trimmed.
THEOREM LagInvariant == Spec => []Measured
<1>1. Init => Measured
  BY DEF Init, Measured
<1>2. TypeOK /\ Ordered /\ Measured /\ [Next]_vars => Measured'
  <2> SUFFICES ASSUME TypeOK, Ordered, Measured, [Next]_vars PROVE Measured'
    OBVIOUS
  <2>1. CASE LagLatest
    BY <2>1, LatestMeasured
  <2>2. CASE LagLength
    BY <2>2, LengthMeasured
  <2>3. CASE LagRange
    BY <2>3 DEF LagRange, Measured, TypeOK, Query
  <2>4. CASE ~GetLagInfo
    <3>1. UNCHANGED query
      BY <2>4 DEF Next, vars, XaddOk, XaddFails, XaddLost, ForeignEntry, Trim, ReadPage, ReadFails
    <3> QED  BY <3>1, MeasuredKept
  <2> QED  BY <2>1, <2>2, <2>3, <2>4 DEF GetLagInfo
<1> QED  BY <1>1, <1>2, TypeCorrect, OrderInvariant, PTL DEF Spec

LEMMA TwoParts ==
    ASSUME NEW S, IsFiniteSet(S), NEW T \in SUBSET S
    PROVE  /\ IsFiniteSet(T) /\ IsFiniteSet(S \ T)
           /\ {Cardinality(S), Cardinality(T), Cardinality(S \ T)} \subseteq Nat
           /\ Cardinality(S) = Cardinality(T) + Cardinality(S \ T)
<1>1. S \cap T = T
  OBVIOUS
<1>2. IsFiniteSet(T) /\ IsFiniteSet(S \ T) /\ Cardinality(S \ T) = Cardinality(S) - Cardinality(T)
  <2>1. IsFiniteSet(T)
    BY FS_Subset
  <2>2. IsFiniteSet(S \ T) /\ Cardinality(S \ T) = Cardinality(S) - Cardinality(S \cap T)
    BY FS_Difference
  <2> QED  BY <1>1, <2>1, <2>2
<1>3. {Cardinality(S), Cardinality(T), Cardinality(S \ T)} \subseteq Nat
  BY <1>2, FS_CardinalityType
<1> QED  BY <1>2, <1>3

\* The code behaviour: calculate_lag subtracts what XRANGE finds up to the position
\* from what XLEN counted before it.
THEOREM LagIsBacklogHolds == Spec => LagIsBacklog
<1> DEFINE Answered ==
      query.pc = "counted" /\ query'.pc = "none" /\ query.counted # {} /\ faults' = faults
    Exact ==
      /\ query'.lag =
            Cardinality({e \in query.counted : Before(query.position, e.id)})
            + Cardinality({e \in query.counted \ stream : ~Before(query.position, e.id)})
      /\ query.latest = <<0, 0>> \/ ~Before(query.latest, query.position)
<1>1. TypeOK /\ Measured /\ [Next]_vars => [Answered => Exact]_vars
  <2> SUFFICES ASSUME TypeOK, Measured, Next, Answered PROVE Exact
    OBVIOUS
  <2>1. LagRange
    <3>1. GetLagInfo
      BY DEF Next, XaddOk, XaddFails, XaddLost, ForeignEntry, Trim, ReadPage, ReadFails
    <3> QED  BY <3>1 DEF GetLagInfo, LagLatest, LagLength
  <2> DEFINE C == query.counted
      Unread == {e \in C : Before(query.position, e.id)}
      Read == {e \in C : ~Before(query.position, e.id)}
      Gone == {e \in C \ stream : ~Before(query.position, e.id)}
      Left == UpTo(query.position, stream)
  <2>2. query'.lag = SaturatingLag(Cardinality(C), Left)
    <3>1. PICK seen \in {stream, {}} :
            /\ Answers(seen)
            /\ query' = [query EXCEPT !.pc = "none", !.counted = {},
                           !.lag = SaturatingLag(Cardinality(query.counted), UpTo(query.position, seen))]
      BY <2>1 DEF LagRange
    <3>2. faults' # faults + 1
      BY StreamAssumption DEF TypeOK
    <3>3. seen = stream
      BY <3>1, <3>2 DEF Answers
    <3>4. query'.lag = SaturatingLag(Cardinality(query.counted), UpTo(query.position, seen))
      BY <3>1 DEF TypeOK, Query
    <3> QED  BY <3>3, <3>4
  <2>3. IsFiniteSet(C)
    BY DEF TypeOK
  <2>4. \A e \in stream : e \in C \/ Before(query.position, e.id)
    BY DEF Measured
  <2>5. Left = Read \ Gone /\ Gone \in SUBSET Read /\ Read \in SUBSET C /\ Unread = C \ Read
    BY <2>4 DEF UpTo
  <2>6. /\ Cardinality(C) = Cardinality(Read) + Cardinality(Unread)
        /\ IsFiniteSet(Read) /\ {Cardinality(Read), Cardinality(Unread)} \subseteq Nat
    BY <2>3, <2>5, TwoParts
  <2>7. /\ Cardinality(Read) = Cardinality(Gone) + Cardinality(Left)
        /\ {Cardinality(Gone), Cardinality(Left)} \subseteq Nat
    BY <2>5, <2>6, TwoParts
  <2>8. query'.lag = Cardinality(Unread) + Cardinality(Gone)
    BY <2>2, <2>6, <2>7 DEF SaturatingLag
  <2> QED  BY <2>8 DEF Measured
<1> QED  BY <1>1, TypeCorrect, LagInvariant, PTL DEF Spec, LagIsBacklog

-----------------------------------------------------------------------------
(* PublishedInOrder. *)

\* The event in hand has at most one copy for each attempt that failed, events
\* before it are written and events after it are not.
Progress ==
    /\ InBatchOrder
    /\ \A n \in 1 .. BatchSize :
        /\ Cardinality(Copies(n)) <= MaxRetries + 1 /\ Cardinality(Copies(n)) <= faults + 1
        /\ n < nth => Copies(n) # {}
    /\ \A e \in Written : e.nth <= nth
    /\ wpc = "xadd" => attempt <= faults /\ Cardinality(Copies(nth)) <= attempt
    /\ wpc = "ok" => nth = BatchSize /\ Copies(nth) # {}

LEMMA CopiesType ==
    ASSUME TypeOK, NEW n \in Nat
    PROVE  IsFiniteSet(Copies(n)) /\ Cardinality(Copies(n)) \in Nat
<1>1. IsFiniteSet(Written)
  BY FS_Union DEF TypeOK, Written
<1>2. IsFiniteSet(Copies(n))
  BY <1>1, FS_Subset DEF Copies
<1> QED  BY <1>2, FS_CardinalityType

\* One more entry is one more copy of its event, after all others.
LEMMA OneMore ==
    ASSUME TypeOK, Ordered, InBatchOrder, NEW n \in 0 .. BatchSize, Add(n), trimmed' = trimmed,
           \A e \in Written : Readable(e) => n = 0 \/ e.nth <= n
    PROVE  /\ InBatchOrder'
           /\ \A e \in Written' : e \in Written \/ e.nth = n
           /\ \A k \in 1 .. BatchSize : k # n => Copies(k)' = Copies(k)
           /\ n # 0 => Copies(n)' # {} /\ Cardinality(Copies(n)') \in Nat
                       /\ Cardinality(Copies(n)') <= Cardinality(Copies(n)) + 1
<1>1. PICK e \in Entry :
        stream' = stream \cup {e} /\ e.nth = n /\ e.id = lastId' /\ Before(lastId, e.id)
  BY AddEntry
<1>2. Written' = Written \cup {e}
  BY <1>1 DEF Written
<1>3. ASSUME NEW f \in Written PROVE ~Before(e.id, f.id)
  <2>1. e.id \in Id /\ f.id \in Id /\ lastId \in Id
    BY DEF TypeOK, Written, Entry
  <2> QED  BY <1>1, <2>1, IdTransitive, IdOrder DEF Ordered
<1>4. ~Before(e.id, e.id)
  BY IdOrder DEF Entry
<1>5. InBatchOrder'
  BY <1>1, <1>2, <1>3, <1>4 DEF InBatchOrder, Readable
<1>6. \A k \in 1 .. BatchSize : k # n => Copies(k)' = Copies(k)
  BY <1>1, <1>2 DEF Copies
<1>7. Copies(n)' = Copies(n) \cup {e}
  BY <1>1, <1>2 DEF Copies
<1>8. n \in Nat /\ IsFiniteSet(Copies(n)) /\ Cardinality(Copies(n)) \in Nat
  BY CopiesType, StreamAssumption
<1>9. Cardinality(Copies(n)') \in Nat /\ Cardinality(Copies(n)') <= Cardinality(Copies(n)) + 1
  BY <1>7, <1>8, FS_AddElement
<1> QED  BY <1>1, <1>2, <1>5, <1>6, <1>7, <1>9

\* Without a new entry, trimming included, the copies are what they were.
LEMMA SameCopies ==
    ASSUME Written' = Written
    PROVE  (InBatchOrder <=> InBatchOrder') /\ \A n : Copies(n)' = Copies(n)
BY DEF InBatchOrder, Copies

LEMMA ProgressOfOk ==
    ASSUME TypeOK, Ordered, Progress, XaddOk
    PROVE  Progress'
<1>1. PICK n \in 1 .. BatchSize : n = nth
  BY DEF TypeOK
<1>2. BatchSize \in Nat /\ MaxRetries \in Nat /\ attempt \in 0 .. MaxRetries /\ faults \in Nat
  BY StreamAssumption DEF TypeOK
<1>3. /\ wpc = "xadd" /\ Add(n) /\ trimmed' = trimmed /\ faults' = faults
      /\ IF n < BatchSize
         THEN nth' = n + 1 /\ attempt' = 0 /\ wpc' = "xadd"
         ELSE nth' = n /\ wpc' = "ok"
  BY <1>1 DEF XaddOk
<1>4. /\ InBatchOrder'
      /\ \A e \in Written' : e \in Written \/ e.nth = n
      /\ \A k \in 1 .. BatchSize : k # n => Copies(k)' = Copies(k)
      /\ Copies(n)' # {} /\ Cardinality(Copies(n)') \in Nat
      /\ Cardinality(Copies(n)') <= Cardinality(Copies(n)) + 1
  BY <1>1, <1>2, <1>3, OneMore DEF Progress
<1>5. Cardinality(Copies(n)) \in Nat /\ Cardinality(Copies(n)) <= attempt /\ attempt <= faults
  BY <1>1, <1>3, CopiesType DEF Progress
<1>6. Cardinality(Copies(n)') <= MaxRetries + 1 /\ Cardinality(Copies(n)') <= faults + 1
  BY <1>2, <1>4, <1>5
<1>7. ASSUME NEW k \in 1 .. BatchSize
      PROVE  /\ Cardinality(Copies(k)') <= MaxRetries + 1 /\ Cardinality(Copies(k)') <= faults + 1
             /\ k <= n => Copies(k)' # {}
  BY <1>1, <1>4, <1>6 DEF Progress
<1>8. \A e \in Written' : e.nth <= n
  BY <1>1, <1>4 DEF Progress
<1>9. CASE n < BatchSize
  <2>1. n + 1 \in 1 .. BatchSize /\ n + 1 # n
    BY <1>2, <1>9
  <2>2. Copies(n + 1) = {}
    BY <1>1, <1>2 DEF Progress, Copies, TypeOK, Written, Entry
  <2>3. Cardinality(Copies(n + 1)') = 0
    BY <1>4, <2>1, <2>2, FS_EmptySet
  <2>4. \A e \in Written' : e.nth <= nth'
    <3>1. \A e \in Written' : e.nth \in Nat
      BY <1>4, <1>1 DEF TypeOK, Written, Entry
    <3> QED  BY <1>2, <1>3, <1>8, <1>9, <3>1
  <2>5. nth' = n + 1 /\ attempt' = 0 /\ wpc' = "xadd" /\ faults' = faults
    BY <1>3, <1>9
  <2>6. Cardinality(Copies(nth)') = 0
    BY <2>3, <2>5 DEF Copies
  <2> QED  BY <1>2, <1>4, <1>7, <2>4, <2>5, <2>6 DEF Progress
<1>10. CASE n = BatchSize
  <2>1. nth' = n /\ wpc' = "ok" /\ faults' = faults
    BY <1>2, <1>3, <1>10
  <2>2. Copies(nth)' # {}
    BY <1>4, <2>1 DEF Copies
  <2> QED  BY <1>4, <1>7, <1>8, <1>10, <2>1, <2>2 DEF Progress
<1> QED  BY <1>2, <1>9, <1>10

LEMMA ProgressOfFailure ==
    ASSUME TypeOK, Ordered, Progress, XaddFails
    PROVE  Progress'
<1>1. PICK n \in 1 .. BatchSize : n = nth
  BY DEF TypeOK
<1>2. MaxRetries \in Nat /\ attempt \in 0 .. MaxRetries /\ faults \in Nat /\ BatchSize \in Nat
  BY StreamAssumption DEF TypeOK
<1>3. /\ wpc = "xadd" /\ trimmed' = trimmed /\ faults' = faults + 1 /\ nth' = n
      /\ Add(n) \/ stream' = stream
      /\ IF attempt < MaxRetries
         THEN attempt' = attempt + 1 /\ wpc' = "xadd"
         ELSE wpc' = "error"
  BY <1>1 DEF XaddFails, XaddLost
<1>4. Cardinality(Copies(n)) \in Nat /\ Cardinality(Copies(n)) <= attempt /\ attempt <= faults
  BY <1>1, <1>3, CopiesType DEF Progress
<1>5. /\ InBatchOrder'
      /\ \A e \in Written' : e \in Written \/ e.nth = n
      /\ \A k \in 1 .. BatchSize : k # n => Copies(k)' = Copies(k)
      /\ Cardinality(Copies(n)') \in Nat /\ Cardinality(Copies(n)') <= Cardinality(Copies(n)) + 1
  <2>1. CASE Add(n)
    BY <1>1, <1>2, <1>3, <2>1, OneMore DEF Progress
  <2>2. CASE stream' = stream
    <3>1. Written' = Written
      BY <1>3, <2>2 DEF Written
    <3> QED  BY <1>4, <3>1, SameCopies DEF Progress
  <2> QED  BY <1>3, <2>1, <2>2
<1>6. ASSUME NEW k \in 1 .. BatchSize
      PROVE  /\ Cardinality(Copies(k)') <= MaxRetries + 1 /\ Cardinality(Copies(k)') <= faults' + 1
             /\ k < n => Copies(k)' # {}
  <2>1. CASE k = n
    BY <1>2, <1>3, <1>4, <1>5, <2>1
  <2>2. CASE k # n
    <3>1. Copies(k)' = Copies(k) /\ Cardinality(Copies(k)) \in Nat
      BY <1>5, <2>2, CopiesType
    <3> QED  BY <1>1, <1>2, <1>3, <3>1 DEF Progress
  <2> QED  BY <2>1, <2>2
<1>7. \A e \in Written' : e.nth <= nth'
  BY <1>1, <1>3, <1>5 DEF Progress
<1>8. wpc' = "xadd" => attempt' <= faults' /\ Cardinality(Copies(nth)') <= attempt'
  <2>1. Copies(nth)' = Copies(n)'
    BY <1>3 DEF Copies
  <2> QED  BY <1>2, <1>3, <1>4, <1>5, <2>1
<1> QED  BY <1>3, <1>5, <1>6, <1>7, <1>8 DEF Progress

LEMMA ProgressKept ==
    ASSUME TypeOK, Progress, Written' = Written, UNCHANGED writerVars, faults' \in Nat, faults <= faults'
    PROVE  Progress'
<1>1. /\ InBatchOrder' /\ \A n : Copies(n)' = Copies(n)
      /\ nth' = nth /\ wpc' = wpc /\ attempt' = attempt
  BY SameCopies DEF writerVars, Progress
<1>2. \A n \in 1 .. BatchSize : Cardinality(Copies(n)) \in Nat
  BY CopiesType
<1>3. Copies(nth)' = Copies(nth)
  BY <1>1 DEF Copies
<1>4. attempt \in Nat /\ faults \in Nat
  BY StreamAssumption DEF TypeOK
<1> QED  BY <1>1, <1>2, <1>3, <1>4 DEF Progress

LEMMA ProgressOfForeign ==
    ASSUME TypeOK, Ordered, Progress, ForeignEntry
    PROVE  Progress'
<1>1. 0 \in 0 .. BatchSize /\ Add(0) /\ trimmed' = trimmed /\ UNCHANGED <<wpc, nth, attempt, faults>>
  BY StreamAssumption DEF ForeignEntry, writerVars
<1>2. /\ InBatchOrder'
      /\ \A e \in Written' : e \in Written \/ e.nth = 0
      /\ \A k \in 1 .. BatchSize : k # 0 => Copies(k)' = Copies(k)
  BY <1>1, OneMore DEF Progress
<1>3. nth \in 1 .. BatchSize
  BY DEF TypeOK
<1>4. \A k \in 1 .. BatchSize : Copies(k)' = Copies(k)
  BY <1>2
<1>5. Copies(nth)' = Copies(nth)
  <2>1. PICK n \in 1 .. BatchSize : n = nth
    BY <1>3
  <2>2. Copies(n)' = Copies(n)
    BY <1>4
  <2> QED  BY <1>1, <2>1, <2>2 DEF Copies
<1>6. \A e \in Written' : e.nth <= nth
  BY <1>2, <1>3 DEF Progress
<1> QED  BY <1>1, <1>2, <1>4, <1>5, <1>6 DEF Progress

\* The code behaviour: publish_batch goes on only after an answer, and repeats
\* only the event that had none.
THEOREM ProgressInvariant == Spec => []Progress
<1>1. Init => Progress
  <2> SUFFICES ASSUME Init PROVE Progress
    OBVIOUS
  <2>1. Written = {} /\ \A n : Copies(n) = {}
    BY DEF Init, Written, Copies
  <2> QED  BY <2>1, FS_EmptySet, StreamAssumption DEF Init, Progress, InBatchOrder
<1>2. TypeOK /\ TypeOK' /\ Ordered /\ Progress /\ [Next]_vars => Progress'
  <2> SUFFICES ASSUME TypeOK, TypeOK', Ordered, Progress, [Next]_vars PROVE Progress'
    OBVIOUS
  <2>1. CASE XaddOk
    BY <2>1, ProgressOfOk
  <2>2. CASE XaddFails
    BY <2>2, ProgressOfFailure
  <2>3. CASE ForeignEntry
    BY <2>3, ProgressOfForeign
  <2>4. CASE Trim \/ ReadPage \/ ReadFails \/ GetLagInfo \/ UNCHANGED vars
    <3>1. faults \in Nat /\ faults' \in Nat
      BY StreamAssumption DEF TypeOK
    <3>2. UNCHANGED writerVars /\ Written' = Written
      BY <2>4 DEF Trim, ReadPage, ReadFails, GetLagInfo, LagLatest, LagLength, LagRange, vars, Written
    <3>3. faults <= faults'
      <4>1. \A seen : Answers(seen) => faults <= faults'
        BY <3>1 DEF Answers
      <4>2. CASE LagLatest
        BY <4>1, <4>2 DEF LagLatest
      <4>3. CASE LagLength
        BY <4>1, <4>3 DEF LagLength
      <4>4. CASE LagRange
        BY <4>1, <4>4 DEF LagRange
      <4>5. CASE Trim \/ ReadPage \/ ReadFails \/ UNCHANGED vars
        BY <3>1, <4>5 DEF Trim, ReadPage, ReadFails, vars
      <4> QED  BY <2>4, <4>2, <4>3, <4>4, <4>5 DEF GetLagInfo
    <3> QED  BY <3>1, <3>2, <3>3, ProgressKept
  <2> QED  BY <2>1, <2>2, <2>3, <2>4 DEF Next
<1> QED  BY <1>1, <1>2, TypeCorrect, OrderInvariant, PTL DEF Spec

\* The code behaviour: the order, the copies and the answer of publish_batch.
THEOREM PublishedInOrderHolds == Spec => []PublishedInOrder
<1>1. TypeOK /\ Progress => PublishedInOrder
  <2> SUFFICES ASSUME TypeOK, Progress PROVE PublishedInOrder
    OBVIOUS
  <2>1. ASSUME NEW n \in 1 .. BatchSize, n > nth PROVE Copies(n) = {}
    BY <2>1 DEF Progress, Copies, TypeOK
  <2>2. nth \in 1 .. BatchSize /\ BatchSize \in Nat
    BY StreamAssumption DEF TypeOK
  <2>3. ASSUME wpc = "ok", NEW n \in 1 .. BatchSize PROVE Copies(n) # {}
    BY <2>2, <2>3 DEF Progress
  <2> QED  BY <2>1, <2>3 DEF Progress, PublishedInOrder
<1> QED  BY <1>1, TypeCorrect, ProgressInvariant, PTL

-----------------------------------------------------------------------------
(* ReadAllIsComplete. *)

\* Only ForeignEntry writes an entry that does not deserialize.
FewUnreadable == Cardinality(Copies(0)) <= foreign

LEMMA FewUnreadableKept ==
    ASSUME TypeOK, FewUnreadable, [Next]_vars
    PROVE  FewUnreadable'
<1>1. IsFiniteSet(Copies(0)) /\ Cardinality(Copies(0)) \in Nat /\ foreign \in Nat
  BY CopiesType, StreamAssumption DEF TypeOK
<1>2. ASSUME NEW n \in 1 .. BatchSize, Add(n), trimmed' = trimmed PROVE Copies(0)' = Copies(0)
  <2>1. n \in 0 .. BatchSize /\ n # 0
    BY StreamAssumption
  <2>2. PICK e \in Entry : stream' = stream \cup {e} /\ e.nth = n
    BY <1>2, <2>1, AddEntry
  <2> QED  BY <1>2, <2>1, <2>2 DEF Copies, Written
<1>3. CASE XaddOk \/ XaddFails
  <2>1. nth \in 1 .. BatchSize /\ trimmed' = trimmed /\ foreign' = foreign
        /\ (Add(nth) \/ UNCHANGED stream)
    BY <1>3 DEF XaddOk, XaddFails, XaddLost, TypeOK
  <2>2. Copies(0)' = Copies(0)
    BY <1>2, <2>1 DEF Copies, Written
  <2> QED  BY <2>1, <2>2 DEF FewUnreadable
<1>4. CASE ForeignEntry
  <2>1. 0 \in 0 .. BatchSize /\ Add(0) /\ trimmed' = trimmed /\ foreign' = foreign + 1
    BY <1>4, StreamAssumption DEF ForeignEntry
  <2>2. PICK e \in Entry : stream' = stream \cup {e} /\ e.nth = 0
    BY <2>1, AddEntry
  <2>3. Copies(0)' = Copies(0) \cup {e}
    BY <2>1, <2>2 DEF Copies, Written
  <2>4. Cardinality(Copies(0)') = IF e \in Copies(0) THEN Cardinality(Copies(0))
                                                    ELSE Cardinality(Copies(0)) + 1
    BY <1>1, <2>3, FS_AddElement, Zenon
  <2>5. Cardinality(Copies(0)') \in Nat /\ Cardinality(Copies(0)') <= Cardinality(Copies(0)) + 1
    BY <1>1, <2>4
  <2> QED  BY <1>1, <2>1, <2>5 DEF FewUnreadable
<1>5. CASE Trim \/ ReadPage \/ ReadFails \/ GetLagInfo \/ UNCHANGED vars
  <2>1. Written' = Written /\ foreign' = foreign
    BY <1>5 DEF Trim, ReadPage, ReadFails, GetLagInfo, LagLatest, LagLength, LagRange, vars, Written
  <2>2. Copies(0)' = Copies(0)
    BY <2>1 DEF Copies
  <2> QED  BY <2>1, <2>2 DEF FewUnreadable
<1> QED  BY <1>3, <1>4, <1>5 DEF Next

\* The code behaviour: no more entries than other programs wrote fail to deserialize.
THEOREM FewUnreadableInvariant == Spec => []FewUnreadable
<1>1. Init => FewUnreadable
  <2> SUFFICES ASSUME Init PROVE FewUnreadable
    OBVIOUS
  <2>1. Copies(0) = {}
    BY DEF Init, Copies, Written
  <2> QED  BY <2>1, FS_EmptySet DEF Init, FewUnreadable
<1>2. TypeOK /\ FewUnreadable /\ [Next]_vars => FewUnreadable'
  BY FewUnreadableKept
<1> QED  BY <1>1, <1>2, TypeCorrect, PTL DEF Spec

\* The last page of read_all is not full of entries that do not deserialize: there
\* is nothing left behind it.
LEMMA LastPage ==
    ASSUME TypeOK, FewUnreadable, MaxForeign < PageSize,
           NEW page \in SUBSET After(cursor), IsPage(page), EventsOf(page) = {}
    PROVE  page = After(cursor)
<1>1. page \in SUBSET Copies(0)
  BY DEF EventsOf, Readable, After, Copies, Written
<1>2. IsFiniteSet(Copies(0)) /\ Cardinality(Copies(0)) \in Nat
  BY CopiesType
<1>3. IsFiniteSet(page) /\ Cardinality(page) <= Cardinality(Copies(0))
  BY <1>1, <1>2, FS_Subset
<1>4. Cardinality(page) \in Nat
  BY <1>3, FS_CardinalityType
<1>5. foreign \in Nat /\ foreign <= MaxForeign /\ MaxForeign \in Nat /\ PageSize \in Nat
  BY StreamAssumption DEF TypeOK
<1>6. Cardinality(page) # PageSize
  BY <1>2, <1>3, <1>4, <1>5 DEF FewUnreadable
<1> QED  BY <1>6 DEF IsPage

\* The code behaviour: read_all stops at the first page without a readable entry,
\* which misses nothing while a page holds more entries than other programs wrote.
THEOREM ReadAllIsCompleteHolds ==
    ASSUME MaxForeign < PageSize
    PROVE  Spec => ReadAllIsComplete
<1> DEFINE Complete ==
      rpc = "read" /\ rpc' = "done" => \A e \in stream : Readable(e) => e \in Delivered'
<1>1. TypeOK /\ Place /\ FewUnreadable /\ [Next]_vars => [Complete]_vars
  <2> SUFFICES ASSUME TypeOK, Place, FewUnreadable, [Next]_vars, rpc = "read", rpc' = "done",
                      NEW e \in stream, Readable(e)
               PROVE  e \in Delivered'
    OBVIOUS
  <2>1. ReadPage
    BY DEF Next, vars, readerVars, XaddOk, XaddFails, XaddLost, ForeignEntry, Trim, ReadFails,
           GetLagInfo, LagLatest, LagLength, LagRange
  <2>2. PICK page \in SUBSET After(cursor) :
          /\ IsPage(page) /\ batch' = EventsOf(page)
          /\ rpc' = IF mode = "all" /\ EndOfStream(EventsOf(page)) THEN "done" ELSE "read"
    BY <2>1 DEF ReadPage
  <2>3. EventsOf(page) = {}
    BY <2>2 DEF EndOfStream
  <2>4. page = After(cursor)
    BY <2>2, <2>3, LastPage
  <2>5. ~Before(cursor, e.id)
    BY <2>3, <2>4 DEF EventsOf, After
  <2>6. e \in got \cup batch
    BY <2>5 DEF Place, Delivered
  <2> QED  BY <2>1, <2>6 DEF ReadPage, Delivered
<1> QED  BY <1>1, TypeCorrect, PlaceInvariant, FewUnreadableInvariant, PTL DEF Spec, ReadAllIsComplete
===============================================================================
