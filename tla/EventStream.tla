----------------------------- MODULE EventStream -----------------------------
(***************************************************************************)
(* The Redis stream of one task between StreamWriter (publish_batch with   *)
(* its retries), StreamReader (read_all, or a loop around read_live),      *)
(* GapDetector and get_lag_info of StreamMetrics, while another program    *)
(* may add entries that do not deserialize and old entries are trimmed.    *)
(*                                                                         *)
(* The stream is a set: ids are unique and order it.  An id is the pair    *)
(* <<milliseconds, sequence>> that parse_stream_id makes of it.            *)
(*                                                                         *)
(* Bounds: MaxFaults commands that fail, MaxForeign unreadable entries,    *)
(* MaxTrims trimmed entries; Clock is the set of times Redis sees.         *)
(***************************************************************************)
EXTENDS Integers, FiniteSets

CONSTANTS
    BatchSize,      \* events given to publish_batch
    MaxRetries,     \* StreamWriterConfig::max_retries
    PageSize,       \* StreamReaderConfig::default_batch_size
    Clock, MaxFaults, MaxForeign, MaxTrims

ASSUME StreamAssumption ==
    /\ BatchSize \in Nat \ {0} /\ PageSize \in Nat \ {0}
    /\ Clock \subseteq Nat \ {0}
    /\ {MaxRetries, MaxFaults, MaxForeign, MaxTrims} \subseteq Nat

VARIABLES
    stream,         \* the entries
    trimmed,        \* entries that were trimmed
    lastId,         \* the highest id the stream ever had
    wpc,            \* publish_batch: "xadd", or what it returned: "ok", "error"
    nth,            \* the event it is at
    attempt,        \* attempts of xadd_with_retry that failed
    mode,           \* the reader calls read_all ("all") or read_live ("tail"), or there
                    \* is none and a monitor asks for the lag of some consumer ("lag")
    rpc,            \* "read", or what read_all returned: "done", "error"
    cursor,         \* last_id, <<0, 0>> for "0"
    batch, got,     \* entries the last call returned, and those of the calls before
    query,          \* get_lag_info: its place, what it has read, its answer
    faults, foreign

writerVars == <<wpc, nth, attempt>>
readerVars == <<mode, rpc, cursor, batch, got>>
vars == <<stream, trimmed, lastId, writerVars, readerVars, query, faults, foreign>>

\* nth is 0 in an entry that deserialize_event refuses.
Id == Nat \X Nat
Entry == [id : Id, nth : Nat]
Readable(e) == e.nth # 0

\* counted is the stream whose length XLEN reported.
Query == [pc : {"none", "latest", "counted"}, position : Id, latest : Id, counted : SUBSET Entry, lag : Nat]

\* The order of ids in Redis.
Before(i, j) == i[1] < j[1] \/ (i[1] = j[1] /\ i[2] < j[2])

TypeOK ==
    /\ stream \subseteq Entry /\ trimmed \subseteq Entry
    /\ IsFiniteSet(stream) /\ IsFiniteSet(trimmed)
    /\ lastId \in Id
    /\ wpc \in {"xadd", "ok", "error"}
    /\ nth \in 1 .. BatchSize
    /\ attempt \in 0 .. MaxRetries
    /\ mode \in {"all", "tail", "lag"} /\ rpc \in {"read", "done", "error"}
    /\ cursor \in Id
    /\ batch \subseteq Entry /\ got \subseteq Entry
    /\ query \in Query /\ IsFiniteSet(query.counted)
    /\ faults \in 0 .. MaxFaults /\ foreign \in 0 .. MaxForeign

Init ==
    /\ stream = {} /\ trimmed = {}
    /\ lastId = <<0, 0>>
    /\ wpc = "xadd" /\ nth = 1 /\ attempt = 0
    /\ mode \in {"all", "tail", "lag"} /\ rpc = "read"
    /\ cursor = <<0, 0>>
    /\ batch = {} /\ got = {}
    /\ query = [pc |-> "none", position |-> <<0, 0>>, latest |-> <<0, 0>>, counted |-> {}, lag |-> 0]
    /\ faults = 0 /\ foreign = 0

-----------------------------------------------------------------------------
(* Redis. *)

\* XADD with id "*": the time, or the highest id and one when the time is not
\* after it (the clock may have been set back).
Add(n) ==
    \E now \in Clock :
        LET id == IF now > lastId[1] THEN <<now, 0>> ELSE <<lastId[1], lastId[2] + 1>>
        IN  /\ stream' = stream \cup {[id |-> id, nth |-> n]}
            /\ lastId' = id

\* An entry of another program.
ForeignEntry ==
    /\ foreign < MaxForeign /\ foreign' = foreign + 1
    /\ Add(0)
    /\ UNCHANGED <<trimmed, writerVars, readerVars, query, faults>>

\* XTRIM, which always takes the oldest entries.
Trim ==
    /\ Cardinality(trimmed) < MaxTrims
    /\ \E e \in stream :
        /\ \A f \in stream \ {e} : Before(e.id, f.id)
        /\ stream' = stream \ {e}
        /\ trimmed' = trimmed \cup {e}
    /\ UNCHANGED <<lastId, writerVars, readerVars, query, faults, foreign>>

-----------------------------------------------------------------------------
(* StreamWriter::publish_batch, publish_event and xadd_with_retry. *)

\* The event is written, and publish_batch goes on with the next one.
XaddOk ==
    /\ wpc = "xadd"
    /\ Add(nth)
    /\ IF nth < BatchSize
       THEN nth' = nth + 1 /\ attempt' = 0 /\ UNCHANGED wpc
       ELSE wpc' = "ok" /\ UNCHANGED <<nth, attempt>>
    /\ UNCHANGED <<trimmed, readerVars, query, faults, foreign>>

\* The command fails, or is executed and its answer is lost.
XaddLost ==
    /\ wpc = "xadd"
    /\ faults < MaxFaults /\ faults' = faults + 1
    /\ Add(nth) \/ UNCHANGED <<stream, lastId>>
    /\ UNCHANGED <<trimmed, readerVars, query, foreign>>

\* Mutant: one attempt too many.
XaddFails_OneMore ==
    /\ XaddLost
    /\ IF attempt <= MaxRetries
       THEN attempt' = attempt + 1 /\ UNCHANGED <<wpc, nth>>
       ELSE wpc' = "error" /\ UNCHANGED <<nth, attempt>>

\* Mutant: an event that cannot be written is skipped.
XaddFails_Skips ==
    /\ XaddLost
    /\ IF attempt < MaxRetries \/ nth = BatchSize
       THEN attempt' = MaxRetries /\ UNCHANGED <<wpc, nth>>
       ELSE nth' = nth + 1 /\ attempt' = 0 /\ UNCHANGED wpc

\* Another attempt after the backoff, or the end of the whole batch.
XaddFails ==
    /\ XaddLost
    /\ IF attempt < MaxRetries
       THEN attempt' = attempt + 1 /\ UNCHANGED wpc
       ELSE wpc' = "error" /\ UNCHANGED attempt
    /\ UNCHANGED nth

-----------------------------------------------------------------------------
(* StreamReader. *)

After(id) == {e \in stream : Before(id, e.id)}

\* XREAD with COUNT: the oldest PageSize entries after the cursor, all of them
\* if there are fewer.
IsPage(page) ==
    /\ page \subseteq After(cursor)
    /\ \A e \in page, f \in After(cursor) \ page : Before(e.id, f.id)
    /\ \/ Cardinality(page) = PageSize
       \/ page = After(cursor) /\ Cardinality(page) < PageSize

\* What deserializes; the rest of a page is skipped.
EventsOf(page) == {e \in page : Readable(e)}

\* Mutant: the cursor is left at the first entry of the page.
Advance_First(events) ==
    \E e \in events :
        /\ \A f \in events \ {e} : Before(e.id, f.id)
        /\ cursor' = e.id

\* Mutant: last_id is not updated.
Advance_Never(events) == UNCHANGED cursor

\* last_id becomes the id of the last entry that could be read.
Advance(events) ==
    \E e \in events :
        /\ \A f \in events \ {e} : Before(f.id, e.id)
        /\ cursor' = e.id

\* Mutant: fewer events than asked for end read_all.
EndOfStream_Short(events) == Cardinality(events) < PageSize

\* read_all ends with the first page in which nothing could be read.
EndOfStream(events) == events = {}

\* One call of read_backfill in read_all, or of read_live in its caller's
\* loop.
ReadPage ==
    /\ mode # "lag" /\ rpc = "read"
    /\ \E page \in SUBSET After(cursor) :
        LET events == EventsOf(page) IN
        /\ IsPage(page)
        /\ batch' = events
        /\ IF events = {} THEN UNCHANGED cursor ELSE Advance(events)
        /\ rpc' = IF mode = "all" /\ EndOfStream(events) THEN "done" ELSE "read"
    /\ got' = got \cup batch
    /\ UNCHANGED <<stream, trimmed, lastId, writerVars, mode, query, faults, foreign>>

\* XREAD fails, and read_all drops what it has read; a caller of read_live still has
\* its cursor and calls again, as if nothing had happened.
ReadFails ==
    /\ mode = "all" /\ rpc = "read"
    /\ faults < MaxFaults /\ faults' = faults + 1
    /\ rpc' = "error"
    /\ UNCHANGED <<stream, trimmed, lastId, writerVars, mode, cursor, batch, got, query, foreign>>

-----------------------------------------------------------------------------
(* StreamMetrics::get_lag_info, with get_stream_info and calculate_lag.    *)

\* A command that fails counts as an empty answer.
Answers(seen) ==
    \/ seen = stream /\ UNCHANGED faults
    \/ seen = {} /\ faults < MaxFaults /\ faults' = faults + 1

IsLatest(id, seen) ==
    IF seen = {} THEN id = <<0, 0>>
    ELSE \E e \in seen : id = e.id /\ \A f \in seen \ {e} : Before(f.id, id)

\* Mutant: the entry at the position is left out.
UpTo_Exclusive(position, seen) == {e \in seen : Before(e.id, position)}

UpTo(position, seen) == {e \in seen : ~Before(position, e.id)}

\* XINFO STREAM, for a consumer whose last entry was some entry of the stream.
LagLatest ==
    /\ mode = "lag" /\ query.pc = "none"
    /\ \E e \in stream \cup trimmed, id \in {<<0, 0>>} \cup {f.id : f \in stream}, seen \in {stream, {}} :
        /\ Answers(seen) /\ IsLatest(id, seen)
        /\ query' = [query EXCEPT !.pc = "latest", !.position = e.id, !.latest = id, !.lag = 0]
    /\ UNCHANGED <<stream, trimmed, lastId, writerVars, readerVars, foreign>>

\* XLEN.
LagLength ==
    /\ query.pc = "latest"
    /\ \E seen \in {stream, {}} : Answers(seen) /\ query' = [query EXCEPT !.pc = "counted", !.counted = seen]
    /\ UNCHANGED <<stream, trimmed, lastId, writerVars, readerVars, foreign>>

\* saturating_sub
SaturatingLag(length, consumed) ==
    IF Cardinality(consumed) > length THEN 0 ELSE length - Cardinality(consumed)

\* XRANGE from the beginning to the position, and the answer.
LagRange ==
    /\ query.pc = "counted"
    /\ \E seen \in {stream, {}} :
        /\ Answers(seen)
        /\ query' = [query EXCEPT !.pc = "none", !.counted = {},
                       !.lag = SaturatingLag(Cardinality(query.counted), UpTo(query.position, seen))]
    /\ UNCHANGED <<stream, trimmed, lastId, writerVars, readerVars, foreign>>

GetLagInfo == LagLatest \/ LagLength \/ LagRange

Next == XaddOk \/ XaddFails \/ ForeignEntry \/ Trim \/ ReadPage \/ ReadFails \/ GetLagInfo

Spec == Init /\ [][Next]_vars

(* The reader goes on; nothing is assumed of the writer, other programs,   *)
(* failures and trimming.                                                  *)
FairSpec == Spec /\ WF_vars(ReadPage)

-----------------------------------------------------------------------------
(* GapDetector. *)

\* Mutant: only the milliseconds are compared.
CompareStreamIds_Milliseconds(i, j) == i[1] - j[1]

CompareStreamIds(i, j) == IF i[1] # j[1] THEN i[1] - j[1] ELSE i[2] - j[2]

\* The first entry that XINFO STREAM reports.
IsEarliest(e) == e \in stream /\ \A f \in stream \ {e} : Before(e.id, f.id)

\* detect_gap returns a GapInfo; a stream without entries has no gap.
DetectGap(id) == \E e \in stream : IsEarliest(e) /\ CompareStreamIds(id, e.id) < 0

-----------------------------------------------------------------------------
(* Properties. *)

Delivered == got \cup batch
Written == stream \cup trimmed

\* A reader gets each entry once and in the order of ids, and has not passed over
\* a readable entry, while the writer adds entries, the clock jumps and old
\* entries disappear (stream_reader.rs: read_all, the loop around read_live).
ReaderSkipsNothing ==
    /\ \A e \in got, f \in batch : Before(e.id, f.id)
    /\ \A e \in stream : Readable(e) /\ ~Before(cursor, e.id) => e \in Delivered

\* read_all returns only when every readable entry of the stream was returned,
\* the ones written while it was reading included, as long as there are fewer
\* unreadable entries than a page holds.
ReadAllIsComplete ==
    [][rpc = "read" /\ rpc' = "done" =>
        \A e \in stream : Readable(e) => e \in Delivered']_vars

\* The entries of a batch are in its order.
InBatchOrder ==
    \A e, f \in Written :
        Readable(e) /\ Readable(f) /\ Before(e.id, f.id) => e.nth <= f.nth

Copies(n) == {e \in Written : e.nth = n}

\* publish_batch and its retries only repeat the event in hand: the entries of a
\* batch are in its order, an event has no more copies than attempts, and
\* one when nothing failed; Ok is returned only when every event was written, and an
\* error leaves all events before the one that failed written and none after it.
PublishedInOrder ==
    /\ InBatchOrder
    /\ \A n \in 1 .. BatchSize :
        Cardinality(Copies(n)) <= MaxRetries + 1 /\ Cardinality(Copies(n)) <= faults + 1
    /\ wpc = "ok" => \A n \in 1 .. BatchSize : Copies(n) # {}
    /\ \A n \in 1 .. BatchSize :
        (n < nth => Copies(n) # {}) /\ (n > nth => Copies(n) = {})

\* A client whose unread entries were trimmed is told of a gap while anything is
\* left in the stream, and one that is told of a gap has lost the entry its cursor
\* names (gap_detection.rs: detect_gap).  Cursor "0" is not an id to detect_gap.
LossIsDetected ==
    cursor # <<0, 0>> =>
        /\ (\E e \in trimmed : Before(cursor, e.id)) /\ stream # {} => DetectGap(cursor)
        /\ DetectGap(cursor) => \E e \in trimmed : e.id = cursor

\* The lag of a consumer is what it had not read when XLEN ran, and, when entries
\* are trimmed before XRANGE runs, those of them that it had read: it may be
\* too high, never too low while no command fails, whatever is written meanwhile;
\* the latest position is not before the consumer's, unless it is unknown.
LagIsBacklog ==
    [][query.pc = "counted" /\ query'.pc = "none" /\ query.counted # {} /\ faults' = faults =>
        /\ query'.lag =
              Cardinality({e \in query.counted : Before(query.position, e.id)})
              + Cardinality({e \in query.counted \ stream : ~Before(query.position, e.id)})
        /\ query.latest = <<0, 0>> \/ ~Before(query.latest, query.position)]_vars

\* A live reader gets every readable entry that is not trimmed before it comes to
\* read it, under the bound on unreadable entries above.
TailCatchesUp ==
    \A n \in 1 .. BatchSize :
        mode = "tail" /\ (\E e \in stream : e.nth = n)
            ~> \E e \in Delivered \cup trimmed : e.nth = n
=============================================================================
