---------------------------- MODULE EventPipeline ----------------------------
(***************************************************************************)
(* The way of an event from an adapter to the Redis stream of its task:    *)
(* the unbounded channel, the event loop that execute_task spawns, and     *)
(* EventEmitter::emit, whose sequence number and previous hash are shared  *)
(* by every task of the worker process.                                    *)
(*                                                                         *)
(* A hash is named by the sequence number of the event it is of: an        *)
(* emitter gives each number once, and compute_hash covers the number.     *)
(***************************************************************************)
EXTENDS Integers, Sequences

CONSTANTS
    Task,           \* tasks the worker executes
    MaxEvents,      \* bound: events the adapter of each task emits
    MaxFaults       \* bound: XADD commands that fail

ASSUME PipelineAssumption == MaxEvents \in [Task -> Nat] /\ MaxFaults \in Nat

NoHash == -1

VARIABLES
    seq,            \* EmitterState::seq
    prevHash,       \* EmitterState::prev_hash
    sent,           \* events the adapter of a task has put into its channel
    taken,          \* events its event loop has received
    epc,            \* executor: "adapter", "settle" (100 ms), "finished" (row is final)
    pc,             \* event loop: "recv", "prev", "hash", "xadd", "update"
    event,          \* the TaskEvent that emit() is building
    stream,         \* entries of the stream events:{task_id}
    faults

emitterVars == <<seq, prevHash>>
execVars == <<sent, epc>>
loopVars == <<taken, pc, event>>
vars == <<emitterVars, execVars, loopVars, stream, faults>>

\* nth is the rank of the event among those the adapter emitted; it stands
\* for kind and payload.
Event == [nth : Nat \ {0}, seq : Nat, prev : Nat \cup {NoHash}]

NoEvent == [nth |-> 0, seq |-> 0, prev |-> NoHash]

TypeOK ==
    /\ seq \in Nat
    /\ prevHash \in Nat \cup {NoHash}
    /\ sent \in [Task -> Nat]
    /\ taken \in [Task -> Nat]
    /\ \A t \in Task : taken[t] <= sent[t] /\ sent[t] <= MaxEvents[t]
    /\ epc \in [Task -> {"adapter", "settle", "finished"}]
    /\ pc \in [Task -> {"recv", "prev", "hash", "xadd", "update"}]
    /\ event \in [Task -> Event \cup {NoEvent}]
    /\ stream \in [Task -> Seq(Event)]
    /\ faults \in 0 .. MaxFaults

Init ==
    /\ seq = 0
    /\ prevHash = NoHash
    /\ sent = [t \in Task |-> 0]
    /\ taken = [t \in Task |-> 0]
    /\ epc = [t \in Task |-> "adapter"]
    /\ pc = [t \in Task |-> "recv"]
    /\ event = [t \in Task |-> NoEvent]
    /\ stream = [t \in Task |-> <<>>]
    /\ faults = 0

-----------------------------------------------------------------------------
(* The executor. *)

\* AdapterContext::emit: a send on an unbounded channel, which never waits.
AdapterEmits(t) ==
    /\ epc[t] = "adapter" /\ sent[t] < MaxEvents[t]
    /\ sent' = [sent EXCEPT ![t] = @ + 1]
    /\ UNCHANGED <<emitterVars, epc, loopVars, stream, faults>>

\* The adapter returns; the context it drops was the channel's only sender.
AdapterReturns(t) ==
    /\ epc[t] = "adapter"
    /\ epc' = [epc EXCEPT ![t] = "settle"]
    /\ UNCHANGED <<emitterVars, sent, loopVars, stream, faults>>

\* drop(event_handle) detaches the event loop, sleep(100 ms) is all that is
\* waited for, then the row becomes final.
MarkFinished(t) ==
    /\ epc[t] = "settle"
    /\ epc' = [epc EXCEPT ![t] = "finished"]
    /\ UNCHANGED <<emitterVars, sent, loopVars, stream, faults>>

-----------------------------------------------------------------------------
(* The event loop, and EventEmitter::emit. *)

\* EmitterState::next_seq: fetch_add.
NextSeq == seq + 1

\* Mutant: the event loop is aborted once the row is final.
TakeEvent_Aborted(t) ==
    /\ pc[t] = "recv" /\ taken[t] < sent[t] /\ epc[t] # "finished"
    /\ taken' = [taken EXCEPT ![t] = @ + 1]
    /\ event' = [event EXCEPT ![t] = [nth |-> taken[t] + 1, seq |-> seq, prev |-> NoHash]]
    /\ seq' = NextSeq
    /\ pc' = [pc EXCEPT ![t] = "prev"]
    /\ UNCHANGED <<prevHash, execVars, stream, faults>>

\* event_rx.recv(), and the sequence number.
TakeEvent(t) ==
    /\ pc[t] = "recv" /\ taken[t] < sent[t]
    /\ taken' = [taken EXCEPT ![t] = @ + 1]
    /\ event' = [event EXCEPT ![t] = [nth |-> taken[t] + 1, seq |-> seq, prev |-> NoHash]]
    /\ seq' = NextSeq
    /\ pc' = [pc EXCEPT ![t] = "prev"]
    /\ UNCHANGED <<prevHash, execVars, stream, faults>>

\* EmitterState::get_prev_hash.
ReadPrevHash(t) ==
    /\ pc[t] = "prev"
    /\ event' = [event EXCEPT ![t].prev = prevHash]
    /\ pc' = [pc EXCEPT ![t] = "hash"]
    /\ UNCHANGED <<emitterVars, execVars, taken, stream, faults>>

\* Mutant: the hash of the event is not kept for the next one.
SetPrevHash_Forgets(t) ==
    /\ pc[t] = "hash"
    /\ pc' = [pc EXCEPT ![t] = "xadd"]
    /\ UNCHANGED <<emitterVars, execVars, taken, event, stream, faults>>

\* compute_hash and EmitterState::set_prev_hash, before the event is written.
SetPrevHash(t) ==
    /\ pc[t] = "hash"
    /\ prevHash' = event[t].seq
    /\ pc' = [pc EXCEPT ![t] = "xadd"]
    /\ UNCHANGED <<seq, execVars, taken, event, stream, faults>>

Append1(t) == stream' = [stream EXCEPT ![t] = Append(@, event[t])]

XaddOk(t) ==
    /\ pc[t] = "xadd"
    /\ Append1(t)
    /\ event' = [event EXCEPT ![t] = NoEvent]
    /\ pc' = [pc EXCEPT ![t] = "update"]
    /\ UNCHANGED <<emitterVars, execVars, taken, faults>>

\* Mutant: a failed XADD gives its sequence number back.
XaddFails_GivesBack(t) ==
    /\ pc[t] = "xadd"
    /\ faults < MaxFaults /\ faults' = faults + 1
    /\ seq' = seq - 1
    /\ event' = [event EXCEPT ![t] = NoEvent]
    /\ pc' = [pc EXCEPT ![t] = "recv"]
    /\ UNCHANGED <<prevHash, execVars, taken, stream>>

\* The command fails, or only its reply is lost: the event loop logs the error
\* and goes on with the next event.
XaddFails(t) ==
    /\ pc[t] = "xadd"
    /\ faults < MaxFaults /\ faults' = faults + 1
    /\ Append1(t) \/ UNCHANGED stream
    /\ event' = [event EXCEPT ![t] = NoEvent]
    /\ pc' = [pc EXCEPT ![t] = "recv"]
    /\ UNCHANGED <<emitterVars, execVars, taken>>

\* TaskQueue::update_last_seq sets columns last_seq and last_event_id, which
\* the schema does not have: the statement fails, the error is logged, and no
\* row is changed.
UpdateLastSeq(t) ==
    /\ pc[t] = "update"
    /\ pc' = [pc EXCEPT ![t] = "recv"]
    /\ UNCHANGED <<emitterVars, execVars, taken, event, stream, faults>>

LoopStep(t) ==
    TakeEvent(t) \/ ReadPrevHash(t) \/ SetPrevHash(t) \/ XaddOk(t) \/ UpdateLastSeq(t)

Next ==
    \E t \in Task :
        \/ AdapterEmits(t) \/ AdapterReturns(t) \/ MarkFinished(t)
        \/ LoopStep(t) \/ XaddFails(t)

Spec == Init /\ [][Next]_vars

(* The detached event loop is still polled by Tokio. *)
FairSpec ==
    /\ Spec
    /\ \A t \in Task : WF_vars(LoopStep(t)) /\ WF_vars(MarkFinished(t))

-----------------------------------------------------------------------------
(* Properties. *)

\* An event that is missing from a stream leaves a gap in the sequence numbers
\* at least as wide, and no entry is out of order: what a reader may conclude
\* from the numbers alone (gap_detection.rs), with other tasks of the worker
\* taking numbers from the same counter in between.
LossLeavesGap ==
    \A t \in Task : \A i, j \in DOMAIN stream[t] :
        i < j => /\ stream[t][i].nth < stream[t][j].nth
                 /\ stream[t][j].seq - stream[t][i].seq >= stream[t][j].nth - stream[t][i].nth

\* A worker never gives a sequence number to two events, whichever tasks they
\* belong to: hash_prev names one event at most.
SeqIsUnique ==
    \A t, u \in Task : \A i \in DOMAIN stream[t], j \in DOMAIN stream[u] :
        stream[t][i].seq = stream[u][j].seq => t = u /\ i = j

\* Each entry of s names the hash of the entry before it.
Chain(s) ==
    \A i \in DOMAIN s : s[i].prev = IF i = 1 THEN NoHash ELSE s[i - 1].seq

\* The documented chain (events.rs) is what a worker publishes as long as it
\* serves one task and no XADD failed.
ChainWhenAlone ==
    \A t \in Task :
        faults = 0 /\ (\A u \in Task \ {t} : taken[u] = 0) => Chain(stream[t])

\* Every event an adapter emitted is in the stream in the end, the ones the
\* event loop had not reached when the row became final included, unless an
\* XADD failed.
EventsArrive ==
    \A t \in Task :
        epc[t] = "settle" ~> Len(stream[t]) + faults >= sent[t] /\ taken[t] = sent[t]
=============================================================================
