---------------------------- MODULE EventProofs ----------------------------
(***************************************************************************)
(* Proofs about EventPipeline for every set of tasks, every number of      *)
(* events and any number of failed XADD commands.                          *)
(***************************************************************************)
EXTENDS EventPipeline, SequenceTheorems, TLAPS

\* An event between its number and its XADD.
InFlight(t) == pc[t] \in {"prev", "hash", "xadd"}

\* An event loop that is past recv() holds an event.
Loaded == \A t \in Task : InFlight(t) => event[t] \in Event

\* Streams, events and counters keep their types, and an event loop has received
\* no more than the adapter sent.
THEOREM EventTypeCorrect == Spec => [](TypeOK /\ Loaded)
<1> USE PipelineAssumption
    DEF TypeOK, vars, emitterVars, execVars, loopVars, Event, NoEvent, NoHash, InFlight, Loaded
<1> DEFINE TInv == TypeOK /\ Loaded
<1>1. Init => TInv
  BY DEF Init
<1>2. TInv /\ [Next]_vars => TInv'
  <2> SUFFICES ASSUME TInv, [Next]_vars PROVE TInv'
    OBVIOUS
  <2>1. ASSUME NEW t \in Task, AdapterEmits(t) PROVE TInv'
    BY <2>1 DEF AdapterEmits
  <2>2. ASSUME NEW t \in Task, AdapterReturns(t) PROVE TInv'
    BY <2>2 DEF AdapterReturns
  <2>3. ASSUME NEW t \in Task, MarkFinished(t) PROVE TInv'
    BY <2>3 DEF MarkFinished
  <2>4. ASSUME NEW t \in Task, TakeEvent(t) PROVE TInv'
    BY <2>4, SMTT(30) DEF TakeEvent, NextSeq
  <2>5. ASSUME NEW t \in Task, ReadPrevHash(t) PROVE TInv'
    <3>1. event' \in [Task -> Event \cup {NoEvent}]
      <4>1. event[t] \in Event /\ prevHash \in Nat \cup {NoHash}
        BY <2>5 DEF ReadPrevHash
      <4>2. [event[t] EXCEPT !.prev = prevHash] \in Event
        BY <4>1
      <4>. QED
        BY <2>5, <4>2 DEF ReadPrevHash
    <3>2. Loaded'
      <4>1. event[t] \in Event /\ prevHash \in Nat \cup {NoHash}
        BY <2>5 DEF ReadPrevHash
      <4>. QED
        BY <2>5, <4>1 DEF ReadPrevHash
    <3>. QED
      BY <2>5, <3>1, <3>2 DEF ReadPrevHash
  <2>6. ASSUME NEW t \in Task, SetPrevHash(t) PROVE TInv'
    BY <2>6 DEF SetPrevHash
  <2>7. ASSUME NEW t \in Task, XaddOk(t) PROVE TInv'
    <3>1. event[t] \in Event
      BY <2>7 DEF XaddOk
    <3>2. stream[t] \in Seq(Event)
      OBVIOUS
    <3>3. Append(stream[t], event[t]) \in Seq(Event)
      BY <3>1, <3>2, AppendProperties
    <3>4. stream' \in [Task -> Seq(Event)]
      BY <2>7, <3>3 DEF XaddOk, Append1
    <3>. QED
      BY <2>7, <3>4 DEF XaddOk, Append1
  <2>8. ASSUME NEW t \in Task, UpdateLastSeq(t) PROVE TInv'
    BY <2>8 DEF UpdateLastSeq
  <2>9. ASSUME NEW t \in Task, XaddFails(t) PROVE TInv'
    <3>1. event[t] \in Event
      BY <2>9 DEF XaddFails
    <3>2. stream[t] \in Seq(Event)
      OBVIOUS
    <3>3. Append(stream[t], event[t]) \in Seq(Event)
      BY <3>1, <3>2, AppendProperties
    <3>4. stream' \in [Task -> Seq(Event)]
      BY <2>9, <3>3 DEF XaddFails, Append1
    <3>5. pc' = [pc EXCEPT ![t] = "recv"] /\ event' = [event EXCEPT ![t] = NoEvent]
      BY <2>9 DEF XaddFails
    <3>6. Loaded'
      BY <3>5
    <3>7. UNCHANGED <<emitterVars, execVars, taken>> /\ faults' \in 0 .. MaxFaults
      BY <2>9 DEF XaddFails
    <3>. QED
      BY <3>4, <3>5, <3>6, <3>7
  <2>10. CASE UNCHANGED vars
    BY <2>10
  <2>. QED
    BY <2>1, <2>2, <2>3, <2>4, <2>5, <2>6, <2>7, <2>8, <2>9, <2>10 DEF Next, LoopStep
<1>3. TInv => TypeOK /\ Loaded
  OBVIOUS
<1>. QED
  BY <1>1, <1>2, <1>3, PTL DEF Spec

-----------------------------------------------------------------------------
(* Numbers. *)

\* What the counter promises of the entries written and of the events in flight:
\* all their numbers are below it and different, and of one task's events those
\* received later have numbers at least as much higher.
Numbering ==
    /\ \A t \in Task : InFlight(t) => event[t].seq < seq /\ event[t].nth = taken[t]
    /\ \A t, u \in Task : InFlight(t) /\ InFlight(u) /\ t # u => event[t].seq # event[u].seq
    /\ \A t \in Task : \A i \in DOMAIN stream[t] :
        /\ stream[t][i].nth <= taken[t]
        /\ seq - stream[t][i].seq >= taken[t] + 1 - stream[t][i].nth
    /\ \A t, u \in Task : InFlight(t) =>
        \A i \in DOMAIN stream[u] : stream[u][i].seq # event[t].seq
    /\ \A t \in Task : InFlight(t) =>
        \A i \in DOMAIN stream[t] :
            /\ stream[t][i].nth < event[t].nth
            /\ event[t].seq - stream[t][i].seq >= event[t].nth - stream[t][i].nth
    /\ SeqIsUnique
    /\ LossLeavesGap

\* Entries and events in flight have natural numbers.
LEMMA EntryTypes ==
    ASSUME TypeOK, Loaded
    PROVE  /\ seq \in Nat
           /\ \A u \in Task : taken[u] \in Nat /\ event[u].seq \in Nat /\ event[u].nth \in Nat
           /\ \A u \in Task : \A i \in DOMAIN stream[u] :
                  stream[u][i] \in Event /\ stream[u][i].seq \in Nat /\ stream[u][i].nth \in Nat
<1>1. \A u \in Task : \A i \in DOMAIN stream[u] : stream[u][i] \in Event
  BY DEF TypeOK
<1>2. \A e \in Event \cup {NoEvent} : e.seq \in Nat /\ e.nth \in Nat
  BY DEF Event, NoEvent
<1>3. \A u \in Task : event[u] \in Event \cup {NoEvent} /\ taken[u] \in Nat
  BY DEF TypeOK
<1>4. seq \in Nat
  BY DEF TypeOK
<1>. QED
  BY <1>1, <1>2, <1>3, <1>4

\* The numbers of the entries of a stream are below the counter.
LEMMA EntriesBelow ==
    ASSUME TypeOK, Loaded, Numbering
    PROVE  \A u \in Task : \A i \in DOMAIN stream[u] : stream[u][i].seq < seq
<1> SUFFICES ASSUME NEW u \in Task, NEW i \in DOMAIN stream[u]
             PROVE  stream[u][i].seq < seq
  OBVIOUS
<1>1. stream[u][i].nth <= taken[u] /\ seq - stream[u][i].seq >= taken[u] + 1 - stream[u][i].nth
  BY DEF Numbering
<1>. QED
  BY <1>1, EntryTypes

\* A step that writes at most the event in flight of one task, and ends its flight,
\* keeps Numbering: XADD, failed or not.
LEMMA WriteKeepsNumbering ==
    ASSUME TypeOK, Loaded, Numbering, NEW t \in Task, pc[t] = "xadd",
           Append1(t) \/ UNCHANGED stream,
           UNCHANGED <<seq, taken>>,
           event' = [event EXCEPT ![t] = NoEvent],
           pc' \in {[pc EXCEPT ![t] = "update"], [pc EXCEPT ![t] = "recv"]}
    PROVE  Numbering'
<1> USE DEF TypeOK, Loaded, InFlight
<1>1. /\ event[t] \in Event /\ InFlight(t)
      /\ \A u \in Task : InFlight(u)' => u # t /\ InFlight(u) /\ event'[u] = event[u]
  OBVIOUS
<1>2. CASE UNCHANGED stream
  BY <1>1, <1>2 DEF Numbering, SeqIsUnique, LossLeavesGap
<1>3. CASE Append1(t)
  <2> DEFINE n == Len(stream[t])
  <2>1. n \in Nat /\ stream[t] \in Seq(Event)
    OBVIOUS
  <2>2. /\ stream' = [stream EXCEPT ![t] = Append(stream[t], event[t])]
        /\ DOMAIN stream'[t] = 1 .. (n + 1)
        /\ DOMAIN stream[t] = 1 .. n
        /\ \A i \in 1 .. n : stream'[t][i] = stream[t][i]
        /\ stream'[t][n + 1] = event[t]
        /\ \A u \in Task \ {t} : stream'[u] = stream[u]
    BY <1>1, <1>3, <2>1, AppendProperties DEF Append1
  <2>3. \A u \in Task : \A i \in DOMAIN stream'[u] :
            \/ i \in DOMAIN stream[u] /\ stream'[u][i] = stream[u][i]
            \/ u = t /\ i = n + 1 /\ stream'[u][i] = event[t] /\ i \notin DOMAIN stream[u]
    <3> SUFFICES ASSUME NEW u \in Task, NEW i \in DOMAIN stream'[u]
                 PROVE  \/ i \in DOMAIN stream[u] /\ stream'[u][i] = stream[u][i]
                        \/ /\ u = t /\ i = n + 1 /\ stream'[u][i] = event[t]
                           /\ i \notin DOMAIN stream[u]
      OBVIOUS
    <3>1. CASE u # t
      BY <2>2, <3>1
    <3>2. CASE u = t /\ i \in 1 .. n
      BY <2>2, <3>2
    <3>3. CASE u = t /\ i = n + 1
      BY <2>1, <2>2, <3>3
    <3>4. u = t => i \in 1 .. n \/ i = n + 1
      <4>1. u = t => i \in 1 .. (n + 1)
        BY <2>2
      <4>. QED
        BY <2>1, <4>1
    <3>. QED
      BY <3>1, <3>2, <3>3, <3>4
  <2>4. \A u \in Task : \A i \in DOMAIN stream[u] : stream[u][i] \in Event
    OBVIOUS
  <2>5. \A u \in Task : InFlight(u) => event[u].seq < seq /\ event[u].nth = taken[u]
    BY DEF Numbering
  <2>6. \A u, v \in Task :
            InFlight(u) /\ InFlight(v) /\ u # v => event[u].seq # event[v].seq
    BY DEF Numbering
  <2>7. \A u \in Task : \A i \in DOMAIN stream[u] :
            /\ stream[u][i].nth <= taken[u]
            /\ seq - stream[u][i].seq >= taken[u] + 1 - stream[u][i].nth
    BY DEF Numbering
  <2>8. \A u, v \in Task : InFlight(u) =>
            \A i \in DOMAIN stream[v] : stream[v][i].seq # event[u].seq
    BY DEF Numbering
  <2>9. \A u \in Task : InFlight(u) =>
            \A i \in DOMAIN stream[u] :
                /\ stream[u][i].nth < event[u].nth
                /\ event[u].seq - stream[u][i].seq >= event[u].nth - stream[u][i].nth
    BY DEF Numbering
  <2>a. (\A u \in Task : InFlight(u) => event[u].seq < seq /\ event[u].nth = taken[u])'
    BY <1>1, <2>5
  <2>b. (\A u, v \in Task :
            InFlight(u) /\ InFlight(v) /\ u # v => event[u].seq # event[v].seq)'
    BY <1>1, <2>6
  <2>c. (\A u \in Task : \A i \in DOMAIN stream[u] :
            /\ stream[u][i].nth <= taken[u]
            /\ seq - stream[u][i].seq >= taken[u] + 1 - stream[u][i].nth)'
    <3> SUFFICES ASSUME NEW u \in Task, NEW i \in DOMAIN stream'[u]
                 PROVE  /\ stream'[u][i].nth <= taken[u]
                        /\ seq - stream'[u][i].seq >= taken[u] + 1 - stream'[u][i].nth
      OBVIOUS
    <3>1. CASE i \in DOMAIN stream[u] /\ stream'[u][i] = stream[u][i]
      BY <2>7, <3>1
    <3>2. CASE u = t /\ stream'[u][i] = event[t]
      BY <1>1, <2>5, <3>2, EntryTypes
    <3>. QED
      BY <2>3, <3>1, <3>2
  <2>d. (\A u, v \in Task : InFlight(u) =>
            \A i \in DOMAIN stream[v] : stream[v][i].seq # event[u].seq)'
    <3> SUFFICES ASSUME NEW u \in Task, NEW v \in Task, InFlight(u)',
                        NEW i \in DOMAIN stream'[v]
                 PROVE  stream'[v][i].seq # event'[u].seq
      OBVIOUS
    <3>1. u # t /\ InFlight(u) /\ event'[u] = event[u]
      BY <1>1
    <3>2. CASE i \in DOMAIN stream[v] /\ stream'[v][i] = stream[v][i]
      BY <2>8, <3>1, <3>2
    <3>3. CASE v = t /\ stream'[v][i] = event[t]
      BY <1>1, <2>6, <3>1, <3>3
    <3>. QED
      BY <2>3, <3>2, <3>3
  <2>e. (\A u \in Task : InFlight(u) =>
            \A i \in DOMAIN stream[u] :
                /\ stream[u][i].nth < event[u].nth
                /\ event[u].seq - stream[u][i].seq >= event[u].nth - stream[u][i].nth)'
    BY <1>1, <2>3, <2>9
  <2>f. SeqIsUnique'
    <3> SUFFICES ASSUME NEW u \in Task, NEW v \in Task, NEW i \in DOMAIN stream'[u],
                        NEW j \in DOMAIN stream'[v], stream'[u][i].seq = stream'[v][j].seq
                 PROVE  u = v /\ i = j
      BY DEF SeqIsUnique
    <3> DEFINE Old(w, k) == k \in DOMAIN stream[w] /\ stream'[w][k] = stream[w][k]
               New(w, k) == w = t /\ k = n + 1 /\ stream'[w][k] = event[t]
    <3>1. /\ Old(u, i) \/ New(u, i)
          /\ Old(v, j) \/ New(v, j)
      BY <2>3
    <3>2. CASE Old(u, i) /\ Old(v, j)
      BY <3>2 DEF Numbering, SeqIsUnique
    <3>3. CASE Old(u, i) /\ New(v, j)
      BY <1>1, <2>8, <3>3
    <3>4. CASE New(u, i) /\ Old(v, j)
      BY <1>1, <2>8, <3>4
    <3>5. CASE New(u, i) /\ New(v, j)
      BY <3>5
    <3>. QED
      BY <3>1, <3>2, <3>3, <3>4, <3>5
  <2>g. LossLeavesGap'
    <3> SUFFICES ASSUME NEW u \in Task, NEW i \in DOMAIN stream'[u],
                        NEW j \in DOMAIN stream'[u], i < j
                 PROVE  /\ stream'[u][i].nth < stream'[u][j].nth
                        /\ stream'[u][j].seq - stream'[u][i].seq
                               >= stream'[u][j].nth - stream'[u][i].nth
      BY DEF LossLeavesGap
    <3>1. CASE j \in DOMAIN stream[u] /\ stream'[u][j] = stream[u][j]
      <4>1. i \in DOMAIN stream[u] /\ stream'[u][i] = stream[u][i]
        <5>1. CASE u = t
          <6>1. i \in 1 .. (n + 1) /\ j \in 1 .. n
            BY <2>2, <3>1, <5>1
          <6>2. i \in 1 .. n
            BY <2>1, <6>1
          <6>. QED
            BY <2>2, <5>1, <6>2
        <5>2. CASE u # t
          BY <2>2, <5>2
        <5>. QED
          BY <5>1, <5>2
      <4>. QED
        BY <3>1, <4>1 DEF Numbering, LossLeavesGap
    <3>2. CASE u = t /\ j = n + 1 /\ stream'[u][j] = event[t]
      <4>1. i \in DOMAIN stream[u] /\ stream'[u][i] = stream[u][i]
        <5>1. i \in 1 .. n
          <6>1. i \in 1 .. (n + 1) /\ j = n + 1
            BY <2>2, <3>2
          <6>. QED
            BY <2>1, <6>1
        <5>. QED
          BY <2>2, <3>2, <5>1
      <4>. QED
        BY <1>1, <2>9, <3>2, <4>1
    <3>. QED
      BY <2>3, <3>1, <3>2
  <2>. QED
    BY <2>a, <2>b, <2>c, <2>d, <2>e, <2>f, <2>g DEF Numbering
<1>. QED
  BY <1>2, <1>3

\* A stream that is as far behind the counter as the channel stays so when the
\* counter advances, whether or not the event that got the number is its own.
LEMMA CounterAdvances ==
    ASSUME NEW nth \in Nat, NEW entry \in Nat, NEW got \in Nat, NEW counter \in Nat,
           nth <= got, counter - entry >= got + 1 - nth
    PROVE  /\ nth <= got + 1 /\ nth < got + 1
           /\ (counter + 1) - entry >= got + 1 - nth
           /\ (counter + 1) - entry >= (got + 1) + 1 - nth
           /\ counter - entry >= (got + 1) - nth
OBVIOUS

\* A new number is above all the others.
LEMMA TakeKeepsNumbering ==
    ASSUME TypeOK, Loaded, Numbering, NEW t \in Task, TakeEvent(t)
    PROVE  Numbering'
<1> USE DEF TypeOK
<1>1. /\ UNCHANGED stream /\ seq' = seq + 1 /\ ~InFlight(t)
      /\ event'[t].seq = seq /\ event'[t].nth = taken[t] + 1 /\ taken'[t] = taken[t] + 1
  BY DEF TakeEvent, NextSeq, InFlight
<1>2. \A u \in Task : u # t => /\ event'[u] = event[u] /\ taken'[u] = taken[u]
                               /\ InFlight(u)' = InFlight(u)
  BY DEF TakeEvent, InFlight
<1>3. \A u \in Task : \A i \in DOMAIN stream[u] :
          /\ stream[u][i].nth <= taken[u]
          /\ seq - stream[u][i].seq >= taken[u] + 1 - stream[u][i].nth
  BY DEF Numbering
<1>4. \A u \in Task : InFlight(u) => event[u].seq < seq /\ event[u].nth = taken[u]
  BY DEF Numbering
<1>5. ASSUME NEW u \in Task, InFlight(u)'
      PROVE  event'[u].seq < seq' /\ event'[u].nth = taken'[u]
  <2>1. CASE u = t
    BY <1>1, <2>1, EntryTypes
  <2>2. CASE u # t
    BY <1>1, <1>2, <1>4, <1>5, <2>2, EntryTypes, SMTT(30)
  <2>. QED
    BY <2>1, <2>2
<1>6. ASSUME NEW u \in Task, NEW v \in Task, InFlight(u)', InFlight(v)', u # v
      PROVE  event'[u].seq # event'[v].seq
  <2>1. CASE u # t /\ v # t
    BY <1>2, <1>6, <2>1 DEF Numbering
  <2>2. CASE u = t
    <3>1. event'[u].seq = seq /\ event'[v].seq < seq
      BY <1>1, <1>2, <1>4, <1>6, <2>2
    <3>. QED
      BY <1>2, <1>6, <2>2, <3>1, EntryTypes
  <2>3. CASE v = t
    <3>1. event'[v].seq = seq /\ event'[u].seq < seq
      BY <1>1, <1>2, <1>4, <1>6, <2>3
    <3>. QED
      BY <1>2, <1>6, <2>3, <3>1, EntryTypes
  <2>. QED
    BY <2>1, <2>2, <2>3
<1>7. ASSUME NEW u \in Task, NEW i \in DOMAIN stream[u]
      PROVE  /\ stream[u][i].nth <= taken'[u]
             /\ seq' - stream[u][i].seq >= taken'[u] + 1 - stream[u][i].nth
  <2>a. /\ stream[u][i].nth \in Nat /\ stream[u][i].seq \in Nat
        /\ taken[u] \in Nat /\ seq \in Nat
        /\ stream[u][i].nth <= taken[u]
        /\ seq - stream[u][i].seq >= taken[u] + 1 - stream[u][i].nth
    BY <1>3, EntryTypes
  <2>1. CASE u = t
    <3>1. taken'[u] = taken[u] + 1 /\ seq' = seq + 1
      BY <1>1, <2>1
    <3>2. /\ stream[u][i].nth <= taken[u] + 1
          /\ (seq + 1) - stream[u][i].seq >= (taken[u] + 1) + 1 - stream[u][i].nth
      BY <2>a, CounterAdvances, ZenonT(60)
    <3>. QED
      BY <3>1, <3>2, Zenon
  <2>2. CASE u # t
    <3>1. taken'[u] = taken[u] /\ seq' = seq + 1
      BY <1>1, <1>2, <2>2
    <3>2. (seq + 1) - stream[u][i].seq >= taken[u] + 1 - stream[u][i].nth
      BY <2>a, CounterAdvances
    <3>. QED
      BY <2>a, <3>1, <3>2, Zenon
  <2>. QED
    BY <2>1, <2>2
<1>8. ASSUME NEW u \in Task, NEW v \in Task, InFlight(u)', NEW i \in DOMAIN stream[v]
      PROVE  stream[v][i].seq # event'[u].seq
  <2>1. CASE u = t
    BY <1>1, <2>1, EntryTypes, EntriesBelow, SMTT(30)
  <2>2. CASE u # t
    BY <1>2, <1>8, <2>2 DEF Numbering
  <2>. QED
    BY <2>1, <2>2
<1>9. ASSUME NEW u \in Task, InFlight(u)', NEW i \in DOMAIN stream[u]
      PROVE  /\ stream[u][i].nth < event'[u].nth
             /\ event'[u].seq - stream[u][i].seq >= event'[u].nth - stream[u][i].nth
  <2>1. CASE u = t
    <3>1. /\ stream[u][i].nth \in Nat /\ stream[u][i].seq \in Nat
          /\ taken[u] \in Nat /\ seq \in Nat
          /\ stream[u][i].nth <= taken[u]
          /\ seq - stream[u][i].seq >= taken[u] + 1 - stream[u][i].nth
      BY <1>3, EntryTypes
    <3>2. event'[u].nth = taken[u] + 1 /\ event'[u].seq = seq
      BY <1>1, <2>1
    <3>3. /\ stream[u][i].nth < taken[u] + 1
          /\ seq - stream[u][i].seq >= (taken[u] + 1) - stream[u][i].nth
      BY <3>1, CounterAdvances
    <3>. QED
      BY <3>2, <3>3, Zenon
  <2>2. CASE u # t
    BY <1>2, <1>9, <2>2 DEF Numbering
  <2>. QED
    BY <2>1, <2>2
<1>10. SeqIsUnique' /\ LossLeavesGap'
  BY <1>1 DEF Numbering, SeqIsUnique, LossLeavesGap
<1>. QED
  BY <1>1, <1>5, <1>6, <1>7, <1>8, <1>9, <1>10 DEF Numbering

\* Numbering is inductive: fetch_add gives a number once, whichever event loops of
\* the worker ask for one, and each loop handles one event at a time.
THEOREM NumberingInvariant == Spec => []Numbering
<1>1. Init => Numbering
  BY DEF Init, Numbering, InFlight, SeqIsUnique, LossLeavesGap
<1>2. TypeOK /\ Loaded /\ Numbering /\ [Next]_vars => Numbering'
  <2> SUFFICES ASSUME TypeOK, Loaded, Numbering, [Next]_vars PROVE Numbering'
    OBVIOUS
  <2> USE DEF emitterVars, execVars, loopVars
  <2>1. ASSUME UNCHANGED <<seq, taken, stream, pc, event>> PROVE Numbering'
    BY <2>1 DEF Numbering, InFlight, SeqIsUnique, LossLeavesGap
  <2>2. ASSUME NEW t \in Task, TakeEvent(t) PROVE Numbering'
    BY <2>2, TakeKeepsNumbering
  <2>3. ASSUME NEW t \in Task, ReadPrevHash(t) PROVE Numbering'
    <3>1. /\ UNCHANGED <<seq, taken, stream>>
          /\ \A u \in Task : /\ event'[u].seq = event[u].seq /\ event'[u].nth = event[u].nth
                             /\ InFlight(u)' = InFlight(u)
      BY <2>3 DEF ReadPrevHash, InFlight, TypeOK, Event, NoEvent
    <3>. QED
      BY <3>1 DEF Numbering, SeqIsUnique, LossLeavesGap
  <2>4. ASSUME NEW t \in Task, SetPrevHash(t) PROVE Numbering'
    <3>1. UNCHANGED <<seq, taken, stream, event>> /\ \A u \in Task : InFlight(u)' = InFlight(u)
      BY <2>4 DEF SetPrevHash, InFlight, TypeOK
    <3>. QED
      BY <3>1 DEF Numbering, SeqIsUnique, LossLeavesGap
  <2>5. ASSUME NEW t \in Task, XaddOk(t) PROVE Numbering'
    BY <2>5, WriteKeepsNumbering DEF XaddOk
  <2>6. ASSUME NEW t \in Task, XaddFails(t) PROVE Numbering'
    BY <2>6, WriteKeepsNumbering DEF XaddFails
  <2>7. ASSUME NEW t \in Task, UpdateLastSeq(t) PROVE Numbering'
    <3>1. UNCHANGED <<seq, taken, stream, event>> /\ \A u \in Task : InFlight(u)' = InFlight(u)
      BY <2>7 DEF UpdateLastSeq, InFlight, TypeOK
    <3>. QED
      BY <3>1 DEF Numbering, SeqIsUnique, LossLeavesGap
  <2>. QED
    BY <2>1, <2>2, <2>3, <2>4, <2>5, <2>6, <2>7
    DEF Next, LoopStep, AdapterEmits, AdapterReturns, MarkFinished, vars
<1>. QED
  BY <1>1, <1>2, EventTypeCorrect, PTL DEF Spec

\* A worker never gives a sequence number to two events.
THEOREM SeqIsUniqueHolds == Spec => []SeqIsUnique
<1>1. Numbering => SeqIsUnique
  BY DEF Numbering
<1>. QED
  BY <1>1, NumberingInvariant, PTL

\* A lost event leaves a gap in the numbers of its stream, and nothing is reordered.
THEOREM LossLeavesGapHolds == Spec => []LossLeavesGap
<1>1. Numbering => LossLeavesGap
  BY DEF Numbering
<1>. QED
  BY <1>1, NumberingInvariant, PTL

-----------------------------------------------------------------------------
(* The chain. *)

\* No other task has used the emitter, and no XADD has failed.
Alone(t) == faults = 0 /\ \A u \in Task \ {t} : taken[u] = 0

\* The hash the next entry of s has to name.
LastHash(s) == IF s = <<>> THEN NoHash ELSE s[Len(s)].seq

\* How far the event in flight carries the chain on: the emitter keeps the hash
\* of the last entry until it replaces it by that of the event it is to write.
Carried(t) ==
    /\ pc[t] \in {"recv", "prev", "update"} => prevHash = LastHash(stream[t])
    /\ pc[t] = "hash" => prevHash = LastHash(stream[t]) /\ event[t].prev = LastHash(stream[t])
    /\ pc[t] = "xadd" => prevHash = event[t].seq /\ event[t].prev = LastHash(stream[t])

Linked ==
    /\ \A t \in Task : taken[t] = 0 => pc[t] = "recv"
    /\ \A t \in Task : Alone(t) => Chain(stream[t]) /\ Carried(t)

\* An entry that names the last hash of a chain carries it on.
LEMMA ChainAppend ==
    ASSUME NEW s \in Seq(Event), NEW e \in Event, Chain(s), e.prev = LastHash(s)
    PROVE  Chain(Append(s, e)) /\ LastHash(Append(s, e)) = e.seq
<1> DEFINE n == Len(s)  r == Append(s, e)
<1>1. n \in Nat /\ DOMAIN s = 1 .. n /\ (s = <<>> <=> n = 0)
  BY EmptySeq
<1>2. /\ r \in Seq(Event) /\ Len(r) = n + 1 /\ DOMAIN r = 1 .. n + 1 /\ r # <<>>
      /\ r[n + 1] = e /\ \A i \in 1 .. n : r[i] = s[i]
  BY <1>1, AppendProperties
<1>3. ASSUME NEW i \in DOMAIN r
      PROVE  r[i].prev = IF i = 1 THEN NoHash ELSE r[i - 1].seq
  <2>1. CASE i = n + 1
    <3>1. r[i].prev = LastHash(s) /\ i - 1 = n /\ (i = 1 <=> n = 0)
      BY <1>1, <1>2, <2>1
    <3>2. n # 0 => r[i - 1] = s[n]
      BY <1>1, <1>2, <3>1
    <3>. QED
      BY <1>1, <3>1, <3>2 DEF LastHash
  <2>2. CASE i # n + 1
    <3>1. i \in 1 .. n /\ (i # 1 => i - 1 \in 1 .. n)
      BY <1>1, <1>2, <2>2
    <3>. QED
      BY <1>1, <1>2, <3>1 DEF Chain
  <2>. QED
    BY <2>1, <2>2
<1>. QED
  BY <1>2, <1>3 DEF Chain, LastHash

\* What a step of u does to the counts, and what it leaves to the other tasks.
LEMMA StepFrame ==
    ASSUME TypeOK, NEW u \in Task,
           AdapterEmits(u) \/ AdapterReturns(u) \/ MarkFinished(u) \/ LoopStep(u) \/ XaddFails(u)
    PROVE  /\ \A t \in Task \ {u} : /\ taken'[t] = taken[t] /\ pc'[t] = pc[t]
                                    /\ event'[t] = event[t] /\ stream'[t] = stream[t]
           /\ taken'[u] = 0 => taken[u] = 0 /\ ~TakeEvent(u)
           /\ pc[u] = "recv" /\ ~TakeEvent(u) => UNCHANGED <<prevHash, pc, event, stream>>
           /\ faults' = 0 => faults = 0 /\ ~XaddFails(u)
<1> USE DEF TypeOK, emitterVars, execVars, loopVars
<1>1. CASE AdapterEmits(u)
  BY <1>1 DEF AdapterEmits, TakeEvent, XaddFails
<1>2. CASE AdapterReturns(u)
  BY <1>2 DEF AdapterReturns, TakeEvent, XaddFails
<1>3. CASE MarkFinished(u)
  BY <1>3 DEF MarkFinished, TakeEvent, XaddFails
<1>4. CASE TakeEvent(u)
  BY <1>4 DEF TakeEvent, XaddFails
<1>5. CASE ReadPrevHash(u)
  BY <1>5 DEF ReadPrevHash, TakeEvent, XaddFails
<1>6. CASE SetPrevHash(u)
  BY <1>6 DEF SetPrevHash, TakeEvent, XaddFails
<1>7. CASE XaddOk(u)
  BY <1>7 DEF XaddOk, Append1, TakeEvent, XaddFails
<1>8. CASE UpdateLastSeq(u)
  BY <1>8 DEF UpdateLastSeq, TakeEvent, XaddFails
<1>9. CASE XaddFails(u)
  BY <1>9 DEF XaddFails, Append1, TakeEvent
<1>. QED
  BY <1>1, <1>2, <1>3, <1>4, <1>5, <1>6, <1>7, <1>8, <1>9 DEF LoopStep

\* A step of the task itself carries its chain on; one of another task, while that
\* task has received nothing, leaves the emitter alone.
LEMMA LinkedStep ==
    ASSUME TypeOK, Loaded, Linked, TypeOK', NEW u \in Task,
           AdapterEmits(u) \/ AdapterReturns(u) \/ MarkFinished(u) \/ LoopStep(u) \/ XaddFails(u)
    PROVE  Linked'
<1>1. ASSUME NEW t \in Task, taken'[t] = 0 PROVE pc'[t] = "recv"
  BY <1>1, StepFrame DEF Linked
<1>2. ASSUME NEW t \in Task, Alone(t)' PROVE Chain(stream[t])' /\ Carried(t)'
  <2>1. Alone(t) /\ ~XaddFails(u)
    BY <1>2, StepFrame DEF Alone
  <2>2. Chain(stream[t]) /\ Carried(t)
    BY <2>1 DEF Linked
  <2>3. CASE u # t
    <3>1. taken'[u] = 0 /\ taken[u] = 0 /\ pc[u] = "recv"
      BY <1>2, <2>1, <2>3 DEF Alone, Linked
    <3>2. UNCHANGED <<prevHash, pc, event, stream>>
      BY <3>1, StepFrame
    <3>. QED
      BY <2>2, <3>2 DEF Carried
  <2>4. CASE u = t /\ XaddOk(t)
    <3>1. event[t] \in Event /\ stream[t] \in Seq(Event)
      BY <2>4 DEF XaddOk, Loaded, InFlight, TypeOK
    <3>2. event[t].prev = LastHash(stream[t]) /\ prevHash = event[t].seq
      BY <2>2, <2>4 DEF XaddOk, Carried
    <3>3. stream'[t] = Append(stream[t], event[t]) /\ pc'[t] = "update" /\ prevHash' = prevHash
      BY <2>4 DEF XaddOk, Append1, TypeOK, emitterVars
    <3>. QED
      BY <2>2, <3>1, <3>2, <3>3, ChainAppend DEF Carried
  <2>5. CASE u = t /\ (AdapterEmits(t) \/ AdapterReturns(t) \/ MarkFinished(t))
    <3>1. UNCHANGED <<prevHash, pc, event, stream>>
      BY <2>5 DEF AdapterEmits, AdapterReturns, MarkFinished, emitterVars, loopVars
    <3>. QED
      BY <2>2, <3>1 DEF Carried
  <2>6. CASE u = t /\ TakeEvent(t)
    <3>1. pc[t] = "recv" /\ pc'[t] = "prev" /\ UNCHANGED <<prevHash, stream>>
      BY <2>6 DEF TakeEvent, TypeOK
    <3>. QED
      BY <2>2, <3>1 DEF Carried
  <2>7. CASE u = t /\ ReadPrevHash(t)
    <3>1. /\ pc[t] = "prev" /\ pc'[t] = "hash" /\ UNCHANGED <<prevHash, stream>>
          /\ event'[t].prev = prevHash
      BY <2>7 DEF ReadPrevHash, TypeOK, emitterVars, Event, NoEvent
    <3>. QED
      BY <2>2, <3>1 DEF Carried
  <2>8. CASE u = t /\ SetPrevHash(t)
    <3>1. /\ pc[t] = "hash" /\ pc'[t] = "xadd" /\ UNCHANGED <<event, stream>>
          /\ prevHash' = event[t].seq
      BY <2>8 DEF SetPrevHash, TypeOK
    <3>. QED
      BY <2>2, <3>1 DEF Carried
  <2>9. CASE u = t /\ UpdateLastSeq(t)
    <3>1. pc[t] = "update" /\ pc'[t] = "recv" /\ UNCHANGED <<prevHash, stream>>
      BY <2>9 DEF UpdateLastSeq, TypeOK, emitterVars
    <3>. QED
      BY <2>2, <3>1 DEF Carried
  <2>. QED
    BY <2>1, <2>3, <2>4, <2>5, <2>6, <2>7, <2>8, <2>9 DEF LoopStep
<1>. QED
  BY <1>1, <1>2 DEF Linked

\* The emitter's hash is that of the last entry, or of the event about to be one.
THEOREM LinkedInvariant == Spec => []Linked
<1>1. Init => Linked
  BY DEF Init, Linked, Alone, Chain, Carried, LastHash
<1>2. TypeOK /\ Loaded /\ Linked /\ TypeOK' /\ [Next]_vars => Linked'
  <2> SUFFICES ASSUME TypeOK, Loaded, Linked, TypeOK', [Next]_vars PROVE Linked'
    OBVIOUS
  <2>1. CASE Next
    BY <2>1, LinkedStep DEF Next
  <2>2. CASE UNCHANGED vars
    BY <2>2 DEF vars, emitterVars, execVars, loopVars, Linked, Alone, Carried
  <2>. QED
    BY <2>1, <2>2
<1>. QED
  BY <1>1, <1>2, EventTypeCorrect, PTL DEF Spec

\* While a worker serves one task and no XADD fails, each entry of the stream
\* names the hash of the entry before it, as events.rs documents.
THEOREM ChainWhenAloneHolds == Spec => []ChainWhenAlone
<1>1. Linked => ChainWhenAlone
  BY DEF Linked, ChainWhenAlone, Alone
<1>. QED
  BY <1>1, LinkedInvariant, PTL
=============================================================================
