---------------------------- MODULE EventPipeline ----------------------------
(****************************************************************************)
(* The way of an event from the thread that records it to the statistics:   *)
(* the thread's bounded buffer (src/ring_buffer.rs), the drains that empty  *)
(* all buffers, run by the worker and by every snapshot and reset           *)
(* (src/state.rs), and the aggregator that counts (src/aggregator.rs).      *)
(*                                                                          *)
(* The tracer lives throughout: TracerLifecycle has its shutdown.  An event *)
(* is <<t, n>>, the n-th that thread t records; what it says of addresses   *)
(* and sizes does not matter here, and count[e] stands for its share of the *)
(* statistics.  Recording is enabled.  Locks and atomics are sequentially   *)
(* consistent, and ArrayQueue is taken to be the linearizable bounded queue *)
(* its documentation promises.  A poisoned lock is not modelled.            *)
(****************************************************************************)
EXTENDS BufferGeometry, Sequences, FiniteSets, SequencesExt

CONSTANTS
  Threads,          \* threads that record events
  Callers,          \* threads that call Tracer::snapshot and Tracer::reset
  Worker,           \* the drain worker
  EventsPerThread,  \* how many events a thread records (a bound for TLC)
  RingBufferBytes,  \* TracerConfig.ring_buffer_bytes
  EventSize         \* size_of::<AllocationEvent>()

ASSUME PipelineAssumption ==
  /\ IsFiniteSet(Threads) /\ IsFiniteSet(Callers)
  /\ Worker \notin Callers
  /\ EventsPerThread \in Nat
  /\ RingBufferBytes \in Nat
  /\ EventSize \in Nat \ {0}

Drainers == Callers \cup {Worker}

Events == Threads \X (1..EventsPerThread)

Capacity == MaxEvents(RingBufferBytes, EventSize)

Threshold == FlushThreshold(Capacity)

VARIABLES
  alive,         \* the threads that run: their thread-local storage exists
  ppc,           \* where each recording thread is
  sent,          \* how many events the thread has begun to record
  queue,         \* ThreadBufferInner.queue, as the numbers of t's events
  dropped,       \* ThreadBufferInner.dropped
  buffers,       \* TracerInner.buffers: registered threads, in order
  pendingFlush,  \* TracerInner.pending_flush
  dpc,           \* where each drainer is
  todo,          \* the buffers a drain has still to visit, in order
  batch,         \* the events a drain has taken and not yet ingested
  batchDropped,  \* the Dropped counts it has taken
  count,         \* Aggregator.stats: how often an event has been counted
  droppedEvents, \* Aggregator.dropped_events
  op,            \* what each caller is doing
  before,        \* how many of t's records had returned when the call began
  ended,         \* history: events that no longer count, and why
  forgotten,     \* history: drops whose count was lost or cleared
  wiped          \* history: the events that resets were to forget, and could

threadVars == <<alive, ppc, sent, queue, dropped>>
drainVars == <<dpc, todo, batch, batchDropped>>
statVars == <<count, droppedEvents>>
callVars == <<op, before>>
history == <<ended, forgotten, wiped>>
vars == <<threadVars, buffers, pendingFlush, drainVars, statVars, callVars,
          history>>

ProducerPC == {"idle", "register", "push", "len", "drop", "notify", "signal"}

DrainerPC == {"idle", "start", "visit", "pop", "swap", "ingest", "read",
              "clear", "poll", "park", "parked"}

\* The program points at which a drainer holds the lock on `buffers`.
Visiting == {"visit", "pop", "swap"}

BuffersFree == \A d \in Drainers : dpc[d] \notin Visiting

\* The drainer holds a strong reference to t's buffer (Weak::upgrade).
Upgraded(d, t) ==
  /\ dpc[d] \in {"pop", "swap"}
  /\ Head(todo[d]) = t

\* The records of t that have returned to their caller.
Returned(t) == IF ppc[t] = "idle" THEN sent[t] ELSE sent[t] - 1

Nothing == [t \in Threads |-> 0]

Init ==
  /\ alive = Threads
  /\ ppc = [t \in Threads |-> "idle"]
  /\ sent = Nothing
  /\ queue = [t \in Threads |-> <<>>]
  /\ dropped = Nothing
  /\ buffers = <<>>
  /\ pendingFlush = FALSE
  /\ dpc = [d \in Drainers |-> IF d = Worker THEN "start" ELSE "idle"]
  /\ todo = [d \in Drainers |-> <<>>]
  /\ batch = [d \in Drainers |-> <<>>]
  /\ batchDropped = [d \in Drainers |-> 0]
  /\ count = [e \in Events |-> 0]
  /\ droppedEvents = 0
  /\ op = [c \in Callers |-> "none"]
  /\ before = [c \in Callers |-> Nothing]
  /\ ended = [e \in Events |-> "no"]
  /\ forgotten = 0
  /\ wiped = {}

ProducerAt(t, from, to) ==
  /\ ppc[t] = from
  /\ ppc' = [ppc EXCEPT ![t] = to]

DrainerAt(d, from, to) ==
  /\ dpc[d] = from
  /\ dpc' = [dpc EXCEPT ![d] = to]

\* A set of events ends for one reason.
End(S, why) ==
  ended' = [e \in Events |-> IF e \in S THEN why ELSE ended[e]]

-----------------------------------------------------------------------------
(* A recording thread: enqueue_event, ThreadBuffer::record, notify_flush.   *)

\* enqueue_event is called; thread_buffer finds the thread's buffer or not.
Record(t) ==
  /\ t \in alive
  /\ sent[t] < EventsPerThread
  /\ ProducerAt(t, "idle", IF t \in ToSet(buffers) THEN "push" ELSE "register")
  /\ sent' = [sent EXCEPT ![t] = @ + 1]
  /\ UNCHANGED <<alive, queue, dropped, buffers, pendingFlush, drainVars,
                 statVars, callVars, history>>

\* register_thread_buffer waits for a drain that holds the lock.
Register(t) ==
  /\ BuffersFree
  /\ ProducerAt(t, "register", "push")
  /\ buffers' = Append(buffers, t)
  /\ UNCHANGED <<alive, sent, queue, dropped, pendingFlush, drainVars,
                 statVars, callVars, history>>

\* Plausible bug: a push that finds the buffer full succeeds once more.
PushPastCapacity(t) ==
  /\ Len(queue[t]) <= Capacity
  /\ ProducerAt(t, "push", "len")
  /\ queue' = [queue EXCEPT ![t] = Append(@, sent[t])]
  /\ UNCHANGED <<alive, sent, dropped, buffers, pendingFlush, drainVars,
                 statVars, callVars, history>>

\* ArrayQueue::push succeeds.
Push(t) ==
  /\ Len(queue[t]) < Capacity
  /\ ProducerAt(t, "push", "len")
  /\ queue' = [queue EXCEPT ![t] = Append(@, sent[t])]
  /\ UNCHANGED <<alive, sent, dropped, buffers, pendingFlush, drainVars,
                 statVars, callVars, history>>

\* ArrayQueue::push hands the event back: it is not recorded.
PushFull(t) ==
  /\ Len(queue[t]) >= Capacity
  /\ ProducerAt(t, "push", "drop")
  /\ End({<<t, sent[t]>>}, "rejected")
  /\ UNCHANGED <<alive, sent, queue, dropped, buffers, pendingFlush,
                 drainVars, statVars, callVars, forgotten, wiped>>

\* The length is read after the push: a drain may have run in between.
CheckLen(t) ==
  /\ ProducerAt(t, "len",
                IF Len(queue[t]) >= Threshold THEN "notify" ELSE "idle")
  /\ UNCHANGED <<alive, sent, queue, dropped, buffers, pendingFlush,
                 drainVars, statVars, callVars, history>>

CountDrop(t) ==
  /\ ProducerAt(t, "drop", "notify")
  /\ dropped' = [dropped EXCEPT ![t] = @ + 1]
  /\ UNCHANGED <<alive, sent, queue, buffers, pendingFlush, drainVars,
                 statVars, callVars, history>>

\* pending_flush.swap(true)
NotifyFlush(t) ==
  /\ ProducerAt(t, "notify", IF pendingFlush THEN "idle" ELSE "signal")
  /\ pendingFlush' = TRUE
  /\ UNCHANGED <<alive, sent, queue, dropped, buffers, drainVars, statVars,
                 callVars, history>>

\* condvar.notify_one: heard only by a worker that waits already.
Signal(t) ==
  /\ ProducerAt(t, "signal", "idle")
  /\ dpc' = [dpc EXCEPT ![Worker] = IF @ = "parked" THEN "start" ELSE @]
  /\ UNCHANGED <<alive, sent, queue, dropped, buffers, pendingFlush, todo,
                 batch, batchDropped, statVars, callVars, history>>

\* What is left in t's buffer goes when the last reference to it goes.
FreeBuffer(t) ==
  /\ End({<<t, n>> : n \in ToSet(queue[t])}, "lost")
  /\ queue' = [queue EXCEPT ![t] = <<>>]

\* The thread ends and its thread-local storage with it.  A drain that has
\* upgraded its weak reference keeps the buffer a little longer.
Exit(t) ==
  /\ t \in alive
  /\ ppc[t] = "idle"
  /\ alive' = alive \ {t}
  /\ IF \E d \in Drainers : Upgraded(d, t)
       THEN UNCHANGED <<queue, dropped, ended, forgotten>>
       ELSE /\ FreeBuffer(t)
            /\ dropped' = [dropped EXCEPT ![t] = 0]
            /\ forgotten' = forgotten + dropped[t]
  /\ UNCHANGED <<ppc, sent, buffers, pendingFlush, drainVars, statVars,
                 callVars, wiped>>

-----------------------------------------------------------------------------
(* A drain: drain_buffers, on the worker or on a caller of snapshot/reset.  *)

\* Plausible bug: the first registered buffer is skipped.
StartSkipsFirst(d) ==
  /\ BuffersFree
  /\ DrainerAt(d, "start", "visit")
  /\ todo' = [todo EXCEPT ![d] = IF buffers = <<>> THEN <<>> ELSE Tail(buffers)]
  /\ UNCHANGED <<threadVars, buffers, pendingFlush, batch, batchDropped,
                 statVars, callVars, history>>

\* buffers.lock()
StartDrain(d) ==
  /\ BuffersFree
  /\ DrainerAt(d, "start", "visit")
  /\ todo' = [todo EXCEPT ![d] = buffers]
  /\ UNCHANGED <<threadVars, buffers, pendingFlush, batch, batchDropped,
                 statVars, callVars, history>>

\* retain: a buffer that still exists is drained ...
VisitLive(d) ==
  /\ todo[d] # <<>>
  /\ Head(todo[d]) \in alive
  /\ DrainerAt(d, "visit", "pop")
  /\ UNCHANGED <<threadVars, buffers, pendingFlush, todo, batch,
                 batchDropped, statVars, callVars, history>>

\* ... and one that is gone is unregistered, where the visit stands.
VisitGone(d) ==
  /\ dpc[d] = "visit"
  /\ todo[d] # <<>>
  /\ Head(todo[d]) \notin alive
  /\ buffers' = RemoveAt(buffers, Len(buffers) - Len(todo[d]) + 1)
  /\ todo' = [todo EXCEPT ![d] = Tail(@)]
  /\ UNCHANGED <<threadVars, pendingFlush, dpc, batch, batchDropped,
                 statVars, callVars, history>>

\* Plausible bug: the event stays in the queue.
PeekEvent(d) ==
  LET t == Head(todo[d]) IN
  /\ DrainerAt(d, "pop", "swap")
  /\ queue[t] # <<>>
  /\ batch' = [batch EXCEPT ![d] = Append(@, <<t, Head(queue[t])>>)]
  /\ UNCHANGED <<threadVars, buffers, pendingFlush, todo, batchDropped,
                 statVars, callVars, history>>

\* Plausible bug: the newest event is taken first.
PopNewest(d) ==
  LET t == Head(todo[d]) IN
  /\ dpc[d] = "pop"
  /\ queue[t] # <<>>
  /\ queue' = [queue EXCEPT ![t] = Front(@)]
  /\ batch' = [batch EXCEPT ![d] = Append(@, <<t, Last(queue[t])>>)]
  /\ UNCHANGED <<alive, ppc, sent, dropped, buffers, pendingFlush, dpc, todo,
                 batchDropped, statVars, callVars, history>>

\* drain_into: pop until the queue is empty, one event at a time.
PopEvent(d) ==
  LET t == Head(todo[d]) IN
  /\ dpc[d] = "pop"
  /\ queue[t] # <<>>
  /\ queue' = [queue EXCEPT ![t] = Tail(@)]
  /\ batch' = [batch EXCEPT ![d] = Append(@, <<t, Head(queue[t])>>)]
  /\ UNCHANGED <<alive, ppc, sent, dropped, buffers, pendingFlush, dpc, todo,
                 batchDropped, statVars, callVars, history>>

PopEmpty(d) ==
  /\ DrainerAt(d, "pop", "swap")
  /\ queue[Head(todo[d])] = <<>>
  /\ UNCHANGED <<threadVars, buffers, pendingFlush, todo, batch,
                 batchDropped, statVars, callVars, history>>

\* Plausible bug: the counter is read and not reset.
LoadDropped(d) ==
  LET t == Head(todo[d]) IN
  /\ DrainerAt(d, "swap", "visit")
  /\ batchDropped' = [batchDropped EXCEPT ![d] = @ + dropped[t]]
  /\ todo' = [todo EXCEPT ![d] = Tail(@)]
  /\ IF t \in alive THEN UNCHANGED <<queue, ended>> ELSE FreeBuffer(t)
  /\ UNCHANGED <<alive, ppc, sent, dropped, buffers, pendingFlush, batch,
                 statVars, callVars, forgotten, wiped>>

\* dropped.swap(0); the upgraded reference is given back.
SwapDropped(d) ==
  LET t == Head(todo[d]) IN
  /\ DrainerAt(d, "swap", "visit")
  /\ batchDropped' = [batchDropped EXCEPT ![d] = @ + dropped[t]]
  /\ dropped' = [dropped EXCEPT ![t] = 0]
  /\ todo' = [todo EXCEPT ![d] = Tail(@)]
  /\ IF t \in alive THEN UNCHANGED <<queue, ended>> ELSE FreeBuffer(t)
  /\ UNCHANGED <<alive, ppc, sent, buffers, pendingFlush, batch, statVars,
                 callVars, forgotten, wiped>>

\* Where drain_buffers returns to.
AfterDrain(d) ==
  IF d = Worker THEN "poll"
  ELSE IF op[d] = "snapshot" THEN "read" ELSE "clear"

\* The lock is released; with nothing to ingest the drain is over.
EndVisits(d) ==
  /\ todo[d] = <<>>
  /\ DrainerAt(d, "visit", IF batch[d] = <<>> /\ batchDropped[d] = 0
                             THEN AfterDrain(d) ELSE "ingest")
  /\ UNCHANGED <<threadVars, buffers, pendingFlush, todo, batch,
                 batchDropped, statVars, callVars, history>>

Occurrences(e, b) == Cardinality({i \in DOMAIN b : b[i] = e})

\* Aggregator::ingest, under the aggregator lock: one event after the other.
Ingest(d) ==
  /\ DrainerAt(d, "ingest", AfterDrain(d))
  /\ count' = [e \in Events |-> count[e] + Occurrences(e, batch[d])]
  /\ droppedEvents' = droppedEvents + batchDropped[d]
  /\ batch' = [batch EXCEPT ![d] = <<>>]
  /\ batchDropped' = [batchDropped EXCEPT ![d] = 0]
  /\ UNCHANGED <<threadVars, buffers, pendingFlush, todo, callVars, history>>

DrainStep(d) ==
  \/ StartDrain(d)
  \/ VisitLive(d)
  \/ VisitGone(d)
  \/ PopEvent(d)
  \/ PopEmpty(d)
  \/ SwapDropped(d)
  \/ EndVisits(d)
  \/ Ingest(d)

-----------------------------------------------------------------------------
(* Callers: Tracer::snapshot and Tracer::reset.                             *)

\* Plausible bug: a reset clears the statistics without a drain before it.
CallUndrained(c, o) ==
  /\ DrainerAt(c, "idle", IF o = "reset" THEN "clear" ELSE "start")
  /\ op' = [op EXCEPT ![c] = o]
  /\ before' = [before EXCEPT ![c] = [t \in Threads |-> Returned(t)]]
  /\ UNCHANGED <<threadVars, buffers, pendingFlush, todo, batch, batchDropped,
                 statVars, history>>

Call(c, o) ==
  /\ DrainerAt(c, "idle", "start")
  /\ op' = [op EXCEPT ![c] = o]
  /\ before' = [before EXCEPT ![c] = [t \in Threads |-> Returned(t)]]
  /\ UNCHANGED <<threadVars, buffers, pendingFlush, todo, batch, batchDropped,
                 statVars, history>>

Return(c, from) ==
  /\ DrainerAt(c, from, "idle")
  /\ op' = [op EXCEPT ![c] = "none"]
  /\ before' = [before EXCEPT ![c] = Nothing]

\* Aggregator::snapshot, under the aggregator lock: the caller sees `count`.
ReadStats(c) ==
  /\ Return(c, "read")
  /\ UNCHANGED <<threadVars, buffers, pendingFlush, todo, batch, batchDropped,
                 statVars, history>>

Batched(e) == \E d \in Drainers : e \in ToSet(batch[d])

\* Recorded before c's call; what a drain holds in a batch is out of reach.
Recorded(c) == {e \in Events : e[2] <= before[c][e[1]]}

\* Aggregator::reset, under the aggregator lock.
ClearStats(c) ==
  /\ Return(c, "clear")
  /\ count' = [e \in Events |-> 0]
  /\ droppedEvents' = 0
  /\ End({e \in Events : count[e] > 0}, "cleared")
  /\ forgotten' = forgotten + droppedEvents
  /\ wiped' = wiped \cup {e \in Recorded(c) : ~Batched(e)}
  /\ UNCHANGED <<threadVars, buffers, pendingFlush, todo, batch, batchDropped>>

-----------------------------------------------------------------------------
(* The worker between two drains.                                           *)

\* Plausible bug: what pending_flush was before the swap is ignored.
PollIgnored ==
  /\ DrainerAt(Worker, "poll", "park")
  /\ pendingFlush' = FALSE
  /\ UNCHANGED <<threadVars, buffers, todo, batch, batchDropped, statVars,
                 callVars, history>>

\* pending_flush.swap(false)
Poll ==
  /\ DrainerAt(Worker, "poll", IF pendingFlush THEN "start" ELSE "park")
  /\ pendingFlush' = FALSE
  /\ UNCHANGED <<threadVars, buffers, todo, batch, batchDropped, statVars,
                 callVars, history>>

Park ==
  /\ DrainerAt(Worker, "park", "parked")
  /\ UNCHANGED <<threadVars, buffers, pendingFlush, todo, batch, batchDropped,
                 statVars, callVars, history>>

\* Plausible bug: the worker waits for a signal and nothing else.
NoTimeout == FALSE /\ UNCHANGED vars

\* drain_interval elapses.
Timeout ==
  /\ DrainerAt(Worker, "parked", "start")
  /\ UNCHANGED <<threadVars, buffers, pendingFlush, todo, batch, batchDropped,
                 statVars, callVars, history>>

-----------------------------------------------------------------------------
\* What follows from a record call already made.
ProducerStep(t) ==
  \/ Register(t)
  \/ Push(t)
  \/ PushFull(t)
  \/ CheckLen(t)
  \/ CountDrop(t)
  \/ NotifyFlush(t)
  \/ Signal(t)

CallerStep(c) ==
  \/ DrainStep(c)
  \/ ReadStats(c)
  \/ ClearStats(c)

WorkerStep ==
  \/ DrainStep(Worker)
  \/ Poll
  \/ Park
  \/ Timeout

\* Every step but the end of a thread.
StableNext ==
  \/ \E t \in Threads : Record(t) \/ ProducerStep(t)
  \/ \E c \in Callers : CallerStep(c)
  \/ \E c \in Callers, o \in {"snapshot", "reset"} : Call(c, o)
  \/ WorkerStep

Next ==
  \/ StableNext
  \/ \E t \in Threads : Exit(t)

Spec == Init /\ [][Next]_vars

\* A worker that is scheduled and whose drain_interval is finite, and callers
\* that are scheduled within a call.  Whether a thread records or ends and
\* whether a caller calls is up to them.
FairSpec ==
  /\ Spec
  /\ WF_vars(WorkerStep)
  /\ \A c \in Callers : WF_vars(CallerStep(c))

-----------------------------------------------------------------------------
(* Properties.                                                              *)

Queued(e) == e[2] \in ToSet(queue[e[1]])

\* The thread has made the event and not yet offered it to the queue.
InHand(e) ==
  /\ ppc[e[1]] \in {"register", "push"}
  /\ e[2] = sent[e[1]]

ThreadTypeOK ==
  /\ alive \subseteq Threads
  /\ ppc \in [Threads -> ProducerPC]
  /\ sent \in [Threads -> 0..EventsPerThread]
  /\ queue \in [Threads -> Seq(1..EventsPerThread)]
  /\ dropped \in [Threads -> Nat]

DrainTypeOK ==
  /\ buffers \in Seq(Threads)
  /\ dpc \in [Drainers -> DrainerPC]
  /\ todo \in [Drainers -> Seq(Threads)]
  /\ batch \in [Drainers -> Seq(Events)]
  /\ batchDropped \in [Drainers -> Nat]

StatTypeOK ==
  /\ count \in [Events -> Nat]
  /\ droppedEvents \in Nat
  /\ ended \in [Events -> {"no", "rejected", "lost", "cleared"}]
  /\ forgotten \in Nat

CallTypeOK ==
  /\ op \in [Callers -> {"none", "snapshot", "reset"}]
  /\ before \in [Callers -> [Threads -> 0..EventsPerThread]]
  /\ wiped \subseteq Events

QueueBounded == \A t \in Threads : Len(queue[t]) <= Capacity

\* Every variable has its type, and no buffer holds more than its capacity.
TypeOK ==
  /\ ThreadTypeOK
  /\ QueueBounded
  /\ pendingFlush \in BOOLEAN
  /\ DrainTypeOK
  /\ StatTypeOK
  /\ CallTypeOK

Place == {"hand", "queue", "batch", "stats", "ended"}

Places(e) ==
  {p \in Place :
     \/ p = "hand" /\ InHand(e)
     \/ p = "queue" /\ Queued(e)
     \/ p = "batch" /\ Batched(e)
     \/ p = "stats" /\ count[e] > 0
     \/ p = "ended" /\ ended[e] # "no"}

\* A recorded event is always in exactly one place: on its way into the
\* queue, queued, taken by one drain, counted once, or ended for a reason.
\* No two drains share an event, and no drain or reset forgets one.
OnePlace ==
  \A e \in Events :
    /\ IF e[2] <= sent[e[1]] THEN \E p \in Place : Places(e) = {p}
                            ELSE Places(e) = {}
    /\ count[e] <= 1
    /\ \A c, d \in Drainers :
         e \in ToSet(batch[c]) /\ e \in ToSet(batch[d]) => c = d

Rejected == {e \in Events : ended[e] = "rejected"}

\* The drops of t that no drain has taken, with one t is yet to count.
Uncollected(t) == dropped[t] + IF ppc[t] = "drop" THEN 1 ELSE 0

\* Every event that a full queue turned away is reported: it is in exactly
\* one of the counters on the way to Snapshot.dropped_events, or the counter
\* it was in has been cleared by a reset or freed with its thread.
DropsAccounted ==
  Cardinality(Rejected)
    = SumFunctionOnSet([t \in Threads |-> Uncollected(t)], Threads)
      + SumFunctionOnSet(batchDropped, Drainers) + droppedEvents + forgotten

\* When a snapshot reads, or a reset clears, no event whose record call
\* returned before the call began is still in a buffer: the drain at the
\* start of the call has moved it on, though maybe only into the batch of a
\* drain that is still running elsewhere.
DrainReachesRecorded ==
  \A c \in Callers, e \in Events :
    dpc[c] \in {"read", "clear"} /\ e[2] <= before[c][e[1]] => ~Queued(e)

\* The buffer holds as much as it can or has reached the flush threshold.
NeedsFlush(t) == Len(queue[t]) >= Threshold \/ Len(queue[t]) = Capacity

\* A thread that left its buffer in need of a flush has a drain coming: the
\* worker has a request pending or has not visited the buffer yet.  No
\* request is swallowed by the worker's poll.
FlushNotForgotten ==
  \A t \in Threads :
    t \in alive /\ ppc[t] = "idle" /\ NeedsFlush(t) =>
      \/ pendingFlush
      \/ dpc[Worker] = "start"
      \/ dpc[Worker] \in Visiting /\ t \in ToSet(todo[Worker])

\* "A background worker will eventually drain it into the aggregator": unless
\* its thread ends, a queued event is counted, or cleared by a reset.
EventuallyAggregated ==
  \A e \in Events :
    Queued(e) ~> count[e] > 0 \/ ended[e] = "cleared" \/ e[1] \notin alive

\* ... and the thread's end makes no difference to that.
NeverLost == \A e \in Events : ended[e] # "lost"

\* What was recorded before a reset is not counted after it, except what
\* another drain had in its batch when the statistics were cleared.
ResetForgets == \A e \in wiped : count[e] = 0

\* A thread's events keep their order in the queue and in a batch, and what
\* a drain has taken is older than what is queued.  (Batches of two drains may
\* be ingested in either order.)
OrderKept ==
  /\ \A t \in Threads : \A i, j \in DOMAIN queue[t] :
       i < j => queue[t][i] < queue[t][j]
  /\ \A d \in Drainers : \A i \in DOMAIN batch[d] :
       /\ \A j \in DOMAIN batch[d] :
            i < j /\ batch[d][i][1] = batch[d][j][1] => batch[d][i][2] < batch[d][j][2]
       /\ \A n \in ToSet(queue[batch[d][i][1]]) : batch[d][i][2] < n

-----------------------------------------------------------------------------
(* The pipeline implements EventLedger.                                     *)

StatusOf(e) ==
  IF ended[e] # "no" THEN ended[e]
  ELSE IF count[e] > 0 THEN "counted"
  ELSE IF e[2] > sent[e[1]] THEN "unsent"
  ELSE "pending"

Ledger == INSTANCE EventLedger
  WITH Event <- Events,
       status <- [e \in Events |-> StatusOf(e)],
       tally <- count

\* Every behaviour of the pipeline is one of the ledger.
ImplementsLedger == Ledger!LedgerSpec
=============================================================================
