------------------------- MODULE AllocationTracking -------------------------
(****************************************************************************)
(* What the tracer knows of the heap: CPython's allocator hooks, which run  *)
(* on every thread (py/src/lib.rs), the shim's map of sizes, the tracer's   *)
(* index of live allocations and the events it derives from it              *)
(* (src/state.rs), and the bytes the aggregator adds up (src/aggregator.rs).*)
(*                                                                          *)
(* The allocator is external: it may give an address out again as soon as   *)
(* it is free.  The hooks of all three domains report; a large request of   *)
(* the object domains goes on to the raw domain, so that its block is       *)
(* reported twice.  Failing calls are left out, but for a realloc to size   *)
(* 0, which is reported all the same.  calloc and realloc of a null pointer *)
(* do what malloc does.                                                     *)
(*                                                                          *)
(* An event waits in its thread's buffer and then in the batch of the       *)
(* worker, as in EventPipeline; only what the waiting events add up to is   *)
(* kept here.  A snapshot drains as the worker does.  The clear of a        *)
(* concurrent map is taken to be atomic.  Tracing stays enabled.            *)
(****************************************************************************)
EXTENDS Integers, Sequences, FiniteSets, Functions

CONSTANTS
  Threads,    \* threads that allocate; some may do so without the GIL
  Addresses,  \* the addresses of the heap
  Nowhere,    \* the null pointer
  Sizes,      \* sizes of blocks
  Stacks,     \* the stack ids that capture_and_intern returns
  Budget,     \* what the program may spend (a bound for TLC): 2 for a hook, a clear()
              \* or the end of a thread, 3 for the two hooks of a large block
  MaxDropped  \* where dropped_events saturates: u64::MAX in the code

ASSUME TrackingAssumption ==
  /\ IsFiniteSet(Threads) /\ IsFiniteSet(Addresses)
  /\ Nowhere \notin Addresses
  /\ Sizes \subseteq Nat \ {0}
  /\ Budget \in Nat
  /\ MaxDropped \in Nat \ {0}

VARIABLES
  sampling,       \* SamplingState::is_enabled
  heap,           \* external: what the allocator says of each address
  index,          \* TracerInner.allocation_index
  allocations,    \* ShimState.allocations
  current,        \* AllocationStats.current_bytes, by stack
  droppedEvents,  \* Aggregator.dropped_events
  pc,             \* where each thread is
  call,           \* what it has been called to do
  out,            \* the events it has still to enqueue
  held,           \* what the events in its buffer add up to
  batch,          \* what the events the worker has drained add up to
  resetPC,        \* where the thread in clear() is
  spent,          \* how much of its budget the program has spent
  due,            \* history: the blocks the hooks have been told of
  strangers,      \* history: drops due for blocks the hooks were not told of
  disturbed,      \* history: what has happened that the maps cannot survive
  skewed          \* history: ... that the statistics cannot, since the last clear()

statVars == <<current, droppedEvents, held, batch>>
threadVars == <<pc, call, out>>
history == <<due, strangers, disturbed, skewed>>
vars == <<sampling, heap, index, allocations, statVars, threadVars, resetPC,
          spent, history>>

ThreadPC == {"idle", "lookup", "frames", "put", "forget", "drop", "enqueue",
             "note", "release"}

Op == {"none", "malloc", "free", "realloc", "grow", "freed", "kept"}

\* A block is the business of one domain, or large: of two.
Live == {"live", "large"}

Record == [size : Sizes, stack : Stacks]

Event ==
  [kind : {"allocation", "deallocation"}, size : Sizes, stack : Stacks]
    \cup [kind : {"dropped"}, count : {1, 2}]

\* What events add up to: bytes by stack, and dropped events.
Tally == [bytes : [Stacks -> Int], dropped : Nat]

\* A call concerns the block at `from`, the one at `to`, or both; `size` is
\* the size asked for and `old` what the shim finds of the old one.  It runs
\* one hook, or a first and then a second one.
Calls == [op : Op, from : Addresses \cup {Nowhere},
          to : Addresses \cup {Nowhere}, size : Sizes \cup {0}, old : Sizes \cup {0},
          hook : {"only", "first", "second"}]

\* A call for a block of this kind.
Ask(op, a, b, n, kind) ==
  [op |-> op, from |-> a, to |-> b, size |-> n, old |-> 0,
   hook |-> IF kind = "large" THEN "first" ELSE "only"]

Resting == Ask("none", Nowhere, Nowhere, 0, "live")

\* The kind of the block that a call returns.
Kind(c) == IF c.hook = "only" THEN "live" ELSE "large"

Forgotten(f, a) == Restrict(f, DOMAIN f \ {a})

Inserted(f, a, r) == [b \in DOMAIN f \cup {a} |-> IF b = a THEN r ELSE f[b]]

\* ShimState.allocations.get(a).unwrap_or(0)
SizeOf(a) == IF a \in DOMAIN allocations THEN allocations[a] ELSE 0

\* Plausible bug: a reallocation is two events, but is missed only once.
MissingOnce(count) ==
  IF sampling THEN <<>> ELSE <<[kind |-> "dropped", count |-> 1]>>

\* A block that is not in the index counts as dropped events, if no sampling
\* explains that it is not.
Missing(count) ==
  IF sampling THEN <<>> ELSE <<[kind |-> "dropped", count |-> count]>>

Allocation(n, s) == [kind |-> "allocation", size |-> n, stack |-> s]

\* The size the caller knows counts, unless it is 0.
Deallocation(n, r) ==
  [kind |-> "deallocation", size |-> IF n = 0 THEN r.size ELSE n, stack |-> r.stack]

\* SamplingState::should_sample: whatever the threshold or the dice say.
ShouldSample == IF sampling THEN BOOLEAN ELSE {TRUE}

Nothing == [bytes |-> [s \in Stacks |-> 0], dropped |-> 0]

Plus(x, y) ==
  [bytes |-> [s \in Stacks |-> x.bytes[s] + y.bytes[s]],
   dropped |-> x.dropped + y.dropped]

\* What one event does to the statistics (Aggregator::ingest).
Effect(e, s) ==
  IF e.kind = "allocation" /\ e.stack = s THEN e.size
  ELSE IF e.kind = "deallocation" /\ e.stack = s THEN 0 - e.size
  ELSE 0

TallyOf(e) ==
  [bytes |-> [s \in Stacks |-> Effect(e, s)],
   dropped |-> IF e.kind = "dropped" THEN e.count ELSE 0]

Init ==
  /\ sampling \in BOOLEAN
  /\ heap \in [Addresses -> {"free"} \cup Live]
  /\ index = <<>>
  /\ allocations = <<>>
  /\ current = [s \in Stacks |-> 0]
  /\ droppedEvents = 0
  /\ pc = [t \in Threads |-> "idle"]
  /\ call = [t \in Threads |-> Resting]
  /\ out = [t \in Threads |-> <<>>]
  /\ held = [t \in Threads |-> Nothing]
  /\ batch = Nothing
  /\ resetPC = "idle"
  /\ spent = 0
  /\ due = {}
  /\ strangers = 0
  /\ disturbed = {}
  /\ skewed = {}

Spend(n) == spent + n <= Budget /\ spent' = spent + n

At(t, from, to) ==
  /\ pc[t] = from
  /\ pc' = [pc EXCEPT ![t] = to]

Finish(t, from) ==
  /\ At(t, from, "idle")
  /\ call' = [call EXCEPT ![t] = Resting]

-----------------------------------------------------------------------------
(* Hooks are called.                                                        *)

\* A realloc has freed the address and its thread has not yet said so.
Unreported(a) ==
  \E t \in Threads :
    pc[t] # "idle" /\ call[t].op \in {"realloc", "freed", "kept"}
      /\ call[t].from = a /\ call[t].to # a

Disturb(reasons) == disturbed' = disturbed \cup reasons

Skew(reasons) == skewed' = skewed \cup reasons

\* The end of a block that is not due is worth n dropped events (counted as
\* long as it matters).
Expect(a, n) ==
  strangers' = IF sampling \/ disturbed' # {} THEN 0
               ELSE IF a \in due THEN strangers ELSE strangers + n

Reused(a) == IF Unreported(a) THEN {"reuse"} ELSE {}

Overlap == IF resetPC # "idle" THEN {"reset"} ELSE {}

Begin(t, to, c) ==
  /\ Spend(IF c.hook = "only" THEN 2 ELSE 3)
  /\ At(t, "idle", to)
  /\ call' = [call EXCEPT ![t] = c]
  /\ Skew(IF c.hook = "only" THEN {} ELSE {"twice"})
  /\ UNCHANGED <<sampling, index, allocations, statVars, out, resetPC>>

\* shim_malloc: the block exists before the tracer hears of it, and for a
\* large one the hook of the raw domain has returned before.
Malloc(t, a, n, kind) ==
  /\ heap[a] = "free"
  /\ heap' = [heap EXCEPT ![a] = "busy"]
  /\ Begin(t, "frames", Ask("malloc", a, a, n, kind))
  /\ due' = due \cup {a}
  /\ Disturb(Reused(a) \cup Overlap)
  /\ UNCHANGED strangers

\* shim_free: the block exists until the tracer has heard of its end, and for
\* a large one the hook of the raw domain reports it again.
Free(t, a) ==
  /\ heap[a] \in Live
  /\ heap' = [heap EXCEPT ![a] = "busy"]
  /\ Begin(t, "forget", Ask("free", a, a, 0, heap[a]))
  /\ due' = due \ {a}
  /\ Disturb(Overlap)
  /\ Expect(a, 1)

\* shim_realloc to a size above 0: the old block is gone, or has its new
\* size, before the tracer hears of it.
Realloc(t, a, b, n) ==
  /\ heap[a] \in Live
  /\ b = a \/ heap[b] = "free"
  /\ heap' = [heap EXCEPT ![a] = "free", ![b] = "busy"]
  /\ Begin(t, "lookup", Ask("realloc", a, b, n, heap[a]))
  /\ due' = IF a \in due THEN (due \ {a}) \cup {b} ELSE due
  /\ Disturb(Reused(b) \cup Overlap)
  /\ Expect(a, 2)

\* A block that realloc makes large: pymalloc gets the new one from the raw
\* domain, whose hook is malloc's, and then ends the old one.
Grow(t, a, b, n) ==
  /\ heap[a] = "live"
  /\ heap[b] = "free"
  /\ heap' = [heap EXCEPT ![a] = "busy", ![b] = "busy"]
  /\ Begin(t, "frames", Ask("grow", a, b, n, "large"))
  /\ due' = (due \ {a}) \cup {b}
  /\ Disturb(Reused(b) \cup Overlap)
  /\ UNCHANGED strangers

\* shim_realloc to size 0 reports a deallocation, whether the allocator has
\* freed the block ...
ReallocFrees(t, a) ==
  /\ heap[a] \in Live
  /\ heap' = [heap EXCEPT ![a] = "free"]
  /\ Begin(t, "forget", Ask("freed", a, Nowhere, 0, heap[a]))
  /\ due' = due \ {a}
  /\ Disturb(Overlap)
  /\ Expect(a, 1)

\* ... or returns one in its place, as CPython's own allocators do, or has
\* failed and the block is still there (b = a).
ReallocKeeps(t, a, b) ==
  /\ heap[a] \in Live
  /\ b = a \/ heap[b] = "free"
  /\ heap' = [heap EXCEPT ![a] = "free", ![b] = "busy"]
  /\ Begin(t, "forget", Ask("kept", a, b, 0, heap[a]))
  /\ due' = due \ {a}
  /\ Disturb(Reused(b) \cup Overlap)
  /\ Expect(a, 1)

\* A block of size 0, or one allocated while this thread is inside a hook
\* already (IN_TRACER): the tracer never hears of it.
MallocUntracked(t, a, kind) ==
  /\ Spend(2)
  /\ pc[t] \in {"idle", "frames"}
  /\ heap[a] = "free"
  /\ heap' = [heap EXCEPT ![a] = kind]
  /\ Disturb(Reused(a))
  /\ UNCHANGED <<sampling, index, allocations, statVars, threadVars, resetPC,
                 due, strangers, skewed>>

\* A block freed while this thread is inside a hook already.
FreeUntracked(t, a) ==
  /\ Spend(2)
  /\ pc[t] = "frames"
  /\ heap[a] \in Live
  /\ heap' = [heap EXCEPT ![a] = "free"]
  /\ due' = due \ {a}
  /\ Disturb(IF a \in DOMAIN index THEN {"reentry"} ELSE {})
  /\ UNCHANGED <<sampling, index, allocations, statVars, threadVars, resetPC,
                 strangers, skewed>>

-----------------------------------------------------------------------------
(* The tracer is told.                                                      *)

\* Where a call goes on once its events are on their way.
AfterEvents(t) ==
  IF call[t].op \in {"malloc", "realloc", "grow"} THEN "note" ELSE "release"

Emit(t, events) ==
  /\ out' = [out EXCEPT ![t] = events]
  /\ pc' = [pc EXCEPT ![t] = IF events = <<>> THEN AfterEvents(t) ELSE "enqueue"]

\* Plausible bug: the index is written before it is known whether to sample.
TrackUnsampled(t, s, sampled) ==
  LET c == call[t] IN
  /\ pc[t] = "frames"
  /\ c.op \in {"malloc", "grow"}
  /\ index' = Inserted(index, c.to, [size |-> c.size, stack |-> s])
  /\ Emit(t, IF sampled THEN <<Allocation(c.size, s)>> ELSE <<>>)
  /\ UNCHANGED <<sampling, heap, allocations, statVars, call, spent, resetPC,
                 history>>

\* prepare_hot_event of an allocation.
Track(t, s, sampled) ==
  LET c == call[t] IN
  /\ pc[t] = "frames"
  /\ c.op \in {"malloc", "grow"}
  /\ index' = IF sampled THEN Inserted(index, c.to, [size |-> c.size, stack |-> s])
              ELSE index
  /\ Emit(t, IF sampled THEN <<Allocation(c.size, s)>> ELSE <<>>)
  /\ UNCHANGED <<sampling, heap, allocations, statVars, call, spent, resetPC,
                 history>>

\* ShimState::record_deallocation takes the size the shim has noted ...
Forget(t) ==
  /\ At(t, "forget", "drop")
  /\ call' = [call EXCEPT ![t].old = SizeOf(call[t].from)]
  /\ allocations' = Forgotten(allocations, call[t].from)
  /\ UNCHANGED <<sampling, heap, index, statVars, out, spent, resetPC, history>>

\* ... and prepare_hot_event takes the record out of the index.
Untrack(t) ==
  LET c == call[t] IN
  /\ pc[t] = "drop"
  /\ index' = Forgotten(index, c.from)
  /\ Emit(t, IF c.from \in DOMAIN index
               THEN <<Deallocation(c.old, index[c.from])>>
               ELSE Missing(1))
  /\ UNCHANGED <<sampling, heap, allocations, statVars, call, spent, resetPC,
                 history>>

\* ShimState::record_reallocation looks the old size up, outside the index;
\* then the Python frames are collected.
Lookup(t) ==
  /\ At(t, "lookup", "frames")
  /\ call' = [call EXCEPT ![t].old = SizeOf(call[t].from)]
  /\ UNCHANGED <<sampling, heap, index, allocations, statVars, out, spent,
                 resetPC, history>>

\* Plausible bug: the old record stays in the index.
RetrackKeepsOld(t) ==
  LET c == call[t] IN
  /\ pc[t] = "frames"
  /\ c.op = "realloc"
  /\ IF c.from \in DOMAIN index
       THEN /\ out' = [out EXCEPT ![t] = <<Deallocation(c.old, index[c.from])>>]
            /\ pc' = [pc EXCEPT ![t] = "put"]
       ELSE Emit(t, Missing(2))
  /\ UNCHANGED <<sampling, heap, index, allocations, statVars, call, spent,
                 resetPC, history>>

\* prepare_reallocation removes the old record ...
Retrack(t) ==
  LET c == call[t] IN
  /\ pc[t] = "frames"
  /\ c.op = "realloc"
  /\ index' = Forgotten(index, c.from)
  /\ IF c.from \in DOMAIN index
       THEN /\ out' = [out EXCEPT ![t] = <<Deallocation(c.old, index[c.from])>>]
            /\ pc' = [pc EXCEPT ![t] = "put"]
       ELSE Emit(t, Missing(2))
  /\ UNCHANGED <<sampling, heap, allocations, statVars, call, spent, resetPC,
                 history>>

\* ... and inserts the new one, if there was an old one and it is sampled.
Put(t, s, sampled) ==
  LET c == call[t] IN
  /\ At(t, "put", "enqueue")
  /\ IF sampled
       THEN /\ index' = Inserted(index, c.to, [size |-> c.size, stack |-> s])
            /\ out' = [out EXCEPT ![t] = Append(@, Allocation(c.size, s))]
       ELSE UNCHANGED <<index, out>>
  /\ UNCHANGED <<sampling, heap, allocations, statVars, call, spent, resetPC,
                 history>>

\* Plausible bug: the counter does not saturate.
Unsaturated(n) == n

Saturated(n) == IF n > MaxDropped THEN MaxDropped ELSE n

\* What a buffer that is full makes of an event.
Refused(x) == [x EXCEPT !.dropped = @ + 1]

\* enqueue_event: a full buffer refuses the event, whatever it says, and
\* counts it as one that was dropped.
Enqueue(t, accepted) ==
  /\ pc[t] = "enqueue"
  /\ Emit(t, Tail(out[t]))
  /\ held' = [held EXCEPT ![t] =
                IF accepted THEN Plus(@, TallyOf(Head(out[t]))) ELSE Refused(@)]
  /\ Skew(IF accepted THEN {} ELSE {"refused"})
  /\ UNCHANGED <<sampling, heap, index, allocations, current, droppedEvents, batch,
                 call, spent, resetPC, due, strangers, disturbed>>

\* Plausible bug: a size that is noted already is not replaced.
NotedOnce(c) ==
  IF c.to \in DOMAIN allocations THEN allocations
  ELSE Inserted(allocations, c.to, c.size)

\* The sizes once the shim has noted the one of the new block; only
\* record_reallocation takes the old one out.
Noted(c) ==
  Inserted(IF c.op = "realloc" THEN Forgotten(allocations, c.from) ELSE allocations,
           c.to, c.size)

\* The shim notes the size, and the hook returns the block.
Note(t) ==
  LET c == call[t] IN
  /\ c.hook # "first"
  /\ Finish(t, "note")
  /\ allocations' = Noted(c)
  /\ heap' = [heap EXCEPT ![c.to] = Kind(c)]
  /\ UNCHANGED <<sampling, index, statVars, out, spent, resetPC, history>>

Outer(c) ==
  [c EXCEPT !.hook = "second", !.op = IF c.op = "grow" THEN "realloc" ELSE c.op]

\* The hook of the raw domain returns a large block to the outer allocator,
\* whose hook then reports the call it was asked for.
NoteInner(t) ==
  LET c == call[t] IN
  /\ c.hook = "first"
  /\ At(t, "note", IF c.op = "malloc" THEN "frames" ELSE "lookup")
  /\ call' = [call EXCEPT ![t] = Outer(c)]
  /\ allocations' = Noted(c)
  /\ heap' = IF c.op = "grow" THEN [heap EXCEPT ![c.from] = "free"] ELSE heap
  /\ UNCHANGED <<sampling, index, statVars, out, spent, resetPC, history>>

\* The hook returns; for shim_free the block ends here.  A block of size 0 may
\* be one of the raw domain.
Return(t) ==
  LET c == call[t] IN
  /\ c.hook # "first"
  /\ Finish(t, "release")
  /\ \/ c.op = "free" /\ heap' = [heap EXCEPT ![c.from] = "free"]
     \/ c.op = "freed" /\ UNCHANGED heap
     \/ c.op = "kept" /\ \E kind \in Live :
          (c.hook = "only" \/ kind = "large") /\ heap' = [heap EXCEPT ![c.to] = kind]
  /\ UNCHANGED <<sampling, index, allocations, statVars, out, spent, resetPC,
                 history>>

\* The other domain's hook reports the end of a large block too.
ReturnInner(t) ==
  /\ call[t].hook = "first"
  /\ At(t, "release", "forget")
  /\ call' = [call EXCEPT ![t].hook = "second"]
  /\ UNCHANGED <<sampling, heap, index, allocations, statVars, out, spent, resetPC,
                 history>>

-----------------------------------------------------------------------------
(* What becomes of the events.                                              *)

\* The worker takes what is in a buffer ...
Drain(t) ==
  /\ held[t] # Nothing
  /\ batch' = Plus(batch, held[t])
  /\ held' = [held EXCEPT ![t] = Nothing]
  /\ UNCHANGED <<sampling, heap, index, allocations, current, droppedEvents,
                 threadVars, spent, resetPC, history>>

\* ... and hands its batch to the aggregator, some time later.
Ingest ==
  /\ batch # Nothing
  /\ current' = [s \in Stacks |-> current[s] + batch.bytes[s]]
  /\ droppedEvents' = Saturated(droppedEvents + batch.dropped)
  /\ batch' = Nothing
  /\ UNCHANGED <<sampling, heap, index, allocations, held, threadVars, spent, resetPC,
                 history>>

\* A thread ends, and with it the events in its buffer; another may start.
Exit(t) ==
  /\ Spend(2)
  /\ pc[t] = "idle"
  /\ held[t] # Nothing
  /\ held' = [held EXCEPT ![t] = Nothing]
  /\ Skew({"exit"})
  /\ UNCHANGED <<sampling, heap, index, allocations, current, droppedEvents, batch,
                 threadVars, resetPC, due, strangers, disturbed>>

-----------------------------------------------------------------------------
(* clear(): Tracer::reset, then the shim's map.                             *)

ResetAt(from, to) ==
  /\ resetPC = from
  /\ resetPC' = to
  /\ Disturb(IF \E t \in Threads : pc[t] # "idle" THEN {"reset"} ELSE {})

\* What is in the buffers is drained, and counted ...
ResetDrain ==
  /\ Spend(2)
  /\ ResetAt("idle", "stats")
  /\ current' = [s \in Stacks |->
       current[s] + SumFunction([t \in Threads |-> held[t].bytes[s]])]
  /\ droppedEvents' =
       Saturated(droppedEvents + SumFunction([t \in Threads |-> held[t].dropped]))
  /\ held' = [t \in Threads |-> Nothing]
  /\ UNCHANGED <<sampling, heap, index, allocations, batch, threadVars, due,
                 strangers, skewed>>

\* ... then the statistics are cleared, but not what the worker holds ...
ResetStats ==
  /\ ResetAt("stats", "index")
  /\ current' = [s \in Stacks |-> 0]
  /\ droppedEvents' = 0
  /\ strangers' = 0
  /\ skewed' = IF batch = Nothing THEN {} ELSE {"batch"}
  /\ UNCHANGED <<sampling, heap, index, allocations, held, batch, threadVars, spent, due>>

\* ... then the index, without the aggregator's lock ...
ResetIndex ==
  /\ ResetAt("index", "allocations")
  /\ index' = <<>>
  /\ due' = {}
  /\ UNCHANGED <<sampling, heap, allocations, statVars, threadVars, spent, strangers, skewed>>

\* ... then the sizes.
ClearAllocations ==
  /\ ResetAt("allocations", "idle")
  /\ allocations' = <<>>
  /\ UNCHANGED <<sampling, heap, index, statVars, threadVars, spent, due, strangers, skewed>>

-----------------------------------------------------------------------------
\* The interpreter calls a hook.
HookCall(t) ==
  \E a \in Addresses :
    \/ \E n \in Sizes, kind \in Live : Malloc(t, a, n, kind)
    \/ Free(t, a)
    \/ \E b \in Addresses, n \in Sizes : Realloc(t, a, b, n) \/ Grow(t, a, b, n)
    \/ ReallocFrees(t, a)
    \/ \E b \in Addresses : ReallocKeeps(t, a, b)
    \/ \E kind \in Live : MallocUntracked(t, a, kind)
    \/ FreeUntracked(t, a)

\* A hook goes on.
HookStep(t) ==
  \/ \E s \in Stacks, sampled \in ShouldSample :
       Track(t, s, sampled) \/ Put(t, s, sampled)
  \/ Forget(t)
  \/ Untrack(t)
  \/ Lookup(t)
  \/ Retrack(t)
  \/ \E accepted \in BOOLEAN : Enqueue(t, accepted)
  \/ Note(t) \/ NoteInner(t)
  \/ Return(t) \/ ReturnInner(t)

Clear == ResetDrain \/ ResetStats \/ ResetIndex \/ ClearAllocations

Next ==
  \/ \E t \in Threads : HookCall(t) \/ HookStep(t) \/ Drain(t) \/ Exit(t)
  \/ Ingest
  \/ Clear

Spec == Init /\ [][Next]_vars

-----------------------------------------------------------------------------
(* Properties.                                                              *)

TypeOK ==
  /\ sampling \in BOOLEAN
  /\ heap \in [Addresses -> {"free", "busy"} \cup Live]
  /\ DOMAIN index \subseteq Addresses /\ Range(index) \subseteq Record
  /\ DOMAIN allocations \subseteq Addresses /\ Range(allocations) \subseteq Sizes
  /\ current \in [Stacks -> Int]
  /\ droppedEvents \in 0..MaxDropped
  /\ pc \in [Threads -> ThreadPC]
  /\ call \in [Threads -> Calls]
  /\ out \in [Threads -> Seq(Event)]
  /\ held \in [Threads -> Tally]
  /\ batch \in Tally
  /\ resetPC \in {"idle", "stats", "index", "allocations"}
  /\ due \subseteq Addresses
  /\ strangers \in Nat

\* No hook and no clear() is under way.
Quiet == resetPC = "idle" /\ \A t \in Threads : pc[t] = "idle"

\* What the index says is allocated with stack s.
BytesAt(a, s) ==
  IF a \in DOMAIN index /\ index[a].stack = s THEN index[a].size ELSE 0

IndexedBytes(s) == SumFunctionOnSet([a \in Addresses |-> BytesAt(a, s)], Addresses)

\* The index lists blocks that exist, whatever the threads do at the same
\* time; only frees that a hook performs itself are missed.
NoDangling ==
  Quiet /\ "reentry" \notin disturbed =>
    \A a \in DOMAIN index : heap[a] \in Live

\* What is still on its way to the statistics.
BytesUnderway(s) == batch.bytes[s] + SumFunction([t \in Threads |-> held[t].bytes[s]])

DropsUnderway == batch.dropped + SumFunction([t \in Threads |-> held[t].dropped])

\* The bytes of a stack, with the events that wait to be counted, are those of
\* its blocks: the two maps, the events and the statistics never drift apart,
\* in any interleaving of hooks, drains and clears, unless since the last
\* clear() a buffer refused an event, a thread ended with events in its buffer
\* or a large block was reported, or the worker held events at that clear().
BytesExact ==
  Quiet /\ disturbed = {} /\ skewed = {} =>
    \A s \in Stacks : current[s] + BytesUnderway(s) = IndexedBytes(s)

\* Without sampling the index holds exactly the blocks that were allocated or
\* moved through the hooks since the start or the last clear() (not one that a
\* realloc to size 0 has left or returned), large ones or not.
TrackingComplete ==
  Quiet /\ ~sampling /\ disturbed = {} => DOMAIN index = due

\* The shim and the tracer agree on the size of every block both know.
SizesAgree ==
  Quiet /\ disturbed = {} =>
    \A a \in DOMAIN index \cap DOMAIN allocations : allocations[a] = index[a].size

\* Under the conditions of BytesExact dropped_events, with those that wait to
\* be counted, are the blocks whose end the tracer is told of though it was
\* never told of their beginning (they are older than the tracer or the last
\* clear(), or were made inside a hook), and no others: a reallocation counts
\* twice, sampling switches it off.
DropsAreStrangers ==
  Quiet /\ disturbed = {} /\ skewed = {} =>
    Saturated(droppedEvents + DropsUnderway) =
      IF sampling THEN 0 ELSE Saturated(strangers)
=============================================================================
