# tracemalloc: specification and proofs

`tracemalloc` is a Rust allocation tracer with a Python front end. It hooks CPython's allocators, keeps an index of
live allocations, sends events through lossy per-thread buffers, and lets one background thread add them up per stack.
This directory specifies those parts in TLA+, checks them on small instances with TLC, and proves the main invariants
for every instance with TLAPS.

* [The system](#the-system)
* [The modules](#the-modules)
* [The runs](#the-runs)
* [Fairness](#fairness)
* [The proofs](#the-proofs)
* [Disagreements between code and documentation](#disagreements-between-code-and-documentation)
* [What is not modelled](#what-is-not-modelled)
* [Plan](#plan)

## The system

| Component | State | Operations | What makes it correct |
|---|---|---|---|
| `Tracer` handles, worker (`src/state.rs`) | `Arc<TracerInner>`, `stop_flag`, `pending_flush`, `WorkerSync` | clone, drop, `notify_flush`, `request_shutdown`, `run_worker` | the worker stops when, and only when, no handle is left; no signal that matters is lost; the inner state is never freed by the worker |
| Thread buffers (`src/ring_buffer.rs`) | `ArrayQueue` of events, `dropped` | `record`, `drain_into` | bounded; every refused event is reported; a full buffer asks for a flush |
| Drain (`src/state.rs`, `drain_buffers`) | list of weak references to buffers | by the worker, by `snapshot`, by `reset` | every event is moved once; what was recorded before a call is not left behind |
| `Aggregator` (`src/aggregator.rs`) | statistics per stack, `dropped_events` | `ingest`, `snapshot`, `reset` | every event counts once |
| Allocation index (`src/state.rs`) | live allocations by address | `prepare_hot_event`, `prepare_reallocation` | the index lists blocks that exist, and the bytes of a stack are those of its blocks |
| Sampler (`src/state.rs`) | `SamplingState`; `SamplingBytes` with a counter and the next sampling point | `should_sample`, `is_enabled` | samples follow the bytes however threads race for a point; `is_enabled` is false only where everything is sampled |
| Stack table, caches (`src/stack.rs`, `src/stack_capture.rs`) | `by_frames`, `by_id`, `next_id`; thread-local caches | `intern`, `insert_with_id`, `capture_and_intern` | an id resolves to its frames; a stack has one id |
| Snapshot and delta (`src/snapshot.rs`) | records of statistics | `from_snapshots`, export | the delta is the difference |
| Exports (`src/export.rs`) | pprof tables; an mmap with a write position | `export_pprof`, `write_snapshot` | table indices refer to what was meant; nothing is written past the end |
| Python shim (`py/src/lib.rs`) | global `STATE`, sizes by address, three hooked allocators, `IN_TRACER` | hooks, `start`, `stop`, `clear`, `take_snapshot` | hooks neither recurse nor outlive their state; sizes agree with the index; no function waits with the GIL for a thread that needs it |

A hook finds the frames, the tracer updates its index and makes an event, `thread_buffer` finds or registers the
thread's buffer, the buffer takes or refuses the event and may ask for a flush, a drain (of the worker or of a caller)
moves the events of all buffers into a batch, and the batch goes into the aggregator under a lock of its own. A snapshot
or reset drains first and then takes the aggregator's lock. All of this is shared memory: threads meet in two
mutexes, a condition variable, atomics, concurrent maps and reference counts.

What is hard here: reference counts used as decisions; a condition variable signalled with and without its lock; batches
that are in no shared state for a while; thread-local storage that ends before, or outlives, what it refers to; an
allocator that reissues an address before its old life has been reported; `clear()` in three steps; a counter that wraps
beside a sampling point that saturates; a mutex and the GIL, taken in either order; blocks that two allocators report. `PROJECT.json` lists
each such hazard at its line, with the properties that would notice.

## The modules

| Module | What it models |
|---|---|
| `TracerLifecycle` | handles, worker, shutdown |
| `BufferGeometry` | capacity and flush threshold from a byte budget |
| `EventPipeline` | threads, buffers, drains, aggregator, snapshot, reset; EXTENDS `BufferGeometry` |
| `EventLedger` | the promise about each event; `EventPipeline` implements it |
| `AllocationTracking` | allocator hooks, shim sizes, index, events, sums |
| `ByteSampler` | which allocations are sampled |
| `ShimLifecycle` | `start`, `stop`, `clear`, the GIL and the hooks under way |
| `StackCapture` | stack table, thread-local caches and buffers, tracers that come and go |
| `SnapshotDelta` | the aggregator's counters with their width, snapshots, the difference of two |
| `PprofExport` | `build_pprof_profile`: tables of strings, functions and locations |
| `MmapStream` | snapshots streamed into a mapped file of fixed size |
| `Reporting` | a client of the three; EXTENDS the first, INSTANCEs the others |
| `*Proofs` | theorems about the module they are named after; those of `Reporting` include its three parts |
| `SumFacts` | lemmas about sums over finite sets, for the proofs |
| `MC*` | instances for TLC |

**TracerLifecycle.** `owners` is what `Arc::strong_count` counts; `hpc` and `wpc` are program points between shared
accesses. `Drop` is `Tracer::drop` reading the count and `Release` the later drop of the field, two steps, because
other threads run in between. `SwapStop`, `LockSync`, `UnlockSync`, `NotifyAll`, `Join` are the lines of
`request_shutdown`, which is called with `"swap"` from `Tracer::drop` and with `"freeing"` from `TracerInner::drop`.
`CheckStop` ... `Relock` is one turn of `run_worker`. The drains themselves are single steps here: `EventPipeline`
has their inside.

**EventPipeline.** An event is `<<t, n>>`, the n-th event of thread t. `Record` ... `Signal` follow `enqueue_event`
and `ThreadBuffer::record`, `StartDrain` ... `Ingest` follow `drain_buffers`, one pop per step, for the worker and for
each caller; `Call`, `ReadStats` and `ClearStats` are `snapshot` and `reset`. `Exit` ends a thread: its buffer goes,
unless a drain has just upgraded its weak reference, in which case it goes with that drain (`SwapDropped`). History
variables (`ended`, `forgotten`, `wiped`, `before`) say why an event no longer counts, what had been recorded when
a call began, and what a reset was to forget and could (no drain had it in a batch when the statistics were cleared).
`Ledger` maps the pipeline to `EventLedger`.

**AllocationTracking.** The allocator is external: an address is `free`, `busy` (in the hands of a hook), `live`, or `large`,
which is a block of two domains: the object domains get it from the raw domain, whose hook reports it first when it begins
(`NoteInner`, then the outer hook) and again when it ends (`ReturnInner`); a realloc that makes a block large is a
`malloc` of the raw domain, the `free` inside the allocator, and then the outer hook (`Grow`). The hooks report in the order of
the code, so `shim_malloc` and `shim_realloc` change the heap before the tracer hears of it and `shim_free` after.
`Track`, `Untrack`, `Retrack` and `Put` are the accesses to the concurrent index; `Forget`, `Lookup` and `Note` those to
the shim's sizes. `Enqueue` puts an event into the thread's buffer or has it refused, `Drain` moves it into the worker's
batch, `Ingest` counts it, `Exit` loses what a thread leaves in its buffer, and `ResetDrain` is the drain at the start of
`clear()`. Which event is where is the subject of `EventPipeline`; here `held` and `batch` keep what the waiting events add
up to. Snapshots, too, drain through `Drain` and `Ingest`; sums do not depend on which batch goes first.
`MallocUntracked` and `FreeUntracked` are what `with_guard` hides.

`disturbed` records the three things that the maps do not survive: an address that is reissued before the realloc which
freed it is reported, a `clear()` that overlaps a hook, and a block freed inside a hook. `skewed` records the four that the
statistics do not survive, until the next `clear()`: a refused event, events that end with their thread, a large block
(counted twice, its second end a dropped event), and a batch that the worker holds while the statistics are cleared. The
properties say that nothing else can make the maps, the events and the statistics drift apart. `due` is the set of blocks
the hooks were told of, `strangers` how many ends were reported of blocks that are not among them, which is what
`dropped_events` counts besides refusals.

**ByteSampler.** `FetchAdd` is the `fetch_add`, after which the call knows the total it has brought about; `LoadAhead` and
`LoadReached` the load of the sampling point and the two answers to it, `Claim` and `Retry` the compare-and-swap. `ByRate`
and `SkipEmpty` are the answers without the counter. `total_observed` wraps at `Word`, `next_sample` saturates below it.
History: `observed` counts the bytes without wrapping, `overlaps` the calls that began while another was under way.

**ShimLifecycle.** The functions of the module are the actions under `Function`, step by step where another thread may run
in between: `STATE` is locked from `Start` to `Publish` and from `Stop` or `Clear` to `Drop`, and `start` may run Python code
in between (`Start` to `Parsed` or `Rejected`): `__float__` or `__index__` of the values of a sampling mapping, and the
iterator of the exporters. That code may give up the GIL, allocate, or call the module (`CallAgain`), which then waits for
its own lock. A hook is a list of things to do (`Plan`): use the map of sizes, which
is a mutex, and collect frames, for which a thread without the GIL has to get it. The GIL, CPython's table of allocators and
another tool that saves and replaces allocators are external. `crossed` records that shim and tool were not taken off in
turn, which no code can repair.

**StackCapture.** A tracer is created at a place, freed, and another may be created at the same place. Both thread-local
memories are keyed by place. `Hit`, `Miss`, `Intern`, `Remember` are `capture_and_intern` (a lookup touches only the
thread's own memory and is one step with the call); `Deliver` is `thread_buffer`. History: `captured` is what was
returned, `strayed` the tracers of which an event went to another's buffer, `reborn` the tracers made where another
had been, `rebound` and `moved` what `insert_with_id` overwrote.

**SnapshotDelta.** `IngestAllocation` and the two like it are the arms of `Aggregator::ingest`, in any order, since a
block may be freed by a thread whose buffer is drained earlier. Every counter has its width: `AtMost` and `AtLeastZero`
are the saturating operations of u64, `Clamped` those of i64, and `Wrapped` the one plain subtraction of i64 in
`from_snapshots`, which wraps in a release build (and panics in a debug build). `Orders` are the orders that sorting by
current bytes leaves open. `DeltaExact` is the reference: what the older snapshot and the delta add up to. It does not
hold across a `reset`, which the history variable `reset` excludes: then stacks are missing from the delta and unsigned
differences saturate at zero.

**PprofExport.** A step is a frame: `Locate` is `intern_location_for_frame`, which interns two strings, a function and a
location in tables that refer to each other by index or id. `AddSample` ends a record, `Complete` interns the names of
the two values and ends the profile. `FrameAt` reads a location as a viewer would. Timestamps, the period and the
addresses (all zero) have no bearing on the tables.

**MmapStream.** `Open`, `OpenFails`, `Write`, `Refuse`, `Close` are the calls of a `SnapshotStream`. All streams are on one
path. The file and the mapping are external: opening truncates the file, also under a mapping that is still in use,
after which a store may be lost or end the process (`killed`). `shared` records that this has happened. The comment at
`src/src/export.rs:132` says that the file handle stays open as long as the mapping; it is closed when `create` returns,
which does the mapping no harm.

**Reporting.** A snapshot is a copy, and all that the three have in common, so one client does one of them (`use`). An
export reads the client's newest snapshot when it begins and goes on while others are taken. How long the JSON of a
snapshot is depends on names and timestamps, so a stream is given chunks of any length.

Locks and atomics are sequentially consistent and poisoned locks do not occur. `ArrayQueue`, `DashMap` and `Arc` do
what they document.

## The runs

| Run | Instance | Shows |
|---|---|---|
| `lifecycle` | 3 handles | `StopMeansUnused`, `NoLostShutdown`, `WorkerNeverLastOwner`; `ShutdownCompletes` and `FlushServed` |
| `lifecycle_leak` | 2 handles | **violated** `LastDropStopsWorker` |
| `pipeline` | 1 thread, 1 caller, 3 events, capacity 2 | `OnePlace`, `DropsAccounted`, `FlushNotForgotten`, `ResetForgets`, `OrderKept`, `ImplementsLedger`, `EventuallyAggregated` |
| `pipeline_threads` | 2 threads, 1 caller, 1 event each, capacity 1 | `DrainReachesRecorded` |
| `pipeline_exit` | 1 thread, 1 caller | **violated** `NeverLost` |
| `tracking` | 2 threads, 2 addresses, 2 sizes, 3 calls, `clear()`s or ends of threads, or 2 calls for large blocks | `NoDangling`, `BytesExact`, `TrackingComplete`, `SizesAgree`, `DropsAreStrangers` |
| `capture` | 2 threads, 2 tracers, 2 places, 2 stacks, 2 ids, cache of 1 | `Attribution`, `StableId`, `DeliveredIfFresh` |
| `capture_reuse` | 1 thread, 2 tracers, 1 place | **violated** `Delivered` |
| `reporting` | 3 stacks, 3 events, i64 of 2 bits; 2 streams, files of 1, 3 or 4 bytes | `DeltaExact`, `ProfileFaithful`, `OneLocationPerFrame`, `FileWhole` |
| `sampler` | 2 threads, 6 calls, words of 12 values, intervals 3 and 5, three rates | `PointsOnce`, `NoOversampling`, `OnlyOverlapLoses`, `WrapGrantsNoBurst`, `AllUnlessEnabled`, `EveryCallReturns` |
| `shim` | 2 Python threads, 1 without the GIL, 2 states, another tool | `HookedIsAlive`, `HooksMatchState`, `OnlyArgumentsBlock`, `CallsReturn` |
| `shim_stop` | 1 Python thread, 1 without the GIL, 1 state | **violated** `HooksHaveState` |

Why the bounds are enough to be interesting:

* Three handles are needed for a clone to race with the drop of another handle while a third one is idle; with two both
  reads of the count already overlap, which is the leak.
* With three events and a capacity of two a buffer fills, refuses an event and is refilled after a drain. The threshold
  of a buffer of two is two, so one queued event asks for no flush and only the timeout brings it to the statistics.
  Worker and caller together give two drains of one buffer. `pipeline_threads` adds the list of buffers: `retain`
  removes one thread's entry while the other registers.
* Three hook calls on two addresses allow `malloc` on one thread between the two halves of `realloc` on another, and a
  reissued address. `Budget` bounds what the program does: a hook, a `clear()` and the end of a thread cost 2 of 6, a call
  for a large block, which runs two hooks, costs 3. `MaxDropped` = 2 is where `dropped_events` saturates: two frees of
  unknown blocks reach it, and a reallocation, which counts twice, goes past it. The constraint `Interesting` cuts off what
  no property speaks of: everything after a hook has freed a block itself, and the worker once the maps are disturbed
  (the statistics, which nothing else reads, are then excluded for good).
* Six calls of up to 5 bytes on words of 12 values carry the counter past its end twice; the sampling point saturates
  after two or three samples. Sizes lie below, at and above the intervals.
* Two states let `stop` and `start` follow each other while a hook is still in the first; two Python threads contend for
  `STATE`, and the third is the one that allocates in the raw domain.
* A cache of one stack evicts at once. With two ids the counter reaches its saturation; id 1 is the one a program
  gives away (`Named`), so that interning has to step past it or take it over. Two places let two tracers coexist, two
  tracers at one place follow each other.
* In `reporting` a signed counter holds -2 .. 1 and an unsigned one 0 .. 3, so that with `MaxEvents` = 3 bytes wrap and
  clamp, `IngestDropped` saturates, and a size of 2 is one that i64 cannot hold. The frames (`MCFrames`) differ in the line
  only, occur in two stacks, have an empty name, or the name of a value (`space`); the third stack is one that the stack
  table does not know. Chunks of 1 and 3 bytes fill a file of 4 exactly, or are refused; a capacity of 0 becomes 1.

Symmetry is declared in safety runs only: threads and addresses in `tracking`, threads in `pipeline_threads`, 
threads, tracers, places and stacks in `capture`, and streams and contents in `reporting` are interchangeable.

Deadlock is checked in most runs: the end of all handles and of the worker is the explicit step `Terminated`, that of
all streams is `Ended`, and elsewhere something can always happen. It is not checked in `tracking` and `sampler`, which stop
when the hooks and calls they may make are used up, nor in the runs of `ShimLifecycle`, where it can really occur:
`start()` runs code of its arguments with `STATE` locked, and when that code lets go of the GIL another thread may take it and
wait for `STATE`, or the code itself calls the module and waits for its own thread (`OnlyArgumentsBlock` says that these
are the only ways, `CallsReturn` leaves them out); and a thread whose state was freed goes no further.

The type invariants of `ByteSampler` and `ShimLifecycle` are proved and need no run; `OnePlace` is proved and also runs in
`pipeline`.

Every property of a passing run comes with a mutated definition (marked "Plausible bug" next to the original) that
breaks it: a skipped `notify_all`, a pop that leaves the event, a counter that is loaded instead of swapped, a poll
that ignores what it swapped, an index written before the sampling decision, an id counter that does not step past an
explicit id, and so on.

## Fairness

`TracerLifecycle!FairSpec`: weak fairness of the worker's steps and of each handle's `HandleStep`, that is of what
follows from a decision already made. Client decisions (`Clone`, `RequestFlush`, `Drop`) are not fair: a program need
not drop anything. The timer is not fair either, so `ShutdownCompletes` shows that shutdown does not need it;
`FlushServed` assumes `WF_vars(Timeout)` in its own statement, since a flush whose signal is missed is served by the
timeout only. The code justifies this: mutexes are held for a few instructions and the OS schedules threads.

`EventPipeline!FairSpec`: weak fairness of the worker, its timeout included (`drain_interval` is finite), and of each
caller within a call. Nothing obliges a thread to record, to finish recording, or to end.

`ByteSampler!Fairness`: weak fairness of a call's steps once it has begun. No thread need win an exchange: that the loop
ends follows from the sampling point, which moves with every exchange that is lost.

`ShimLifecycle!FairSpec`: weak fairness of what a function or a hook does, and strong fairness of `ClearAllocations`, which
waits for a mutex that hooks take and release over and over. That a thread is given the GIL is not assumed:
`CallsReturn` holds although a hook may wait for it for ever.

## The proofs

Assumptions are the named `ASSUME`s of the modules (`PipelineAssumption`, `CaptureAssumption`, ...), which TLC also
evaluates in the runs.

| Theorem | For every ... |
|---|---|
| `LifecycleTypeOK`, `StopOnlyWhenUnused`, `ShutdownSignalHeard`, `WorkerNeverFrees` | set of handles |
| `SerialLastDropStops` | set of handles, if two drops never overlap |
| `GeometrySound`, `PipelineTypeOK`, `PipelineOnePlace`, `PipelineDropsAccounted`, `PipelineDrainReaches`, `PipelineFlushComes`, `PipelineResetForgets`, `PipelineOrderKept`, `PipelineImplementsLedger` | number of threads, callers and events, every buffer size |
| `PipelineLosesOnlyOnExit` | number of threads, callers and events, if no thread has ended |
| `TrackingTypeOK`, `TrackingNoDangling`, `TrackingIsComplete`, `TrackingSizesAgree`, `TrackingBytesExact`, `TrackingDropsAreStrangers` | number of threads, addresses, sizes, stacks and calls, with and without sampling |
| `SamplerTypeOKAlways`, `PointsOnceAlways`, `NoOversamplingAlways`, `OnlyOverlapLosesAlways`, `WrapGrantsNoBurstAlways`, `AllUnlessEnabledAlways` | number of threads and calls, width of the words, interval and size |
| `ShimTypeOKAlways`, `HookedIsAliveAlways`, `HooksMatchStateAlways`, `OnlyArgumentsBlockAlways` | number of threads of both kinds and of starts, with and without another tool |
| `HooksHaveStateWithGil` | number of Python threads, without other threads and tools |
| `ReportDeltaExact`, `ReportTypes` | number of stacks and events, sizes, width of the counters |
| `ReportImplementsExport`, `ReportProfileFaithful`, `ReportOneLocation` | snapshot, whatever its stacks and frames |
| `ReportFileWhole` | number of streams, capacity and length of chunks |
| `CaptureTypeOK`, `IdsAttributed`, `IdsStable`, `EventsDelivered` | number of threads, tracers, places, stacks and ids |
| `DeliveredUnlessReused` | the same, if no two tracers have had one address |

Every safety property that a passing run checks is the conclusion of one of these. For each of the four properties that
are violated one of them says what it takes for the property to hold (`SerialLastDropStops`, `PipelineLosesOnlyOnExit`,
`DeliveredUnlessReused`, `HooksHaveStateWithGil`).

**TracerLifecycleProofs.** `StopMeansUnused` is not inductive: one must know that a handle which has read a count of two
is alone with the worker, and stays so, because only an owner can clone. `IInv` says so (`LastIsAlone`), ties program
points to ownership (`OwnersMatch`), says that the worker leaves its loop only after a stop request whose requester
still owns the state (`StopRequested`), and that after the requester has held the lock the worker cannot get into its
wait (`NoWaitAfterLock`). `CountTwo` is the fact about cardinalities behind `strong_count() == 2`.
`SerialLastDropStops` shows that the leak found by `lifecycle_leak` needs two overlapping drops.

**EventPipelineProofs.** First types, the bound of every buffer and the order of visits (`Base`: one drain at a time holds
the lock, and what it still has to visit is the end of the list, so that `retain` removes the right entry). Then
`OnePlace` from `Sorted`, which says for each of the five places an event can be in what the state looks like,
including that no queue and no batch repeats an event and that batches of different drains are disjoint; one lemma per
action that moves an event, and one frame lemma for all the others.

The other theorems rest on these. `DrainReachesRecorded` needs two facts: a thread with events is registered
(`Registered`), and a drain that began with a call has its buffer still ahead or has been there after the call began
(`Ahead`, `Reached`). `FlushNotForgotten` needs that a buffer above its threshold whose thread has moved on has either
`pending_flush` set or the worker's drain still ahead of it (`FlushComing`). `ResetForgets` needs that what a reset has wiped
never counts again (`WipedEnded`). `ImplementsLedger` is a refinement: `Ledger` reads the status of an event off the places it can be in, and by
`OnePlace` each step moves the events of one buffer or batch along one edge of the ledger, or none.

`DropsAccounted` equates a number of events with two sums over threads. It is inductive given `Sorted`: an event that is turned
away is in its thread's hand, so that it has not been counted yet, and each step afterwards moves a number from one
counter to the next. The sums are over `Threads` and `Drainers`, which is why `PipelineAssumption` has finite sets of
threads and callers, as a process has. `LostWithThread` is behind `PipelineLosesOnlyOnExit`.

**SumFacts.** What the library's `SumFunctionOnSet` does when a summand is added, taken away or changed. It is defined by
recursion over the elements of a set, an element being chosen at a time; that such a function exists, and does not depend
on the choice, is shown by taking a least counterexample (`LeastNat`, `Fewest`).

**AllocationTrackingProofs.** First types, with the facts about a call that its program point allows (`Fits`); then the
actions are brought into a few shapes (`Called`, `Unheard`, `Went`, `Finished`), and all later lemmas speak of these.
`NoDangling` speaks of quiet moments only, so the invariant says whom a block belongs to in between: a busy block is held
by one thread (`HeldBusy`, `HeldOnce`), and a block in the index is live or is the concern of a thread that will
return it or remove it (`Indexed`). It also needs that a block being freed stays out of the index after its record was
removed (`Removed`). For the other two, two calls must not concern the same block, which is what `disturbed` is about:
a realloc's old block stays free until the realloc is reported (`Departed`), and no hook runs during `clear()`
(`ResetAlone`). `Agreed` then says of the blocks of each call what is due, indexed and noted at its program point
(`Facts`), and of all others that the two maps and `due` agree (`Matched`).

`BytesExact` and `DropsAreStrangers` speak of statistics, which lag behind the index by the events that calls have made
and not sent, that wait in buffers, and that the worker holds. As long as nothing is skewed no call has two hooks (`Singly`),
and between the drain of a `clear()` and the clearing of the statistics the buffers are empty (`Emptied`), so that what gets
past a `clear()` is in the worker's batch. `Balanced` is the account of bytes at every moment: those of a stack that are counted,
those in the batch, and those that threads have in hand or in their buffers (`PendingBytes`) are the bytes in the index.
For that an event must say the size by which the index changes; the size of an old block comes from the shim if it has one,
so `Careful` has it agree with the index (from `Agreed`) until the block is looked up and afterwards (`OldSize`), and a call
has at most two events to send. `Reckoned` is the account of strangers: those that a call has met or is about to meet, or
that wait (`Owed`, and the batch), are not in `dropped_events` yet, all others are, up to saturation. A batch may be ingested at any
time, so both accounts must be indifferent to it. All are sums, over addresses and over threads, so `TrackingAssumption` has
these sets finite.

**ByteSamplerProofs.** `PointsOnce` is inductive with the types. `NoOversampling` needs that a call which is about to claim
a point has seen a total that has reached it (`Counted`). `OnlyOverlapLoses` needs an account of the moments in between
(`Pending`): either the bytes counted so far are paid for, by samples or by overlaps, or the call that counted last has
still to look at its total and lacks at most one interval. `WrapGrantsNoBurst` counts
rounds of the counter (`Rounds`): once the point is stuck at the last word, at most two calls in a round can claim it, the
one that reaches that word and the one that wraps the counter (`Granting`), and a round is worth two intervals at least.

**ShimLifecycleProofs.** `Holding` says who has `STATE`, the GIL and the states (`LockHeld`, `GilHeld`, `StatesHeld`,
`Existing`), `SizesHeld` that the guard of a map of sizes is never held while frames are collected, from which
`OnlyArgumentsBlock` follows. `Stack` describes the table of allocators as a stack of CPython's own, tool and shim in either
order, as long as nothing is `crossed`; the top of it is what `HookedIsAlive` and `HooksMatchState` are about, with `HooksAlive`
for the threads that hold the GIL. `HooksHaveStateWithGil` follows with `Alone`: without a tool nothing is ever crossed.

**StackCaptureProofs.** `Attribution` and `StableId` speak of ids that have been returned. `IInv` says the same of every
copy on its way: the table (`TableInv`: the two maps agree and ids in use are below `next_id` or are the last one), the
caches (`CacheInv`), a call between `intern` and the cache (`TransitInv`). It needs `PlaceInv` (the first tracer at a
place is the only one that has ever been there while it lives) and `UnusedInv` (nothing is remembered of a place without
a tracer); the run `capture_reuse` shows that the former is what fails in practice.

**ReportingProofs.** Each of the three parts has an inductive invariant of its own.

* `Numbers`, of `SnapshotDelta`: no counter of a stack has fallen since the newer snapshot was taken, unless the statistics were
  cleared since (`Continues`), nor between the two snapshots (`Follows`), and a snapshot names a stack once
  (`NamesOnce`, `OrderedAll`: a list of n different stacks out of n has them all). Then a record finds the one of its
  stack, `saturating_sub` subtracts, and adding the bytes back undoes the wrapping (`WrappedBack`), so `DeltaExact` holds.
* `ExportInv`, of `PprofExport`: `Good` says of one table that its map leads to each entry; `Added` what interning does
  to it: nothing moves, and only the key is new. `Linked` says that references between tables lead somewhere and that a
  location has its function's line. `Located` puts four interned keys together, and `FrameKept` shows that a location
  made earlier still leads to the same frame, which carries all samples through every later step. That no frame has two
  locations follows from the tables alone: equal strings have equal indices, so equal frames have one function and one
  location.
* `StreamInv`, of `MmapStream`: a stream that is open is the owner of the file unless the file is shared, a stream which
  has not been opened has taken nothing, and positions stay within mappings.

That every step of a client is a step of one of the three and leaves the others alone is plain from `Reporting`, and two
lemmas say so; the third, `ReportImplementsExport`, needs `Numbers` again, since what is exported has to be of the type of
records.

Only model-checked is liveness: `ShutdownCompletes`, `FlushServed`, `EventuallyAggregated`, `EveryCallReturns` and `CallsReturn`.
Their fairness conditions are about `ENABLED`, which is outside what the prover does. Induction over data is done by
least counterexamples where a proof needs it (`SumFacts`); no module here uses a RECURSIVE operator.

## Disagreements between code and documentation

1. **Leak on concurrent drops** (`lifecycle_leak`, `src/src/state.rs:506`). Two handles dropped at once both read a
   count of three; neither stops the worker, which keeps the inner state alive and drains it for ever.
2. **Thread exit loses events** (`pipeline_exit`, `src/src/state.rs:248`). What is in a thread's buffer when the thread
   ends is lost, and not counted as dropped.
3. **Address reuse** (`capture_reuse`, `src/src/state.rs:757`). A tracer created at the address of a former one inherits
   that one's thread buffers, which nobody drains, and its stack ids, which its table does not know.
4. **`stop()` under a hook** (`shim_stop`, `src/py/src/lib.rs:193`). Nothing waits for hooks under way: a thread that
   allocates in the raw domain and waits for the GIL to collect frames goes on in a `ShimState` that has been freed.
   `HookedIsAlive` shows that threads with the GIL are safe.

Behaviour that is worth knowing and that no run claims to contradict a document:

* `notify_one` without the lock (`src/src/state.rs:299`) can fall between the worker's poll and its wait. Until
  `drain_interval` ends all later requests are suppressed, too (`FlushServed` assumes the timeout for this reason).
* A batch that the worker has taken before a `reset` is ingested after it (`src/src/state.rs:259`, `729`), which is why
  `ResetForgets`, `BytesExact` and `DropsAreStrangers` except it. In the same window a snapshot misses events recorded before it.
  Two tests assert the stronger behaviour, that a snapshot has everything recorded before it
  (`snapshot_drains_thread_buffers`, `src/src/state.rs:835`) and that after a clear nothing is left
  (`clear_resets_tracer_state_and_allocations`, `src/py/src/lib.rs:1098`). They have one thread and a worker that is
  asleep for all but an instant, where it holds; the models show schedules in which it does not.
* A large block is reported by two domains (`src/py/src/lib.rs:889`, `990`): its bytes are counted twice when it begins and
  subtracted once when it ends, and the second report of its end is a dropped event. The index and the sizes are
  right all the same (`TrackingComplete`, `SizesAgree`), since a repeated report changes nothing in a map.
* `realloc` to size 0 reports a deallocation whatever the allocator did (`src/py/src/lib.rs:957`), also when it failed and the
  block is still there.
* Freeing a block that the tracer does not know counts as dropped events though no buffer was full
  (`src/src/state.rs:608`). Tests expect it; `DropsAreStrangers` says exactly when it happens.
* Batches of two drains may be ingested in either order (`src/src/state.rs:262`). `OrderKept` says how far order goes; the
  statistics are sums and do not depend on it.
* Once `next_sample` has saturated, sampling by bytes all but ends for good (`src/src/state.rs:113`). `WrapGrantsNoBurst` bounds the
  samples from above; no property asks that they go on.

Some properties hold under a premise that is itself a hazard of the code: the batch in flight and the order of batches (`ResetForgets`,
`OrderKept`), reissued addresses, overlap with `clear()`, frees inside a hook, refused events (the properties of `tracking`),
tracers made where another had been (`Attribution`), a reset between two snapshots (`DeltaExact`), a file truncated under an
open stream (`FileWhole`), shim and tool taken off crosswise (`HookedIsAlive`, `HooksMatchState`). They do not show that
these cases are harmless, which they are not, but that there are no others. `PROJECT.json` says so at each of these hazards.

## What is not modelled

Left out for good: native backtraces and the walk over Python frames (external structures, no state of their own;
`start()` leaves `python_skip_frames` at zero, so that skipping has one outcome), the text of JSON, the
`JsonLinesWriter` (which hands a snapshot to a `Write`), conversion to Python objects, the values of arguments
(not the code that parsing them may run), the configuration builder, poisoned locks, allocation failure, and weak memory effects.

Allocation tracking is modelled partly: `enable()` and `disable()` in mid-course would make every block that comes or
goes in between a disturbance, and byte counts beyond i64 belong to `SnapshotDelta`. In `ShimLifecycle` the three domains are
one, since they are installed and restored together under the GIL.

Other limits of the models are worth knowing. In `AllocationTracking` the addresses that two domains see of one block are the same,
as with CPython's allocators (those of `PYTHONMALLOC=debug` put a header in front, so that outer and inner domain report two
blocks), and a hook that runs inside another one's `with_guard` is silent. `EventPipeline` gives each thread a bounded number of
events, so a drain that never ends because its thread records faster than it pops does not occur.

## Plan

Done: the life cycle, the pipeline, tracking, stack capture, reporting, the sampler and the shim, with the theorems above.
What would add most next:

1. `ShimLifecycle` composed with the thread-local memories of `StackCapture`: a `start()` after a `stop()` on the same
   thread is where address reuse comes from.
2. `enable()` and `disable()` in `AllocationTracking`.
3. The safety halves of the liveness properties as theorems: that each state short of the goal has a step that a
   fairness condition speaks of.
