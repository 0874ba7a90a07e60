---------------------------- MODULE SnapshotDelta ----------------------------
(****************************************************************************)
(* The numbers: what the aggregator adds up for each stack and for dropped  *)
(* events (src/aggregator.rs), the snapshots a client takes of them, and    *)
(* the difference of two snapshots (src/snapshot.rs).  Counters have a      *)
(* width: u64 saturates, and the one subtraction of i64 that does not       *)
(* saturate wraps (in a build that checks overflow it panics instead).      *)
(*                                                                          *)
(* Events arrive in any order: a block may be freed by a thread whose       *)
(* buffer is drained before that of the thread which allocated it.          *)
(****************************************************************************)
EXTENDS Integers, Sequences, FiniteSets

CONSTANTS
  Stacks,     \* stack ids
  Sizes,      \* sizes of blocks, those included that i64 cannot hold
  MaxSigned,  \* i64::MAX
  MaxEvents   \* how many events arrive (a bound for TLC)

VARIABLES
  stats,          \* Aggregator.stats
  droppedEvents,  \* Aggregator.dropped_events
  older,          \* the client's two most recent snapshots
  newer,
  events,         \* how many events have arrived
  reset           \* history: the statistics were cleared between the two, or
                  \* since the newer one

vars == <<stats, droppedEvents, older, newer, events, reset>>

MinSigned == -MaxSigned - 1

MaxUnsigned == 2 * MaxSigned + 1

\* Plausible bug: a counter that does not saturate.
Unsaturated(n) == n

\* saturating_add of u64
AtMost(n) == IF n > MaxUnsigned THEN MaxUnsigned ELSE n

\* saturating_sub of u64
AtLeastZero(n) == IF n < 0 THEN 0 ELSE n

\* saturating_add and saturating_sub of i64; also the delta's dropped_events.
Clamped(n) ==
  IF n > MaxSigned THEN MaxSigned ELSE IF n < MinSigned THEN MinSigned ELSE n

\* The i64 that n is modulo 2^w.
Wrapped(n) == ((n - MinSigned) % (MaxUnsigned + 1)) + MinSigned

Counters ==
  [allocations : 0 .. MaxUnsigned, current_bytes : MinSigned .. MaxSigned,
   deallocations : 0 .. MaxUnsigned, total_allocated : 0 .. MaxUnsigned,
   total_freed : 0 .. MaxUnsigned]

Zero ==
  [allocations |-> 0, current_bytes |-> 0, deallocations |-> 0,
   total_allocated |-> 0, total_freed |-> 0]

StatsOf(s) == IF s \in DOMAIN stats THEN stats[s] ELSE Zero

NoSnapshot == [records |-> <<>>, dropped_events |-> 0]

Init ==
  /\ stats = <<>>
  /\ droppedEvents = 0
  /\ older = NoSnapshot
  /\ newer = NoSnapshot
  /\ events = 0
  /\ reset = [between |-> FALSE, since |-> FALSE]

-----------------------------------------------------------------------------
(* Aggregator                                                               *)

OnAllocation(c, n) ==
  [c EXCEPT !.current_bytes = Clamped(@ + n), !.allocations = AtMost(@ + 1),
            !.total_allocated = AtMost(@ + n)]

OnDeallocation(c, n) ==
  [c EXCEPT !.current_bytes = Clamped(@ - n), !.deallocations = AtMost(@ + 1),
            !.total_freed = AtMost(@ + n)]

Arrive ==
  /\ events < MaxEvents
  /\ events' = events + 1
  /\ UNCHANGED <<older, newer, reset>>

Drop(n) ==
  /\ droppedEvents' = AtMost(droppedEvents + n)
  /\ UNCHANGED stats

Count(s, c) ==
  /\ stats' = [x \in DOMAIN stats \cup {s} |-> IF x = s THEN c ELSE stats[x]]
  /\ UNCHANGED droppedEvents

\* ingest: a size that i64 cannot hold makes the event a dropped one.
IngestAllocation(s, n) ==
  /\ Arrive
  /\ IF n > MaxSigned THEN Drop(1) ELSE Count(s, OnAllocation(StatsOf(s), n))

IngestDeallocation(s, n) ==
  /\ Arrive
  /\ IF n > MaxSigned THEN Drop(1) ELSE Count(s, OnDeallocation(StatsOf(s), n))

IngestDropped(n) == Arrive /\ Drop(n)

Reset ==
  /\ stats' = <<>>
  /\ droppedEvents' = 0
  /\ reset' = [reset EXCEPT !.since = TRUE]
  /\ UNCHANGED <<older, newer, events>>

\* The orders in which a snapshot may list the stacks: most current bytes
\* first, equal ones as the hash map yields them.
Orders ==
  {o \in [1 .. Cardinality(DOMAIN stats) -> DOMAIN stats] :
     \A i, j \in DOMAIN o :
       i < j => /\ o[i] # o[j]
                /\ stats[o[i]].current_bytes >= stats[o[j]].current_bytes}

\* The client takes a snapshot and keeps the one before it.
Snapshot(o) ==
  /\ newer' = [records |-> [i \in DOMAIN o |->
                              [stack_id |-> o[i], stats |-> stats[o[i]]]],
               dropped_events |-> droppedEvents]
  /\ older' = newer
  /\ reset' = [between |-> reset.since, since |-> FALSE]
  /\ UNCHANGED <<stats, droppedEvents, events>>

Next ==
  \/ \E s \in Stacks, n \in Sizes : IngestAllocation(s, n) \/ IngestDeallocation(s, n)
  \/ \E n \in 1 .. MaxUnsigned : IngestDropped(n)
  \/ Reset
  \/ \E o \in Orders : Snapshot(o)

Spec == Init /\ [][Next]_vars

-----------------------------------------------------------------------------
(* SnapshotDelta::from_snapshots                                            *)

SameStack(snapshot, r) ==
  {b \in {snapshot.records[i] : i \in DOMAIN snapshot.records} :
     b.stack_id = r.stack_id}

Minus(c, b) ==
  [allocations |-> AtLeastZero(c.allocations - b.allocations),
   current_bytes |-> Wrapped(c.current_bytes - b.current_bytes),
   deallocations |-> AtLeastZero(c.deallocations - b.deallocations),
   total_allocated |-> AtLeastZero(c.total_allocated - b.total_allocated),
   total_freed |-> AtLeastZero(c.total_freed - b.total_freed)]

\* Plausible bug: a record is compared with the one in its place.
DeltaByPlace(new, old) ==
  [records |-> [i \in DOMAIN new.records |->
                  IF i \in DOMAIN old.records
                    THEN [new.records[i] EXCEPT !.stats = Minus(@, old.records[i].stats)]
                    ELSE new.records[i]],
   dropped_events |-> Clamped(new.dropped_events - old.dropped_events)]

\* A record of the newer snapshot is compared with that of the older one for
\* the same stack.  A stack that only the older one has is not mentioned.
Delta(new, old) ==
  [records |-> [i \in DOMAIN new.records |->
                  LET r == new.records[i] IN
                  IF SameStack(old, r) = {} THEN r
                  ELSE LET b == CHOOSE x \in SameStack(old, r) : TRUE
                       IN [r EXCEPT !.stats = Minus(@, b.stats)]],
   dropped_events |-> Clamped(new.dropped_events - old.dropped_events)]

-----------------------------------------------------------------------------
IsSnapshot(x) ==
  /\ x.dropped_events \in 0 .. MaxUnsigned
  /\ \A i \in 1 .. Len(x.records) :
       x.records[i].stack_id \in Stacks /\ x.records[i].stats \in Counters

\* Every counter keeps to its width.
TypeOK ==
  /\ DOMAIN stats \subseteq Stacks
  /\ \A s \in DOMAIN stats : stats[s] \in Counters
  /\ droppedEvents \in 0 .. MaxUnsigned
  /\ IsSnapshot(older) /\ IsSnapshot(newer)
  /\ events \in 0 .. MaxEvents
  /\ reset \in [between : BOOLEAN, since : BOOLEAN]

\* a + d = b
Adds(a, d, b) ==
  /\ a.allocations + d.allocations = b.allocations
  /\ a.deallocations + d.deallocations = b.deallocations
  /\ a.total_allocated + d.total_allocated = b.total_allocated
  /\ a.total_freed + d.total_freed = b.total_freed
  /\ Wrapped(a.current_bytes + d.current_bytes) = b.current_bytes

\* Unless the statistics were cleared in between, the older snapshot and the
\* delta make up the newer one: no stack is lost, whatever the order in which
\* the two list them, and saturation never makes a counter fall, so that
\* saturating_sub hides nothing.  Bytes agree modulo 2^w
\* (SnapshotDelta::from_snapshots, Aggregator::ingest).
DeltaExact ==
  LET delta == Delta(newer, older) IN
  ~reset.between =>
    /\ \A j \in DOMAIN older.records :
         \E i \in DOMAIN delta.records :
           /\ delta.records[i].stack_id = older.records[j].stack_id
           /\ Adds(older.records[j].stats, delta.records[i].stats,
                   newer.records[i].stats)
    /\ \A i \in DOMAIN newer.records :
         (\A j \in DOMAIN older.records :
            older.records[j].stack_id # newer.records[i].stack_id) =>
           delta.records[i] = newer.records[i]
    /\ \/ older.dropped_events + delta.dropped_events = newer.dropped_events
       \/ newer.dropped_events - older.dropped_events > MaxSigned
=============================================================================
