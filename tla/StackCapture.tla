----------------------------- MODULE StackCapture -----------------------------
(****************************************************************************)
(* Stack ids and thread-local state.  A tracer interns the stacks it        *)
(* captures in its StackTable (src/stack.rs); each thread remembers the ids *)
(* it was given (src/stack_capture.rs) and the buffer it records into       *)
(* (src/state.rs).  Both memories are keyed by the address of the tracer's  *)
(* inner state, outlive the tracer, and are never told that it is gone.     *)
(*                                                                          *)
(* A stack stands for the frames that are left once capture_and_intern has  *)
(* skipped, truncated and defaulted them.  What the events say is the       *)
(* subject of AllocationTracking, what happens to them afterwards of        *)
(* EventPipeline.                                                           *)
(****************************************************************************)
EXTENDS Integers, FiniteSets

CONSTANTS
  Threads,    \* threads that record
  Tracers,    \* every tracer the program ever makes
  Places,     \* addresses where the inner state of a tracer may live
  Stacks,     \* lists of frames
  MaxId,      \* the largest StackId: u64::MAX in the code
  Named,      \* ids that a program gives to insert_with_id
  CacheLimit, \* STACK_CACHE_LIMIT
  None        \* no tracer, no place, no stack

ASSUME CaptureAssumption ==
  /\ MaxId \in Nat \ {0}
  /\ Named \subseteq 1..MaxId
  /\ CacheLimit \in Nat \ {0}
  /\ None \notin Tracers \cup Places \cup Stacks

VARIABLES
  alive,      \* tracers that exist
  home,       \* where a tracer lives, or lived
  byFrames,   \* StackTableInner.by_frames of each tracer; 0 is "no id"
  byId,       \* StackTableInner.by_id of each tracer
  nextId,     \* StackTableInner.next_id of each tracer
  cache,      \* STACK_ID_CACHES: each thread's ids, by place
  local,      \* THREAD_BUFFERS: the tracer each thread registered its buffer with, by place
  pc,         \* where each thread is
  call,       \* what it records
  reborn,     \* history: tracers made where another one had been
  captured,   \* history: what capture_and_intern has returned
  strayed,    \* history: tracers of which an event went into another's buffer
  rebound,    \* history: ids that insert_with_id has given to other frames
  moved       \* history: stacks that insert_with_id has given another id

table == <<byFrames, byId, nextId>>
history == <<reborn, captured, strayed, rebound, moved>>
vars == <<alive, home, table, cache, local, pc, call, history>>

Ids == 1..MaxId

ThreadPC == {"idle", "intern", "remember", "buffer"}

Calls == [tracer : Tracers \cup {None}, frames : Stacks \cup {None}, id : 0..MaxId]

\* A call of which nothing matters any more but whose it is.
Only(r) == [tracer |-> r, frames |-> None, id |-> 0]

Resting == Only(None)

Init ==
  /\ alive = {}
  /\ home = [r \in Tracers |-> None]
  /\ byFrames = [r \in Tracers |-> [f \in Stacks |-> 0]]
  /\ byId = [r \in Tracers |-> [i \in Ids |-> None]]
  /\ nextId = [r \in Tracers |-> 1]
  /\ cache = [t \in Threads |-> [p \in Places |-> [f \in Stacks |-> 0]]]
  /\ local = [t \in Threads |-> [p \in Places |-> None]]
  /\ pc = [t \in Threads |-> "idle"]
  /\ call = [t \in Threads |-> Resting]
  /\ reborn = {}
  /\ captured = {}
  /\ strayed = {}
  /\ rebound = [r \in Tracers |-> {}]
  /\ moved = [r \in Tracers |-> {}]

At(t, from, to) ==
  /\ pc[t] = from
  /\ pc' = [pc EXCEPT ![t] = to]

-----------------------------------------------------------------------------
(* Tracers come and go.                                                     *)

\* Tracer::with_config: the allocator may return a place it has had back.
Create(r, p) ==
  /\ home[r] = None
  /\ \A q \in alive : home[q] # p
  /\ alive' = alive \cup {r}
  /\ home' = [home EXCEPT ![r] = p]
  /\ reborn' = IF \E q \in Tracers : home[q] = p THEN reborn \cup {r} ELSE reborn
  /\ UNCHANGED <<table, cache, local, pc, call, captured, strayed, rebound,
                 moved>>

\* The last reference goes, and the table with it: nobody can be inside one
\* of its methods.  The history forgets what nobody can resolve any more.
Free(r) ==
  /\ r \in alive
  /\ \A t \in Threads : call[t].tracer # r
  /\ alive' = alive \ {r}
  /\ byFrames' = [byFrames EXCEPT ![r] = [f \in Stacks |-> 0]]
  /\ byId' = [byId EXCEPT ![r] = [i \in Ids |-> None]]
  /\ nextId' = [nextId EXCEPT ![r] = 1]
  /\ captured' = {c \in captured : c.tracer # r}
  /\ rebound' = [rebound EXCEPT ![r] = {}]
  /\ moved' = [moved EXCEPT ![r] = {}]
  /\ UNCHANGED <<home, cache, local, pc, call, reborn, strayed>>

\* A thread ends, and its thread-locals with it; another takes its name.
Exit(t) ==
  /\ pc[t] = "idle"
  /\ cache' = [cache EXCEPT ![t] = [p \in Places |-> [f \in Stacks |-> 0]]]
  /\ local' = [local EXCEPT ![t] = [p \in Places |-> None]]
  /\ UNCHANGED <<alive, home, table, pc, call, history>>

-----------------------------------------------------------------------------
(* The table.                                                               *)

\* Plausible bug: next_id is not saturating.
Unsaturated(n) == n

Saturated(n) == IF n > MaxId THEN MaxId ELSE n

\* Plausible bug: next_id does not step past the id that was given.
InsertKeepsNext(r, i, f) ==
  /\ r \in alive
  /\ byFrames' = [byFrames EXCEPT ![r][f] = i]
  /\ byId' = [byId EXCEPT ![r][i] = f]
  /\ rebound' = IF byId[r][i] \notin {None, f}
                  THEN [rebound EXCEPT ![r] = @ \cup {i}] ELSE rebound
  /\ moved' = IF byFrames[r][f] \notin {0, i}
                THEN [moved EXCEPT ![r] = @ \cup {f}] ELSE moved
  /\ UNCHANGED <<alive, home, nextId, cache, local, pc, call, reborn, captured,
                 strayed>>

\* StackTable::insert_with_id, by anyone who has asked for stack_table().
InsertWithId(r, i, f) ==
  /\ r \in alive
  /\ byFrames' = [byFrames EXCEPT ![r][f] = i]
  /\ byId' = [byId EXCEPT ![r][i] = f]
  /\ nextId' = IF nextId[r] <= i THEN [nextId EXCEPT ![r] = Saturated(i + 1)]
               ELSE nextId
  /\ rebound' = IF byId[r][i] \notin {None, f}
                  THEN [rebound EXCEPT ![r] = @ \cup {i}] ELSE rebound
  /\ moved' = IF byFrames[r][f] \notin {0, i}
                THEN [moved EXCEPT ![r] = @ \cup {f}] ELSE moved
  /\ UNCHANGED <<alive, home, cache, local, pc, call, reborn, captured, strayed>>

-----------------------------------------------------------------------------
(* A thread records an event.                                               *)

\* A deallocation, or record_event: the stack id is known.
RecordKnown(t, r) ==
  /\ r \in alive
  /\ At(t, "idle", "buffer")
  /\ call' = [call EXCEPT ![t] = Only(r)]
  /\ UNCHANGED <<alive, home, table, cache, local, history>>

Captured(r, f, i) ==
  captured' = captured \cup {[tracer |-> r, frames |-> f, id |-> i]}

\* capture_and_intern, for an allocation with these frames: the thread's
\* cache has them, and no lock is taken ...
Hit(t, r, f) ==
  LET i == cache[t][home[r]][f] IN
  /\ r \in alive
  /\ i # 0
  /\ At(t, "idle", "buffer")
  /\ call' = [call EXCEPT ![t] = Only(r)]
  /\ Captured(r, f, i)
  /\ UNCHANGED <<alive, home, table, cache, local, reborn, strayed, rebound, moved>>

\* ... or it does not.
Miss(t, r, f) ==
  /\ r \in alive
  /\ cache[t][home[r]][f] = 0
  /\ At(t, "idle", "intern")
  /\ call' = [call EXCEPT ![t] = [tracer |-> r, frames |-> f, id |-> 0]]
  /\ UNCHANGED <<alive, home, table, cache, local, history>>

\* Plausible bug: intern takes a new id for frames the table knows.
InternAlways(t) ==
  LET r == call[t].tracer
      f == call[t].frames
  IN
  /\ At(t, "intern", "remember")
  /\ call' = [call EXCEPT ![t].id = nextId[r]]
  /\ byFrames' = [byFrames EXCEPT ![r][f] = nextId[r]]
  /\ byId' = [byId EXCEPT ![r][nextId[r]] = f]
  /\ nextId' = [nextId EXCEPT ![r] = Saturated(@ + 1)]
  /\ UNCHANGED <<alive, home, cache, local, history>>

\* StackTable::intern, under the table's lock.
Intern(t) ==
  LET r == call[t].tracer
      f == call[t].frames
  IN
  /\ At(t, "intern", "remember")
  /\ IF byFrames[r][f] # 0
       THEN /\ call' = [call EXCEPT ![t].id = byFrames[r][f]]
            /\ UNCHANGED table
       ELSE /\ call' = [call EXCEPT ![t].id = nextId[r]]
            /\ byFrames' = [byFrames EXCEPT ![r][f] = nextId[r]]
            /\ byId' = [byId EXCEPT ![r][nextId[r]] = f]
            /\ nextId' = [nextId EXCEPT ![r] = Saturated(@ + 1)]
  /\ UNCHANGED <<alive, home, cache, local, history>>

\* What is left of a full cache when an entry is to be inserted.
Room(ids) ==
  IF Cardinality({f \in Stacks : ids[f] # 0}) >= CacheLimit
    THEN [f \in Stacks |-> 0] ELSE ids

\* StackIdCache::insert; capture_and_intern returns.
Remember(t) ==
  LET p == home[call[t].tracer] IN
  /\ At(t, "remember", "buffer")
  /\ cache' = [cache EXCEPT ![t][p] =
                 [Room(cache[t][p]) EXCEPT ![call[t].frames] = call[t].id]]
  /\ call' = [call EXCEPT ![t] = Only(@.tracer)]
  /\ Captured(call[t].tracer, call[t].frames, call[t].id)
  /\ UNCHANGED <<alive, home, table, local, reborn, strayed, rebound, moved>>

\* Plausible bug: a thread has one buffer, whatever the tracer.
OneBuffer(t) ==
  LET r == call[t].tracer
      known == {p \in Places : local[t][p] # None}
      p == IF known = {} THEN home[r] ELSE CHOOSE q \in known : TRUE
      b == IF local[t][p] = None THEN r ELSE local[t][p]
  IN
  /\ At(t, "buffer", "idle")
  /\ local' = [local EXCEPT ![t][p] = b]
  /\ strayed' = IF b = r THEN strayed ELSE strayed \cup {r}
  /\ call' = [call EXCEPT ![t] = Resting]
  /\ UNCHANGED <<alive, home, table, cache, reborn, captured, rebound, moved>>

\* Tracer::thread_buffer: the buffer found at this place, or a new one, which
\* is registered with the tracer; the event goes in there.
Deliver(t) ==
  LET r == call[t].tracer
      p == home[r]
      b == IF local[t][p] = None THEN r ELSE local[t][p]
  IN
  /\ At(t, "buffer", "idle")
  /\ local' = [local EXCEPT ![t][p] = b]
  /\ strayed' = IF b = r THEN strayed ELSE strayed \cup {r}
  /\ call' = [call EXCEPT ![t] = Resting]
  /\ UNCHANGED <<alive, home, table, cache, reborn, captured, rebound, moved>>

-----------------------------------------------------------------------------
TracerStep(r) ==
  \/ \E p \in Places : Create(r, p)
  \/ Free(r)
  \/ \E i \in Named, f \in Stacks : InsertWithId(r, i, f)

ThreadStep(t) ==
  \/ \E r \in Tracers, f \in Stacks : Hit(t, r, f) \/ Miss(t, r, f)
  \/ \E r \in Tracers : RecordKnown(t, r)
  \/ Intern(t)
  \/ Remember(t)
  \/ Deliver(t)
  \/ Exit(t)

Next ==
  \/ \E r \in Tracers : TracerStep(r)
  \/ \E t \in Threads : ThreadStep(t)

Spec == Init /\ [][Next]_vars

-----------------------------------------------------------------------------
(* Properties.                                                              *)

TypeOK ==
  /\ alive \subseteq Tracers
  /\ home \in [Tracers -> Places \cup {None}]
  /\ byFrames \in [Tracers -> [Stacks -> 0..MaxId]]
  /\ byId \in [Tracers -> [Ids -> Stacks \cup {None}]]
  /\ nextId \in [Tracers -> Ids]
  /\ cache \in [Threads -> [Places -> [Stacks -> 0..MaxId]]]
  /\ local \in [Threads -> [Places -> Tracers \cup {None}]]
  /\ pc \in [Threads -> ThreadPC]
  /\ call \in [Threads -> Calls]
  /\ reborn \subseteq Tracers
  /\ captured \subseteq [tracer : Tracers, frames : Stacks, id : Ids]
  /\ strayed \subseteq Tracers
  /\ rebound \in [Tracers -> SUBSET Ids]
  /\ moved \in [Tracers -> SUBSET Stacks]

\* The id that capture_and_intern returns resolves to the frames that were
\* captured, as long as the tracer exists: not for a tracer made where another had been, not for
\* an id that insert_with_id has rebound, nor for the id at which next_id
\* saturates.
Attribution ==
  \A c \in captured :
    \/ c.tracer \in reborn
    \/ c.id \in rebound[c.tracer] \cup {MaxId}
    \/ byId[c.tracer][c.id] = c.frames

\* All threads are given one id for a stack, from their caches or the table,
\* unless insert_with_id has given the stack another one meanwhile.
StableId ==
  \A c, d \in captured :
    \/ c.tracer # d.tracer \/ c.frames # d.frames
    \/ c.tracer \in reborn \/ c.frames \in moved[c.tracer]
    \/ c.id = d.id

\* An event goes into a buffer that its own tracer drains, if that tracer was
\* made where none had been.
DeliveredIfFresh == strayed \subseteq reborn

\* "Feed a pre-built event directly into the per-thread buffer.  A background
\* worker will eventually drain it into the aggregator": an event goes into a
\* buffer that its own tracer drains.
Delivered == strayed = {}
=============================================================================
