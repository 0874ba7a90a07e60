--------------------------- MODULE TracerLifecycle ---------------------------
(****************************************************************************)
(* The life of one tracer (src/state.rs): the handles that share its inner  *)
(* state through an Arc, the drain worker's wait loop, the flush request    *)
(* that wakes it, and the shutdown the last handle is meant to trigger.     *)
(*                                                                          *)
(* What a drain moves is the subject of EventPipeline; here a drain is one  *)
(* step.  The states start where with_config returns: one handle exists,    *)
(* the worker has been spawned and its JoinHandle stored.  The worker may   *)
(* already have looped by then, but before a handle exists nothing it reads *)
(* can change, so starting it at the top of its loop loses no behaviour.    *)
(* A poisoned lock and a panicking worker are not modelled.                 *)
(****************************************************************************)
EXTENDS Naturals, FiniteSets

CONSTANTS
  Handles,  \* the Tracer values that may ever exist (clones included)
  First,    \* the handle with_config returns
  Worker,   \* the "tracemalloc-drain" thread, as an owner and a lock holder
  NoOne     \* the holder of a free lock

ASSUME LifecycleAssumption ==
  /\ IsFiniteSet(Handles)
  /\ First \in Handles
  /\ Worker \notin Handles
  /\ NoOne \notin Handles \cup {Worker}

VARIABLES
  owners,        \* who holds a strong reference to TracerInner
  hpc,           \* where the thread using each handle is
  wpc,           \* where the worker is
  stopFlag,      \* TracerInner.stop_flag
  pendingFlush,  \* TracerInner.pending_flush
  syncLock       \* the holder of WorkerSync.lock

vars == <<owners, hpc, wpc, stopFlag, pendingFlush, syncLock>>

HandlePC == {"none", "live", "signal", "swap", "lock", "unlock", "notify",
             "join", "release", "freeing", "gone"}

WorkerPC == {"top", "drain", "check", "lock", "held", "poll", "park",
             "parked", "relock", "final", "release", "exited"}

\* The program points at which the worker's guard on WorkerSync.lock is live.
WorkerCritical == {"held", "poll", "park"}

\* Arc::strong_count(&self.inner)
StrongCount == Cardinality(owners)

Init ==
  /\ owners = {First, Worker}
  /\ hpc = [h \in Handles |-> IF h = First THEN "live" ELSE "none"]
  /\ wpc = "top"
  /\ stopFlag = FALSE
  /\ pendingFlush = FALSE
  /\ syncLock = NoOne

HandleAt(h, from, to) ==
  /\ hpc[h] = from
  /\ hpc' = [hpc EXCEPT ![h] = to]

WorkerAt(from, to) ==
  /\ wpc = from
  /\ wpc' = to

-----------------------------------------------------------------------------
(* Handles: clone, flush requests, drop.                                    *)

\* Cloning a live handle shares the inner state with a new one.
Clone(h, g) ==
  /\ hpc[h] = "live"
  /\ HandleAt(g, "none", "live")
  /\ owners' = owners \cup {g}
  /\ UNCHANGED <<wpc, stopFlag, pendingFlush, syncLock>>

\* notify_flush, first half: only the call that finds the flag clear signals.
RequestFlush(h) ==
  /\ HandleAt(h, "live", IF pendingFlush THEN "live" ELSE "signal")
  /\ pendingFlush' = TRUE
  /\ UNCHANGED <<owners, wpc, stopFlag, syncLock>>

\* A condvar wakes a thread that waits on it now; a thread that has yet to
\* wait misses the signal.
Wake == wpc' = IF wpc = "parked" THEN "relock" ELSE wpc

\* notify_flush, second half: notify_one, without WorkerSync.lock.
NotifyOne(h) ==
  /\ HandleAt(h, "signal", "live")
  /\ Wake
  /\ UNCHANGED <<owners, stopFlag, pendingFlush, syncLock>>

\* Plausible bug: every handle counts as if no clone were left.
DropAnyClone(h) ==
  /\ HandleAt(h, "live", IF StrongCount <= 3 THEN "swap" ELSE "release")
  /\ UNCHANGED <<owners, wpc, stopFlag, pendingFlush, syncLock>>

\* Tracer::drop reads the count while this handle still holds its own
\* reference: 2 means this handle and the worker are all that is left.
Drop(h) ==
  /\ HandleAt(h, "live", IF StrongCount = 2 THEN "swap" ELSE "release")
  /\ UNCHANGED <<owners, wpc, stopFlag, pendingFlush, syncLock>>

\* Where request_shutdown returns to: the rest of Tracer::drop, or the end of
\* TracerInner::drop when the inner state is already being freed.
AfterShutdown(h) == IF h \in owners THEN "release" ELSE "gone"

\* request_shutdown: the first caller to set stop_flag goes on, others return.
SwapStop(h, from) ==
  /\ HandleAt(h, from, IF stopFlag THEN AfterShutdown(h) ELSE "lock")
  /\ stopFlag' = TRUE
  /\ UNCHANGED <<owners, wpc, pendingFlush, syncLock>>

LockSync(h) ==
  /\ syncLock = NoOne
  /\ HandleAt(h, "lock", "unlock")
  /\ syncLock' = h
  /\ UNCHANGED <<owners, wpc, stopFlag, pendingFlush>>

UnlockSync(h) ==
  /\ HandleAt(h, "unlock", "notify")
  /\ syncLock' = NoOne
  /\ UNCHANGED <<owners, wpc, stopFlag, pendingFlush>>

\* Plausible bug: the shutdown signal is never sent.
SkipNotifyAll(h) ==
  /\ HandleAt(h, "notify", "join")
  /\ UNCHANGED <<owners, wpc, stopFlag, pendingFlush, syncLock>>

NotifyAll(h) ==
  /\ HandleAt(h, "notify", "join")
  /\ Wake
  /\ UNCHANGED <<owners, stopFlag, pendingFlush, syncLock>>

\* Plausible bug: the worker is detached instead of joined.
DetachWorker(h) ==
  /\ HandleAt(h, "join", AfterShutdown(h))
  /\ UNCHANGED <<owners, wpc, stopFlag, pendingFlush, syncLock>>

\* join returns once the worker thread has ended.
Join(h) ==
  /\ wpc = "exited"
  /\ HandleAt(h, "join", AfterShutdown(h))
  /\ UNCHANGED <<owners, wpc, stopFlag, pendingFlush, syncLock>>

\* The field drop that ends Tracer::drop.  The last reference frees the inner
\* state, which runs TracerInner::drop on this thread.
Release(h) ==
  /\ HandleAt(h, "release", IF owners = {h} THEN "freeing" ELSE "gone")
  /\ owners' = owners \ {h}
  /\ UNCHANGED <<wpc, stopFlag, pendingFlush, syncLock>>

-----------------------------------------------------------------------------
(* The drain worker: run_worker.                                            *)

\* A stop_flag check outside the lock: before the drain and after it.
CheckStop(from, to) ==
  /\ WorkerAt(from, IF stopFlag THEN "final" ELSE to)
  /\ UNCHANGED <<owners, hpc, stopFlag, pendingFlush, syncLock>>

\* drain_buffers inside the loop.
Drain ==
  /\ WorkerAt("drain", "check")
  /\ UNCHANGED <<owners, hpc, stopFlag, pendingFlush, syncLock>>

WorkerLock ==
  /\ syncLock = NoOne
  /\ WorkerAt("lock", "held")
  /\ syncLock' = Worker
  /\ UNCHANGED <<owners, hpc, stopFlag, pendingFlush>>

\* Plausible bug: no stop_flag check once the lock is held.
NoCheckLocked ==
  /\ WorkerAt("held", "poll")
  /\ UNCHANGED <<owners, hpc, stopFlag, pendingFlush, syncLock>>

\* The stop_flag check under the lock; leaving the loop drops the guard.
CheckLocked ==
  /\ WorkerAt("held", IF stopFlag THEN "final" ELSE "poll")
  /\ syncLock' = IF stopFlag THEN NoOne ELSE syncLock
  /\ UNCHANGED <<owners, hpc, stopFlag, pendingFlush>>

\* Plausible bug: the guard is not dropped before looping.
PollKeepsLock ==
  /\ WorkerAt("poll", IF pendingFlush THEN "top" ELSE "park")
  /\ pendingFlush' = FALSE
  /\ UNCHANGED <<owners, hpc, stopFlag, syncLock>>

\* pending_flush.swap(false): a pending request skips the wait and, the guard
\* dropped, loops straight back to another drain.
Poll ==
  /\ WorkerAt("poll", IF pendingFlush THEN "top" ELSE "park")
  /\ syncLock' = IF pendingFlush THEN NoOne ELSE syncLock
  /\ pendingFlush' = FALSE
  /\ UNCHANGED <<owners, hpc, stopFlag>>

\* wait_timeout releases the lock and starts to wait in one step.
Park ==
  /\ WorkerAt("park", "parked")
  /\ syncLock' = NoOne
  /\ UNCHANGED <<owners, hpc, stopFlag, pendingFlush>>

\* Plausible bug: a wait without a timeout.
NoTimeout == FALSE /\ UNCHANGED vars

\* drain_interval elapses (or the wait ends spuriously).
Timeout ==
  /\ WorkerAt("parked", "relock")
  /\ UNCHANGED <<owners, hpc, stopFlag, pendingFlush, syncLock>>

\* wait_timeout takes the lock back and the guard is dropped at once.
Relock ==
  /\ syncLock = NoOne
  /\ WorkerAt("relock", "top")
  /\ UNCHANGED <<owners, hpc, stopFlag, pendingFlush, syncLock>>

\* The drain_buffers call after the loop.
FinalDrain ==
  /\ WorkerAt("final", "release")
  /\ UNCHANGED <<owners, hpc, stopFlag, pendingFlush, syncLock>>

\* The thread's closure ends and with it the worker's reference.
WorkerExit ==
  /\ WorkerAt("release", "exited")
  /\ owners' = owners \ {Worker}
  /\ UNCHANGED <<hpc, stopFlag, pendingFlush, syncLock>>

-----------------------------------------------------------------------------
\* What a client decides to do with a handle.
ClientStep(h) ==
  \/ \E g \in Handles : Clone(h, g)
  \/ RequestFlush(h)
  \/ Drop(h)

\* What follows from a decision already taken.
HandleStep(h) ==
  \/ NotifyOne(h)
  \/ SwapStop(h, "swap")
  \/ LockSync(h)
  \/ UnlockSync(h)
  \/ NotifyAll(h)
  \/ Join(h)
  \/ Release(h)
  \/ SwapStop(h, "freeing")

WorkerStep ==
  \/ CheckStop("top", "drain")
  \/ Drain
  \/ CheckStop("check", "lock")
  \/ WorkerLock
  \/ CheckLocked
  \/ Poll
  \/ Park
  \/ Relock
  \/ FinalDrain
  \/ WorkerExit

\* Every handle is gone and the worker has ended: nothing is left to run.
Terminated ==
  /\ \A h \in Handles : hpc[h] \in {"none", "gone"}
  /\ wpc = "exited"
  /\ UNCHANGED vars

Next ==
  \/ \E h \in Handles : ClientStep(h) \/ HandleStep(h)
  \/ WorkerStep
  \/ Timeout
  \/ Terminated

Spec == Init /\ [][Next]_vars

\* Threads are scheduled; clients owe nothing.  Nothing is said of the timer.
FairSpec ==
  /\ Spec
  /\ WF_vars(WorkerStep)
  /\ \A h \in Handles : WF_vars(HandleStep(h))

\* Clients that never drop two handles at once: no handle reads the count
\* while another has read it and not yet given up its reference.
SerialDrops ==
  \A h, g \in Handles :
    (hpc[h] = "live" /\ hpc'[h] \in {"swap", "release"})
      => hpc[g] \notin {"swap", "release"}

SerialSpec == Init /\ [][Next /\ SerialDrops]_vars

-----------------------------------------------------------------------------
(* Properties.                                                              *)

\* Every variable has its type, and WorkerSync.lock is held exactly by the
\* thread whose program point is inside a critical section.
TypeOK ==
  /\ owners \subseteq Handles \cup {Worker}
  /\ hpc \in [Handles -> HandlePC]
  /\ wpc \in WorkerPC
  /\ stopFlag \in BOOLEAN
  /\ pendingFlush \in BOOLEAN
  /\ syncLock \in Handles \cup {Worker, NoOne}
  /\ syncLock = Worker <=> wpc \in WorkerCritical
  /\ \A h \in Handles : syncLock = h <=> hpc[h] = "unlock"

\* The worker is only told to stop once no handle is left that could still
\* record: the count that Tracer::drop reads cannot be outdated by a clone.
StopMeansUnused ==
  stopFlag => \A h \in Handles : hpc[h] \notin {"live", "signal"}

\* After the shutdown signal the worker is not asleep, and so join does not
\* have to wait for drain_interval: taking WorkerSync.lock between the store
\* to stop_flag and the signal closes the gap before the wait.
NoLostShutdown ==
  \A h \in Handles : hpc[h] = "join" => wpc # "parked"

\* The worker never drops the last reference.  If it did, TracerInner::drop
\* would run on the worker, with no thread left to join it.
WorkerNeverLastOwner ==
  wpc = "release" => owners # {Worker}

\* Once every handle has been dropped the worker has been told to stop.
LastDropStopsWorker ==
  (\A h \in Handles : hpc[h] \in {"none", "gone"}) => stopFlag

\* A flush request is followed by a drain, even when its signal was sent
\* before the worker began to wait, provided that drain_interval is finite.
FlushServed ==
  WF_vars(Timeout) => (pendingFlush ~> wpc \in {"drain", "release", "exited"})

\* A handle that has begun the shutdown gets out of it, without any help of
\* the timer.
ShutdownCompletes ==
  \A h \in Handles : hpc[h] = "lock" ~> hpc[h] = "gone"
=============================================================================
