------------------------ MODULE TracerLifecycleProofs ------------------------
(****************************************************************************)
(* The safety properties of TracerLifecycle for every set of handles.       *)
(*                                                                          *)
(* They rest on one inductive invariant, IInv: program counters determine   *)
(* who owns the inner state; a handle that has read a count of two is the   *)
(* only one left and stays the only one; only a stop request lets the       *)
(* worker leave its loop; and whoever requested the stop owns the inner     *)
(* state until the worker has ended.                                        *)
(****************************************************************************)
EXTENDS TracerLifecycle, FiniteSetTheorems, TLAPS

\* The program points between a handle's creation and its field drop.
Owning == {"live", "signal", "swap", "lock", "unlock", "notify", "join",
           "release"}

\* The program points of the caller that went through with the shutdown.
Requesting == {"lock", "unlock", "notify", "join"}

OwnersMatch ==
  /\ \A h \in Handles : h \in owners <=> hpc[h] \in Owning
  /\ Worker \in owners <=> wpc # "exited"

\* A handle that has read a count of two, or requests the stop, is alone.
LastIsAlone ==
  \A h \in Handles :
    hpc[h] \in Requesting \cup {"swap"} => owners \subseteq {h, Worker}

StopRequested ==
  /\ \A h \in Handles : hpc[h] \in Requesting \cup {"freeing"} => stopFlag
  /\ wpc \in {"final", "release", "exited"} => stopFlag
  /\ stopFlag /\ wpc # "exited" => \E h \in Handles : hpc[h] \in Requesting

\* Once the requester has had the lock, the worker cannot begin to wait.
NoWaitAfterLock ==
  \A h \in Handles :
    hpc[h] \in {"unlock", "notify", "join"} => wpc \notin {"poll", "park"}

IInv ==
  /\ TypeOK
  /\ OwnersMatch
  /\ LastIsAlone
  /\ StopRequested
  /\ StopMeansUnused
  /\ NoWaitAfterLock
  /\ NoLostShutdown

-----------------------------------------------------------------------------
(* Counting owners.                                                         *)

\* What Arc::strong_count() == 2 tells a caller who knows two of the owners.
LEMMA CountTwo ==
  ASSUME NEW S, IsFiniteSet(S), NEW a \in S, NEW b \in S, a # b
  PROVE  Cardinality(S) = 2 <=> S = {a, b}
<1> DEFINE R == (S \ {a}) \ {b}
<1>1. /\ IsFiniteSet(S \ {a})
      /\ Cardinality(S \ {a}) = Cardinality(S) - 1
  BY FS_RemoveElement
<1>2. /\ IsFiniteSet(R)
      /\ Cardinality(R) = Cardinality(S \ {a}) - 1
  BY <1>1, FS_RemoveElement
<1>3. Cardinality(S) \in Nat /\ Cardinality(R) \in Nat
  BY <1>2, FS_CardinalityType
<1>4. Cardinality(S) = 2 <=> Cardinality(R) = 0
  BY <1>1, <1>2, <1>3, FS_CardinalityType
<1>5. Cardinality(R) = 0 <=> R = {}
  BY <1>2, FS_EmptySet
<1>6. R = {} <=> S = {a, b}
  OBVIOUS
<1> QED
  BY <1>4, <1>5, <1>6

LEMMA OwnersFinite ==
  ASSUME TypeOK
  PROVE  IsFiniteSet(owners)
<1>1. IsFiniteSet(Handles \cup {Worker})
  BY LifecycleAssumption, FS_AddElement
<1> QED
  BY <1>1, FS_Subset DEF TypeOK

\* A handle whose drop reads two shares the inner state with the worker only.
LEMMA DropReadsTwo ==
  ASSUME IInv, NEW h \in Handles, hpc[h] = "live"
  PROVE  StrongCount = 2 <=> owners = {h, Worker}
<1>1. h \in owners
  BY DEF IInv, OwnersMatch, Owning
<1>2. Worker \in owners
  BY DEF IInv, OwnersMatch, StopRequested, StopMeansUnused
<1>3. h # Worker
  BY LifecycleAssumption
<1>4. IsFiniteSet(owners)
  BY OwnersFinite DEF IInv
<1> QED
  BY <1>1, <1>2, <1>3, <1>4, CountTwo DEF StrongCount

-----------------------------------------------------------------------------
(* IInv is inductive.                                                       *)

LEMMA InitIInv == Init => IInv
<1> SUFFICES ASSUME Init PROVE IInv
  OBVIOUS
<1>1. TypeOK
  BY LifecycleAssumption DEF Init, TypeOK, HandlePC, WorkerPC, WorkerCritical
<1> QED
  BY <1>1, LifecycleAssumption
  DEF Init, IInv, OwnersMatch, Owning, LastIsAlone, Requesting, StopRequested,
      StopMeansUnused, NoWaitAfterLock, NoLostShutdown

\* Steps of the thread that uses a handle.
LEMMA HandleStepIInv ==
  ASSUME IInv, NEW h \in Handles, ClientStep(h) \/ HandleStep(h)
  PROVE  IInv'
<1> USE LifecycleAssumption
    DEF IInv, TypeOK, HandlePC, WorkerPC, WorkerCritical, OwnersMatch, Owning,
        LastIsAlone, Requesting, StopRequested, StopMeansUnused,
        NoWaitAfterLock, NoLostShutdown, HandleAt
<1>1. ASSUME NEW g \in Handles, Clone(h, g) PROVE IInv'
  BY <1>1 DEF Clone
<1>2. CASE RequestFlush(h)
  BY <1>2 DEF RequestFlush
<1>3. CASE Drop(h)
  <2>1. StrongCount = 2 <=> owners = {h, Worker}
    BY <1>3, DropReadsTwo DEF Drop
  <2> QED
    BY <1>3, <2>1 DEF Drop
<1>4. CASE NotifyOne(h)
  BY <1>4 DEF NotifyOne, Wake
<1>5. CASE SwapStop(h, "swap")
  BY <1>5 DEF SwapStop, AfterShutdown
<1>6. CASE LockSync(h)
  BY <1>6 DEF LockSync
<1>7. CASE UnlockSync(h)
  BY <1>7 DEF UnlockSync
<1>8. CASE NotifyAll(h)
  BY <1>8 DEF NotifyAll, Wake
<1>9. CASE Join(h)
  BY <1>9 DEF Join, AfterShutdown
<1>10. CASE Release(h)
  BY <1>10 DEF Release
<1>11. CASE SwapStop(h, "freeing")
  BY <1>11 DEF SwapStop, AfterShutdown
<1> QED
  BY <1>1, <1>2, <1>3, <1>4, <1>5, <1>6, <1>7, <1>8, <1>9, <1>10, <1>11
  DEF ClientStep, HandleStep

LEMMA WorkerStepIInv ==
  ASSUME IInv, WorkerStep \/ Timeout
  PROVE  IInv'
<1> USE LifecycleAssumption
    DEF IInv, TypeOK, HandlePC, WorkerPC, WorkerCritical, OwnersMatch, Owning,
        LastIsAlone, Requesting, StopRequested, StopMeansUnused,
        NoWaitAfterLock, NoLostShutdown, WorkerAt
<1>1. CASE CheckStop("top", "drain")
  BY <1>1 DEF CheckStop
<1>2. CASE Drain
  BY <1>2 DEF Drain
<1>3. CASE CheckStop("check", "lock")
  BY <1>3 DEF CheckStop
<1>4. CASE WorkerLock
  BY <1>4 DEF WorkerLock
<1>5. CASE CheckLocked
  BY <1>5 DEF CheckLocked
<1>6. CASE Poll
  BY <1>6 DEF Poll
<1>7. CASE Park
  BY <1>7 DEF Park
<1>8. CASE Relock
  BY <1>8 DEF Relock
<1>9. CASE FinalDrain
  BY <1>9 DEF FinalDrain
<1>10. CASE WorkerExit
  BY <1>10 DEF WorkerExit
<1>11. CASE Timeout
  BY <1>11 DEF Timeout
<1> QED
  BY <1>1, <1>2, <1>3, <1>4, <1>5, <1>6, <1>7, <1>8, <1>9, <1>10, <1>11
  DEF WorkerStep

LEMMA StutterIInv ==
  ASSUME IInv, UNCHANGED vars
  PROVE  IInv'
BY DEF vars, IInv, TypeOK, OwnersMatch, LastIsAlone, StopRequested,
       StopMeansUnused, NoWaitAfterLock, NoLostShutdown

LEMMA NextIInv == IInv /\ [Next]_vars => IInv'
<1> SUFFICES ASSUME IInv, [Next]_vars PROVE IInv'
  OBVIOUS
<1>1. CASE \E h \in Handles : ClientStep(h) \/ HandleStep(h)
  BY <1>1, HandleStepIInv
<1>2. CASE WorkerStep \/ Timeout
  BY <1>2, WorkerStepIInv
<1>3. CASE Terminated \/ UNCHANGED vars
  BY <1>3, StutterIInv DEF Terminated
<1> QED
  BY <1>1, <1>2, <1>3 DEF Next

LEMMA SpecIInv == Spec => []IInv
BY InitIInv, NextIInv, PTL DEF Spec

-----------------------------------------------------------------------------
(* The properties.                                                          *)

\* Every variable of the lifecycle keeps its type, and WorkerSync.lock is held
\* by exactly the thread that is inside one of its critical sections.
THEOREM LifecycleTypeOK == Spec => []TypeOK
<1>1. IInv => TypeOK
  BY DEF IInv
<1> QED
  BY <1>1, SpecIInv, PTL

\* Tracer::drop never stops the worker while a handle can still record.
THEOREM StopOnlyWhenUnused == Spec => []StopMeansUnused
<1>1. IInv => StopMeansUnused
  BY DEF IInv
<1> QED
  BY <1>1, SpecIInv, PTL

\* request_shutdown never joins a worker that sleeps through its signal.
THEOREM ShutdownSignalHeard == Spec => []NoLostShutdown
<1>1. IInv => NoLostShutdown
  BY DEF IInv
<1> QED
  BY <1>1, SpecIInv, PTL

\* The drain worker never frees the inner state it would have to join itself
\* from.
THEOREM WorkerNeverFrees == Spec => []WorkerNeverLastOwner
<1>1. IInv => WorkerNeverLastOwner
  <2> SUFFICES ASSUME IInv, wpc = "release" PROVE owners # {Worker}
    BY DEF WorkerNeverLastOwner
  <2>1. PICK h \in Handles : hpc[h] \in Requesting
    BY DEF IInv, StopRequested
  <2>2. h \in owners /\ h # Worker
    BY <2>1, LifecycleAssumption DEF IInv, OwnersMatch, Owning, Requesting
  <2> QED
    BY <2>2
<1> QED
  BY <1>1, SpecIInv, PTL

-----------------------------------------------------------------------------
(* Clients that drop their handles one at a time.                           *)

\* As long as nothing has been stopped, a handle that can stop it is left.
SomeoneWillStop ==
  ~stopFlag => \E h \in Handles : hpc[h] \in {"live", "signal", "swap"}

LEMMA SerialNext ==
  ASSUME IInv, SomeoneWillStop, Next /\ SerialDrops
  PROVE  SomeoneWillStop'
<1> SUFFICES ASSUME ~stopFlag'
             PROVE  \E h \in Handles : hpc'[h] \in {"live", "signal", "swap"}
  BY DEF SomeoneWillStop
<1> USE LifecycleAssumption DEF HandleAt, WorkerAt
<1>1. ASSUME NEW h \in Handles, Drop(h)
      PROVE  \E g \in Handles : hpc'[g] \in {"live", "signal", "swap"}
  <2>1. CASE StrongCount = 2
    BY <1>1, <2>1 DEF Drop, IInv, TypeOK
  <2>2. CASE StrongCount # 2
    <3>1. PICK g \in owners : g \notin {h, Worker}
      <4>1. {h, Worker} \subseteq owners
        BY <1>1
        DEF Drop, IInv, OwnersMatch, Owning, StopRequested, StopMeansUnused
      <4> QED
        BY <1>1, <2>2, <4>1, DropReadsTwo DEF Drop
    <3>2. g \in Handles /\ g # h /\ hpc[g] \in Owning
      BY <3>1 DEF IInv, TypeOK, OwnersMatch
    <3>3. hpc[h] = "live" /\ hpc'[h] = "release"
      BY <1>1, <2>2 DEF Drop, IInv, TypeOK
    <3>4. hpc[g] \notin {"swap", "release"}
      BY <3>2, <3>3 DEF SerialDrops
    <3>5. hpc[g] \in {"live", "signal"}
      BY <1>1, <3>2, <3>4
      DEF Owning, IInv, StopRequested, Requesting, StopMeansUnused, Drop
    <3> QED
      BY <1>1, <3>2, <3>5 DEF Drop, IInv, TypeOK
  <2> QED
    BY <2>1, <2>2
<1>2. ASSUME NEW h \in Handles,
             (\E g \in Handles : Clone(h, g)) \/ RequestFlush(h) \/ HandleStep(h)
      PROVE  \E g \in Handles : hpc'[g] \in {"live", "signal", "swap"}
  BY <1>2
  DEF Clone, RequestFlush, HandleStep, NotifyOne, SwapStop, LockSync,
      UnlockSync, NotifyAll, Join, Release, SomeoneWillStop, IInv, TypeOK
<1>3. CASE WorkerStep \/ Timeout \/ Terminated
  BY <1>3
  DEF WorkerStep, Timeout, Terminated, CheckStop, Drain, WorkerLock,
      CheckLocked, Poll, Park, Relock, FinalDrain, WorkerExit, vars,
      SomeoneWillStop
<1> QED
  BY <1>1, <1>2, <1>3 DEF Next, ClientStep

\* With serial drops the last handle to go stops the worker: what the count
\* comparison in Tracer::drop achieves, and all that it achieves.
THEOREM SerialLastDropStops == SerialSpec => []LastDropStopsWorker
<1>1. Init => SomeoneWillStop
  BY LifecycleAssumption DEF Init, SomeoneWillStop
<1>2. /\ IInv /\ SomeoneWillStop
      /\ [Next /\ SerialDrops]_vars
      => (IInv /\ SomeoneWillStop)'
  <2> SUFFICES ASSUME IInv, SomeoneWillStop, [Next /\ SerialDrops]_vars
               PROVE  (IInv /\ SomeoneWillStop)'
    OBVIOUS
  <2>1. IInv'
    BY NextIInv
  <2>2. CASE Next /\ SerialDrops
    BY <2>1, <2>2, SerialNext
  <2>3. CASE UNCHANGED vars
    BY <2>1, <2>3 DEF vars, SomeoneWillStop
  <2> QED
    BY <2>2, <2>3
<1>3. SomeoneWillStop => LastDropStopsWorker
  BY DEF SomeoneWillStop, LastDropStopsWorker
<1> QED
  BY <1>1, <1>2, <1>3, InitIInv, PTL DEF SerialSpec
=============================================================================
